------------------------- MODULE Automation_proofs -------------------------
(***************************************************************************)
(* Proofs about Automation, for every well-formed program.  An instance is *)
(* carried by the calls, timers and lists that will go on with it; the     *)
(* invariants say what is carried where, how that agrees with the counters *)
(* of the actions, and that no new instance overtakes one that is queued.  *)
(***************************************************************************)
EXTENDS Automation, FiniteSetTheorems, SequenceTheorems, TLAPS

Instances == Seq(Nat)
Delays == OfKind({"delay"})
Untils == OfKind({"wait_until"})

(* What may be on the stack, and what may be there below the innermost call. *)
Frames ==
  [op : {"play", "next"}, of : Actions, args : Instances]
  \cup [op : {"execute"}, of : Scripts, args : Instances]
  \cup [op : {"script_loop", "script_loop_ends"}, of : Queued, args : Instances]
  \cup [op : {"pop_front"}, of : OfKind({"wait"}), args : Instances]
  \cup [op : {"process", "enable_if_waiting", "disable_unless_waiting"},
        of : Untils, args : Instances]
  \cup [op : {"walk"}, of : Untils, queue : Seq(Instances),
        pending : Seq(Instances), seen : 0 .. 255]
Lower(f) == /\ f.op \notin {"play", "execute"}
            /\ f.op = "next" => program.kind[f.of] \in {"execute"} \cup Continuations
GoodStack(st) == /\ st \in Seq(Frames)
                 /\ \A i \in 2 .. Len(st) : Lower(st[i])
                 /\ \A i \in 1 .. Len(st) - 1 : st[i].op # "pop_front"

(* The instances that a call, and that an action carries.                  *)
CarriedBy(f, a) ==
  IF f.op \in {"play", "next"} /\ f.of = a THEN {f.args}
  ELSE IF f.op = "walk" /\ f.of = a THEN Range(f.queue) \cup Range(f.pending)
  ELSE {}
OnStack(st, a) == UNION {CarriedBy(st[i], a) : i \in DOMAIN st}
Timed(ts, a) == {t.args : t \in {u \in ts : u.of = a}}
Listed(w, a) == IF a \in Waits THEN Range(w[a]) ELSE {}
Carried(a) == Timed(timers, a) \cup Listed(waiting, a) \cup OnStack(stack, a)

(* The number below which are those of all instances but the one that is   *)
(* about to be executed.                                                   *)
Limit == IF Top("execute") THEN next_id - 1 ELSE next_id

(* The ring of a queued script, with room for c instances: what is in it,  *)
(* and that they are in order and below a limit.                           *)
Rings(c) == [slots : [0 .. c - 1 -> Instances], front : Nat, count : 0 .. c]
Spot(r, c, i) == (r.front + i - 1) % c
Ordered(r, c, limit) ==
  /\ r \in Rings(c) /\ (r.front = 0 \/ r.front < c)
  /\ \A k \in 0 .. c - 1 :
       /\ r.slots[k] # << >> <=> \E i \in 1 .. r.count : k = Spot(r, c, i)
       /\ r.slots[k] # << >> => Len(r.slots[k]) = 1 /\ Id(r.slots[k]) < limit
  /\ \A i, j \in 1 .. r.count :
       i < j => Id(r.slots[Spot(r, c, i)]) < Id(r.slots[Spot(r, c, j)])
TypeInv ==
  /\ program \in Programs
  /\ num_running \in [Actions -> Nat]
  /\ timers \subseteq [of : Delays, args : Instances]
  /\ waiting \in [Waits -> Seq(Instances)]
  /\ generation \in [Untils -> 0 .. 255]
  /\ loops \in [Waits \cup Queued -> {"construction", "loop", "done"}]
  /\ condition \in BOOLEAN
  /\ next_id \in Nat \ {0}
  /\ stopped \in [Scripts -> Nat]
  /\ GoodStack(stack)
  /\ Top("execute") => Args = << next_id - 1 >>

(* Every instance that is carried has the arguments of the action, and is  *)
(* older than those that its script has queued.                            *)
Older(a, x, r) ==
  program.script[a] \in Queued =>
    \A k \in 0 .. Capacity(program.script[a]) - 1 :
      r[program.script[a]].slots[k] # << >> => Id(x) < Id(r[program.script[a]].slots[k])
InstanceInv ==
  \A a \in Actions : \A x \in Carried(a) :
    /\ Len(x) = program.arity[a]
    /\ Id(x) < Limit
    /\ Older(a, x, ring)

RingInv ==
  /\ ring = [s \in Queued |-> ring[s]]
  /\ \A s \in Queued : Ordered(ring[s], Capacity(s), Limit)

ShapeInv == TypeInv /\ InstanceInv /\ RingInv

(* Who is about to enter a script's list is counted too.                   *)
One(b) == IF b THEN 1 ELSE 0
Pairs(S, num) == UNION {{a} \X (1 .. num[a]) : a \in S}
Entering(s) == Top("play") /\ This \in Range(program.chain[s])
Load(s) == NumRunning(s) + One(Entering(s))
Fine(s) ==
  /\ program.mode[s] = "parallel" =>
       program.max_runs[s] = 0 \/ Load(s) <= program.max_runs[s]
  /\ program.mode[s] = "queued" =>
       Load(s) <= 1 /\ Load(s) + ring[s].count <= program.max_runs[s]
  /\ program.mode[s] \in {"single", "restart"} => Load(s) <= 1
LimitsInv ==
  /\ IsFiniteSet(Pairs(Actions, num_running))
  /\ \A s \in Scripts : Fine(s)

(* Nothing that an action holds - a pending timeout, a place in a list, an *)
(* instance in its nested lists, or the innermost call - is without an     *)
(* instance that the action counts; the one that script.wait has resumed   *)
(* stays in the list until pop_front.                                      *)
Holders == OfKind({"delay", "wait", "if", "while", "repeat"})
Proper(a) == {b \in Inside(a) : program.kind[b] \notin Continuations}
Size(a, ts, w, num) ==
  IF program.kind[a] = "delay" THEN Cardinality({t \in ts : t.of = a})
  ELSE IF program.kind[a] = "wait" THEN Len(w[a]) ELSE Cardinality(Pairs(Proper(a), num))
Claims(st, a, num) ==
  /\ st # << >>
  /\ \/ st[1].op = "play" /\ st[1].of \in Inside(a)
     \/ st[1].op = "next" /\ st[1].of = a /\ num[a] > 0
Popping(st, a) == st # << >> /\ st[Len(st)].op = "pop_front" /\ st[Len(st)].of = a
Balanced(ts, w, num, st) ==
  /\ IsFiniteSet(ts)
  /\ \A a \in Holders :
       Size(a, ts, w, num) + One(Claims(st, a, num)) <= num[a] + One(Popping(st, a))
HeldInv == Balanced(timers, waiting, num_running, stack)

(* No instance that was stopped is held, and none will be when the calls   *)
(* have returned: an action that still counts as many instances as calls   *)
(* return into it before (the depth of a call is counted from the          *)
(* outermost) has not been stopped since that call was made.               *)
Ok(a, x, stp) == Id(x) >= stp[program.script[a]]
At(st, d) == st[Len(st) + 1 - d]
NextsOf(st, a) == {d \in 1 .. Len(st) : At(st, d).op = "next" /\ At(st, d).of = a}
NextsOk(st, num, stp) ==
  \A a \in Actions : program.kind[a] \notin Continuations =>
    \A d \in NextsOf(st, a) :
      Cardinality({e \in NextsOf(st, a) : e > d}) < num[a] => Ok(a, At(st, d).args, stp)
TimersOk(ts, stp) == \A t \in ts : Ok(t.of, t.args, stp)
WaitsOk(w, st, stp) ==
  \A a \in OfKind({"wait"}) : \A i \in DOMAIN w[a] :
    i > 1 \/ ~ Popping(st, a) => Ok(a, w[a][i], stp)
PlaysOk(st, stp) ==
  st # << >> /\ st[1].op = "play" => Ok(st[1].of, st[1].args, stp)
RingsOk(r, stp) ==
  \A s \in Queued : \A k \in 0 .. Capacity(s) - 1 :
    r[s].slots[k] # << >> => Id(r[s].slots[k]) >= stp[s]
FreshInv ==
  /\ TimersOk(timers, stopped) /\ WaitsOk(waiting, stack, stopped)
  /\ PlaysOk(stack, stopped) /\ NextsOk(stack, num_running, stopped)
  /\ RingsOk(ring, stopped)
  /\ \A s \in Scripts : stopped[s] <= Limit
-----------------------------------------------------------------------------
(* What a program is, in the names of the model.                           *)
LEMMA ProgramFact ==
  ASSUME program \in Programs
  PROVE  /\ None \notin Actions
         /\ program.mode \in [Scripts -> Modes]
         /\ program.max_runs \in [Scripts -> Nat]
         /\ program.chain \in [Scripts -> Seq(Actions)]
         /\ program.kind \in [Actions -> Kinds]
         /\ program.then \in [Actions -> Seq(Actions)]
         /\ program.els \in [Actions -> Seq(Actions)]
         /\ program.count \in [Actions -> Nat]
         /\ program.timeout \in [Actions -> BOOLEAN]
         /\ program.arity \in [Actions -> Nat \ {0}]
         /\ program.script \in [Actions -> Scripts]
         /\ \A s \in Queued : program.max_runs[s] > 0
         /\ \A a \in OfKind({"execute", "stop", "wait"}) : program.target[a] \in Scripts
         /\ \A a \in OfKind({"if", "while", "repeat"}) : program.then[a] # << >>
<1> QED BY ProgramsAssumption DEF IsProgram, IsTyped, Actions, Scripts, Queued, OfKind

LEMMA LinkFact ==
  ASSUME program \in Programs
  PROVE  /\ \A s, z \in Scripts :
              s # z => Range(program.chain[s]) \cap Range(program.chain[z]) = {}
         /\ \A a, b \in Actions : a # b => Inside(a) \cap Inside(b) = {}
         /\ \A s \in Scripts, a \in Actions : Range(program.chain[s]) \cap Inside(a) = {}
         /\ \A s \in Scripts : \A a \in Range(program.chain[s]) :
              /\ program.kind[a] \notin Continuations
              /\ program.arity[a] = 1 /\ program.script[a] = s
         /\ \A a \in Actions : \A list \in Branches(program, a) :
              EndsWith(program, list, ContinuationOf(program.kind[a]))
         /\ \A a \in Actions : \A b \in Inside(a) :
              /\ program.arity[b] = program.arity[a]
                                    + IF program.kind[a] = "repeat" THEN 1 ELSE 0
              /\ program.script[b] = program.script[a]
         /\ \A s \in Scripts : \A reached \in SUBSET Actions :
              Range(program.chain[s]) \subseteq reached
              /\ (\A a \in reached : Inside(a) \subseteq reached)
              => {a \in Actions : program.script[a] = s} \subseteq reached
<1> QED BY ProgramsAssumption DEF IsProgram, IsLinked, Actions, Scripts, Inside

(* The lists are sequences of actions.                                     *)
LEMMA ListFact ==
  ASSUME program \in Programs
  PROVE  /\ \A s \in Scripts : program.chain[s] \in Seq(Actions)
         /\ \A a \in Actions : \A list \in Branches(program, a) : list \in Seq(Actions)
         /\ \A list \in Seq(Actions) :
              /\ Range(list) \subseteq Actions
              /\ \A i \in DOMAIN list : list[i] \in Range(list)
         /\ \A a \in Actions : Inside(a) \subseteq Actions
         /\ \A a \in Actions : \A list \in Branches(program, a) : Range(list) \subseteq Inside(a)
<1>1. /\ \A s \in Scripts : program.chain[s] \in Seq(Actions)
      /\ \A a \in Actions : \A list \in Branches(program, a) : list \in Seq(Actions)
  BY ProgramFact DEF Branches
<1>2. \A list \in Seq(Actions) :
        /\ Range(list) \subseteq Actions
        /\ \A i \in DOMAIN list : list[i] \in Range(list)
  BY DEF Range
<1>3. \A a \in Actions : \A list \in Branches(program, a) : Range(list) \subseteq Inside(a)
  BY DEF Inside, InsideOf
<1>4. \A a \in Actions : Inside(a) \subseteq Actions
  BY <1>1, <1>2 DEF Inside, InsideOf
<1> QED BY <1>1, <1>2, <1>3, <1>4

(* Every action is in one of the lists.                                    *)
LEMMA ListedFact ==
  ASSUME program \in Programs, NEW a \in Actions
  PROVE  ListOf(a) \in Lists /\ a \in Range(ListOf(a))
<1> DEFINE reached == {b \in Actions : \E list \in Lists : b \in Range(list)}
<1>1. Range(program.chain[program.script[a]]) \subseteq reached
  BY ProgramFact, ListFact DEF Lists
<1>2. \A b \in reached : Inside(b) \subseteq reached
  <2> SUFFICES ASSUME NEW b \in Actions, NEW c \in Inside(b)
               PROVE  c \in reached
    OBVIOUS
  <2>1. PICK list \in Branches(program, b) : c \in Range(list)
    BY DEF Inside, InsideOf
  <2> QED BY <2>1, ListFact DEF Lists
<1>3. a \in reached
  <2> HIDE DEF reached
  <2>1. program.script[a] \in Scripts
    BY ProgramFact
  <2>2. reached \in SUBSET Actions
    BY DEF reached
  <2> QED BY <1>1, <1>2, <2>1, <2>2, LinkFact
<1> QED BY <1>3 DEF ListOf

LEMMA FollowingFact ==
  ASSUME program \in Programs, NEW a \in Actions
  PROVE  /\ Following(a) # None =>
              /\ Following(a) \in Actions
              /\ program.arity[Following(a)] = program.arity[a]
              /\ program.script[Following(a)] = program.script[a]
              /\ \A s \in Scripts : a \in Range(program.chain[s])
                                    <=> Following(a) \in Range(program.chain[s])
              /\ \A b \in Actions : a \in Inside(b) <=> Following(a) \in Inside(b)
         /\ program.kind[a] \in Continuations =>
              Following(a) = None
              /\ \E P \in Actions : a \in Inside(P)
                   /\ program.kind[a] = ContinuationOf(program.kind[P])
<1> DEFINE list == ListOf(a)
           i == CHOOSE j \in DOMAIN list : list[j] = a
           f == list[i + 1]
<1>1. list \in Lists /\ a \in Range(list)
  BY ListedFact
<1>2. list \in Seq(Actions)
  BY <1>1, ListFact DEF Lists
<1>3. Following(a) = IF i < Len(list) THEN f ELSE None
  BY DEF Following
<1> HIDE DEF list
<1>4. i \in DOMAIN list /\ list[i] = a
  <2>1. \E j \in DOMAIN list : list[j] = a
    BY <1>1 DEF Range
  <2> QED BY <2>1
<1> HIDE DEF i
<1>5. i \in 1 .. Len(list) /\ Len(list) \in Nat
  BY <1>2, <1>4
<1>6. i < Len(list) => f \in Range(list) /\ f \in Actions
  BY <1>2, <1>5, ListFact
<1> HIDE DEF f
<1>7. None \notin Actions
  BY ProgramFact
<1>8. CASE \E s \in Scripts : list = program.chain[s]
  <2>1. PICK s \in Scripts : list = program.chain[s]
    BY <1>8
  <2>2. program.kind[a] \notin Continuations /\ program.arity[a] = 1 /\ program.script[a] = s
    BY <1>1, <2>1, LinkFact
  <2>3. \A z \in Scripts : a \in Range(program.chain[z]) <=> z = s
    BY <1>1, <2>1, LinkFact
  <2>4. \A b \in Actions : a \notin Inside(b)
    BY <1>1, <2>1, LinkFact
  <2>5. i < Len(list) => /\ program.arity[f] = 1 /\ program.script[f] = s
                         /\ \A z \in Scripts : f \in Range(program.chain[z]) <=> z = s
                         /\ \A b \in Actions : f \notin Inside(b)
    BY <1>6, <2>1, LinkFact
  <2> QED BY <1>3, <1>6, <1>7, <2>2, <2>3, <2>4, <2>5
<1>9. CASE \E P \in Actions : list \in Branches(program, P)
  <2>1. PICK P \in Actions : list \in Branches(program, P)
    BY <1>9
  <2>2. Range(list) \subseteq Inside(P)
    BY <2>1, ListFact
  <2>3. \A b \in Actions : a \in Inside(b) <=> b = P
    BY <1>1, <2>2, LinkFact
  <2>4. \A z \in Scripts : a \notin Range(program.chain[z])
    BY <1>1, <2>2, LinkFact
  <2>5. i < Len(list) => /\ program.arity[f] = program.arity[a]
                         /\ program.script[f] = program.script[a]
                         /\ \A z \in Scripts : f \notin Range(program.chain[z])
                         /\ \A b \in Actions : f \in Inside(b) <=> b = P
    BY <1>1, <1>6, <2>2, LinkFact
  <2>6. EndsWith(program, list, ContinuationOf(program.kind[P]))
    BY <2>1, LinkFact
  <2>7. program.kind[a] \in Continuations =>
          i = Len(list) /\ program.kind[a] = ContinuationOf(program.kind[P])
    BY <1>4, <2>6 DEF EndsWith
  <2>8. program.kind[a] \in Continuations =>
          Following(a) = None /\ a \in Inside(P)
          /\ program.kind[a] = ContinuationOf(program.kind[P])
    BY <1>1, <1>3, <1>5, <2>2, <2>7
  <2>9. Following(a) # None =>
          /\ Following(a) \in Actions
          /\ program.arity[Following(a)] = program.arity[a]
          /\ program.script[Following(a)] = program.script[a]
          /\ \A s \in Scripts : a \in Range(program.chain[s])
                                <=> Following(a) \in Range(program.chain[s])
          /\ \A b \in Actions : a \in Inside(b) <=> Following(a) \in Inside(b)
    BY <1>3, <1>6, <2>3, <2>4, <2>5
  <2> QED BY <2>8, <2>9
<1> QED BY <1>1, <1>8, <1>9 DEF Lists

(* An action with lists inside, what is in them, and what resumes it.      *)
LEMMA NestFact ==
  ASSUME program \in Programs, NEW P \in Actions, NEW b \in Inside(P)
  PROVE  /\ b \in Actions /\ Parent(b) = P
         /\ program.kind[P] \in {"if", "while", "repeat"}
         /\ program.script[b] = program.script[P]
         /\ program.arity[b] = program.arity[P] + IF program.kind[P] = "repeat" THEN 1 ELSE 0
         /\ \A s \in Scripts : b \notin Range(program.chain[s])
         /\ \A Q \in Actions : b \in Inside(Q) => Q = P
<1>1. b \in Actions
  BY ListFact
<1>2. \A Q \in Actions : b \in Inside(Q) => Q = P
  BY LinkFact
<1>3. Parent(b) = P
  BY <1>2 DEF Parent
<1>4. program.kind[P] \in {"if", "while", "repeat"}
  BY DEF Inside, InsideOf, Branches
<1> QED BY <1>1, <1>2, <1>3, <1>4, LinkFact

LEMMA ContinuationFact ==
  ASSUME program \in Programs, NEW c \in Actions, program.kind[c] \in Continuations
  PROVE  /\ Parent(c) \in Actions /\ c \in Inside(Parent(c)) /\ Following(c) = None
         /\ program.kind[c] = "continuation" => program.kind[Parent(c)] = "if"
         /\ program.kind[c] = "while_continuation" => program.kind[Parent(c)] = "while"
         /\ program.kind[c] = "repeat_continuation" => program.kind[Parent(c)] = "repeat"
<1>1. PICK P \in Actions : c \in Inside(P) /\ program.kind[c] = ContinuationOf(program.kind[P])
  BY FollowingFact
<1>2. Parent(c) = P /\ program.kind[P] \in {"if", "while", "repeat"}
  BY <1>1, NestFact
<1> QED BY <1>1, <1>2, FollowingFact DEF ContinuationOf

(* Nothing is inside of itself.                                            *)
LEMMA NoSelf ==
  ASSUME program \in Programs, NEW a \in Actions
  PROVE  a \notin Inside(a)
<1> SUFFICES ASSUME a \in Inside(a) PROVE FALSE
  OBVIOUS
<1> DEFINE reached == Actions \ {a}
<1>1. program.script[a] \in Scripts
  BY ProgramFact
<1>2. Range(program.chain[program.script[a]]) \subseteq reached
  BY <1>1, ListFact, LinkFact
<1>3. \A b \in reached : Inside(b) \subseteq reached
  BY ListFact, LinkFact
<1>4. reached \in SUBSET Actions
  OBVIOUS
<1> HIDE DEF reached
<1>5. a \in reached
  BY <1>1, <1>2, <1>3, <1>4, LinkFact
<1> QED BY <1>5 DEF reached

(* What is played first is in the list.                                    *)
LEMMA FirstFact ==
  ASSUME program \in Programs
  PROVE  /\ \A s \in Scripts : program.chain[s] # << >> =>
              Head(program.chain[s]) \in Range(program.chain[s])
         /\ \A a \in Actions : \A list \in Branches(program, a) : list # << >> =>
              Head(list) \in Inside(a)
         /\ \A a \in OfKind({"if", "while", "repeat"}) : program.then[a] \in Branches(program, a)
         /\ \A a \in OfKind({"if"}) : program.els[a] \in Branches(program, a)
<1>1. \A list \in Seq(Actions) : list # << >> => Head(list) \in Range(list)
  <2> SUFFICES ASSUME NEW list \in Seq(Actions), list # << >> PROVE Head(list) \in Range(list)
    OBVIOUS
  <2>1. 1 \in DOMAIN list /\ Head(list) = list[1]
    OBVIOUS
  <2> QED BY <2>1, ListFact
<1> QED BY <1>1, ListFact DEF OfKind, Branches
-----------------------------------------------------------------------------
(* The calls that are left when the innermost one has returned.            *)
Below(st) == IF st = << >> THEN << >> ELSE Tail(st)

(* New calls take the place of the innermost one.                          *)
Fits(fs, st) ==
  /\ fs \in Seq(Frames) /\ Len(fs) <= 2
  /\ Len(fs) = 2 => Lower(fs[2])
  /\ \A i \in 1 .. Len(fs) : fs[i].op = "pop_front" => st = << >> /\ i = Len(fs)

Replaces(new, st, fs) == GoodStack(st) /\ Fits(fs, st) /\ new = fs \o Below(st)

LEMMA StackFact ==
  ASSUME NEW st, NEW fs, NEW new, Replaces(new, st, fs)
  PROVE  /\ GoodStack(new)
         /\ Len(new) = Len(fs) + Len(Below(st))
         /\ Len(Below(st)) = IF st = << >> THEN 0 ELSE Len(st) - 1
         /\ fs # << >> => new # << >> /\ new[1] = fs[1]
         /\ fs = << >> /\ new # << >> => Lower(new[1]) /\ Len(st) > 1 /\ new[1] = st[2]
         /\ \A i \in 1 .. Len(new) :
              \/ i <= Len(fs) /\ new[i] = fs[i]
              \/ i > Len(fs) /\ i - Len(fs) + 1 <= Len(st) /\ new[i] = st[i - Len(fs) + 1]
<1> USE DEF Replaces
<1>1. fs \in Seq(Frames) /\ Len(fs) \in Nat /\ st \in Seq(Frames) /\ Len(st) \in Nat
  BY DEF GoodStack, Fits
<1>2. /\ Below(st) \in Seq(Frames)
      /\ Len(Below(st)) = IF st = << >> THEN 0 ELSE Len(st) - 1
      /\ \A j \in 1 .. Len(Below(st)) : j + 1 <= Len(st) /\ Below(st)[j] = st[j + 1]
  BY <1>1 DEF Below
<1> DEFINE low == Below(st)
<1> HIDE DEF low
<1>3. /\ low \in Seq(Frames) /\ Len(low) \in Nat
      /\ new = fs \o low
      /\ \A j \in 1 .. Len(low) : j + 1 <= Len(st) /\ low[j] = st[j + 1]
  BY <1>1, <1>2 DEF low
<1>4. /\ new \in Seq(Frames) /\ Len(new) = Len(fs) + Len(low)
      /\ \A i \in 1 .. Len(new) : new[i] = IF i <= Len(fs) THEN fs[i] ELSE low[i - Len(fs)]
  BY <1>1, <1>3
<1>5. \A i \in 1 .. Len(new) :
        \/ i <= Len(fs) /\ new[i] = fs[i]
        \/ i > Len(fs) /\ i - Len(fs) + 1 <= Len(st) /\ new[i] = st[i - Len(fs) + 1]
  <2> SUFFICES ASSUME NEW i \in 1 .. Len(new), ~ (i <= Len(fs))
               PROVE  i - Len(fs) + 1 <= Len(st) /\ new[i] = st[i - Len(fs) + 1]
    BY <1>1, <1>4
  <2>1. PICK j \in 1 .. Len(low) : j = i - Len(fs) /\ new[i] = low[j]
    BY <1>1, <1>3, <1>4
  <2>2. j + 1 <= Len(st) /\ low[j] = st[j + 1] /\ j + 1 = i - Len(fs) + 1
    BY <2>1, <1>1, <1>3
  <2> QED BY <2>1, <2>2
<1>6. \A i \in 2 .. Len(new) : Lower(new[i])
  <2> SUFFICES ASSUME NEW i \in 2 .. Len(new) PROVE Lower(new[i])
    OBVIOUS
  <2>1. CASE i <= Len(fs)
    <3>1. Len(fs) <= 2
      BY DEF Fits
    <3> DEFINE m == Len(fs)
               n == Len(new)
    <3>4. m \in Nat /\ n \in Nat /\ m <= 2 /\ i <= m /\ i \in 2 .. n
      BY <2>1, <3>1, <1>1, <1>3, <1>4
    <3> HIDE DEF m, n
    <3>5. i = 2 /\ m = 2 /\ i \in 1 .. n
      BY <3>4
    <3>2. i = 2 /\ Len(fs) = 2 /\ i \in 1 .. Len(new)
      BY <3>5 DEF m, n
    <3>3. new[i] = fs[2]
      BY <3>2, <1>4
    <3> QED BY <3>2, <3>3 DEF Fits
  <2>2. CASE i > Len(fs)
    <3>1. i - Len(fs) + 1 \in 2 .. Len(st) /\ new[i] = st[i - Len(fs) + 1]
      BY <2>2, <1>1, <1>3, <1>4, <1>5
    <3> QED BY <3>1 DEF GoodStack
  <2> QED BY <2>1, <2>2, <1>1
<1>7. \A i \in 1 .. Len(new) - 1 : new[i].op # "pop_front"
  <2> SUFFICES ASSUME NEW i \in 1 .. Len(new) - 1 PROVE new[i].op # "pop_front"
    OBVIOUS
  <2>1. CASE i <= Len(fs)
    <3>1. new[i] = fs[i] /\ i \in 1 .. Len(fs)
      BY <2>1, <1>1, <1>3, <1>4
    <3>2. SUFFICES ASSUME fs[i].op = "pop_front" PROVE FALSE
      BY <3>1
    <3>3. st = << >> /\ i = Len(fs)
      BY <3>1, <3>2 DEF Fits
    <3> QED BY <3>3, <1>1, <1>2, <1>4 DEF low
  <2>2. CASE i > Len(fs)
    <3>1. i - Len(fs) + 1 \in 1 .. Len(st) - 1 /\ new[i] = st[i - Len(fs) + 1]
      <4>1. i \in 1 .. Len(new) /\ i + 1 \in 1 .. Len(new) /\ i + 1 > Len(fs)
        BY <2>2, <1>1, <1>3, <1>4
      <4>2. i + 1 - Len(fs) + 1 <= Len(st) /\ new[i] = st[i - Len(fs) + 1]
        BY <4>1, <2>2, <1>1, <1>5
      <4> QED BY <4>1, <4>2, <2>2, <1>1
    <3> QED BY <3>1 DEF GoodStack
  <2> QED BY <2>1, <2>2, <1>1
<1>8. fs # << >> => new # << >> /\ new[1] = fs[1]
  <2> SUFFICES ASSUME fs # << >> PROVE new # << >> /\ new[1] = fs[1]
    OBVIOUS
  <2>1. Len(fs) >= 1
    BY <1>1
  <2>2. 1 \in 1 .. Len(new)
    BY <2>1, <1>1, <1>3, <1>4
  <2> QED BY <2>1, <2>2, <1>4
<1>9. fs = << >> /\ new # << >> => Lower(new[1]) /\ Len(st) > 1 /\ new[1] = st[2]
  <2> SUFFICES ASSUME fs = << >>, new # << >> PROVE Lower(new[1]) /\ Len(st) > 1 /\ new[1] = st[2]
    OBVIOUS
  <2>1. Len(fs) = 0 /\ 1 \in 1 .. Len(new)
    BY <1>4
  <2>2. 1 - 0 + 1 <= Len(st) /\ new[1] = st[1 - 0 + 1]
    BY <2>1, <1>5
  <2>3. 2 \in 2 .. Len(st) /\ new[1] = st[2]
    BY <2>2, <1>1
  <2> QED BY <2>3 DEF GoodStack
<1> QED BY <1>2, <1>4, <1>5, <1>6, <1>7, <1>8, <1>9 DEF GoodStack, low

(* What is carried on it then.                                             *)
LEMMA OnStackFact ==
  ASSUME NEW st, GoodStack(st), NEW fs, Fits(fs, st), NEW new, new = fs \o Below(st),
         NEW a, NEW x \in OnStack(new, a)
  PROVE  (\E i \in 1 .. Len(fs) : x \in CarriedBy(fs[i], a)) \/ x \in OnStack(st, a)
<1>0. Replaces(new, st, fs)
  BY DEF Replaces
<1>1. GoodStack(new)
  BY <1>0, StackFact
<1>2. /\ DOMAIN new = 1 .. Len(new) /\ DOMAIN st = 1 .. Len(st)
      /\ Len(new) \in Nat /\ Len(fs) \in Nat /\ Len(st) \in Nat
  BY <1>1 DEF GoodStack, Fits
<1>3. PICK i \in 1 .. Len(new) : x \in CarriedBy(new[i], a)
  BY <1>2 DEF OnStack
<1>4. CASE i <= Len(fs) /\ new[i] = fs[i]
  BY <1>2, <1>3, <1>4
<1>5. CASE i > Len(fs) /\ i - Len(fs) + 1 <= Len(st) /\ new[i] = st[i - Len(fs) + 1]
  <2>1. i - Len(fs) + 1 \in DOMAIN st
    BY <1>2, <1>5
  <2> QED BY <1>3, <1>5, <2>1 DEF OnStack
<1>6. \/ i <= Len(fs) /\ new[i] = fs[i]
      \/ i > Len(fs) /\ i - Len(fs) + 1 <= Len(st) /\ new[i] = st[i - Len(fs) + 1]
  BY ONLY <1>0, StackFact
<1> QED BY <1>4, <1>5, <1>6

(* A call in a list, and one after the other.                              *)
LEMMA FrameFact ==
  ASSUME NEW f \in Frames
  PROVE  /\ << f >> \in Seq(Frames) /\ Len(<< f >>) = 1 /\ << f >>[1] = f
         /\ << f >> # << >>
         /\ \A g \in Frames : /\ << f, g >> \in Seq(Frames) /\ Len(<< f, g >>) = 2
                              /\ << f, g >>[1] = f /\ << f, g >>[2] = g
         /\ \A p \in Seq(Frames) : /\ p \o << f >> \in Seq(Frames)
                                   /\ Len(p) \in Nat /\ Len(p \o << f >>) = Len(p) + 1
                                   /\ \A i \in 1 .. Len(p) : (p \o << f >>)[i] = p[i]
                                   /\ (p \o << f >>)[Len(p) + 1] = f
<1>1. /\ << f >> \in Seq(Frames) /\ Len(<< f >>) = 1 /\ << f >>[1] = f
      /\ << f >> # << >>
  OBVIOUS
<1>2. ASSUME NEW g \in Frames
      PROVE  /\ << f, g >> \in Seq(Frames) /\ Len(<< f, g >>) = 2
             /\ << f, g >>[1] = f /\ << f, g >>[2] = g
  OBVIOUS
<1>3. ASSUME NEW p \in Seq(Frames)
      PROVE  /\ p \o << f >> \in Seq(Frames)
             /\ Len(p) \in Nat /\ Len(p \o << f >>) = Len(p) + 1
             /\ \A i \in 1 .. Len(p) : (p \o << f >>)[i] = p[i]
             /\ (p \o << f >>)[Len(p) + 1] = f
  OBVIOUS
<1> QED BY <1>1, <1>2, <1>3
-----------------------------------------------------------------------------
(* A position in a ring, and the next one.                                 *)
LEMMA WrapFact ==
  ASSUME NEW R \in Nat, R >= 1, NEW m \in 0 .. 2 * R - 1
  PROVE  m % R = IF m < R THEN m ELSE m - R
<1>1. m \div R \in Int
  OBVIOUS
<1>2. m % R \in 0 .. R - 1
  OBVIOUS
<1>3. m % R = m - R * (m \div R)
  OBVIOUS
<1> DEFINE q == m \div R
           e == m % R
<1>4. q \in Int /\ e \in 0 .. R - 1 /\ e = m - R * q
  BY <1>1, <1>2, <1>3
<1> HIDE DEF q, e
<1>5. q = 0 \/ q = 1
  <2>1. q >= 0
    <3> SUFFICES ASSUME q <= -1 PROVE FALSE
      BY <1>4
    <3>1. R * q <= -R
      BY <1>4
    <3> QED BY <3>1, <1>4
  <2>2. q <= 1
    <3> SUFFICES ASSUME q >= 2 PROVE FALSE
      BY <1>4
    <3>1. R * q >= 2 * R
      BY <1>4
    <3> QED BY <3>1, <1>4
  <2> QED BY <2>1, <2>2, <1>4
<1>6. CASE q = 0
  <2>1. e = m
    BY <1>4, <1>6
  <2> QED BY <2>1, <1>4 DEF e
<1>7. CASE q = 1
  <2>1. e = m - R
    BY <1>4, <1>7
  <2> QED BY <2>1, <1>4 DEF e
<1> QED BY <1>5, <1>6, <1>7

LEMMA SpotFact ==
  ASSUME NEW c \in Nat, NEW r \in Rings(c), r.front = 0 \/ r.front < c, NEW i \in 1 .. c
  PROVE  Spot(r, c, i) = IF r.front + i - 1 < c THEN r.front + i - 1 ELSE r.front + i - 1 - c
<1>1. PICK m : m = r.front + i - 1
  OBVIOUS
<1>2. c >= 1 /\ r.front \in Nat /\ m \in 0 .. 2 * c - 1
  BY <1>1 DEF Rings
<1>3. m % c = IF m < c THEN m ELSE m - c
  BY <1>2, WrapFact
<1>4. Spot(r, c, i) = m % c
  BY <1>1 DEF Spot
<1> QED BY <1>1, <1>2, <1>3, <1>4

LEMMA OrderedLater ==
  ASSUME NEW c \in Nat, NEW l \in Nat, NEW r, Ordered(r, c, l), NEW k \in Nat, l <= k
  PROVE  Ordered(r, c, k)
<1>1. \A j \in 0 .. c - 1 : r.slots[j] # << >> /\ Len(r.slots[j]) = 1 => Id(r.slots[j]) \in Nat
  <2> SUFFICES ASSUME NEW j \in 0 .. c - 1, Len(r.slots[j]) = 1
               PROVE  Id(r.slots[j]) \in Nat
    OBVIOUS
  <2>1. r.slots[j] \in Seq(Nat)
    BY DEF Ordered, Rings, Instances
  <2> QED BY <2>1 DEF Id, Last
<1>2. \A j \in 0 .. c - 1 : r.slots[j] # << >> => Len(r.slots[j]) = 1 /\ Id(r.slots[j]) < k
  BY <1>1 DEF Ordered
<1> QED BY <1>2 DEF Ordered

LEMMA EmptyOrdered ==
  ASSUME NEW s \in Queued, program \in Programs, NEW l
  PROVE  Capacity(s) \in Nat /\ Ordered(EmptyRing(s), Capacity(s), l)
<1>1. Capacity(s) \in Nat
  BY ProgramFact DEF Capacity, Queued
<1>2. << >> \in Instances
  BY DEF Instances
<1>3. EmptyRing(s) \in Rings(Capacity(s))
  BY <1>1, <1>2 DEF EmptyRing, Rings
<1> QED BY <1>1, <1>3 DEF EmptyRing, Ordered

(* Where what is in the ring lies.                                         *)
LEMMA SpotsFact ==
  ASSUME NEW c \in Nat, NEW r \in Rings(c), r.front = 0 \/ r.front < c
  PROVE  /\ \A i \in 1 .. c : Spot(r, c, i) \in 0 .. c - 1
         /\ \A i, j \in 1 .. c : Spot(r, c, i) = Spot(r, c, j) => i = j
<1>1. r.front \in Nat
  BY DEF Rings
<1>2. \A i \in 1 .. c : Spot(r, c, i) = IF r.front + i - 1 < c THEN r.front + i - 1 ELSE r.front + i - 1 - c
  BY SpotFact
<1> QED BY <1>1, <1>2

(* One more at the end of it, and one less at the beginning.               *)
Appended(r, c, x) ==
  [r EXCEPT !.slots[(r.front + r.count) % c] = x, !.count = @ + 1]
Dequeued(r, c) ==
  [r EXCEPT !.slots[r.front] = << >>, !.count = @ - 1, !.front = (@ + 1) % c]

LEMMA AppendOrdered ==
  ASSUME NEW c \in Nat, NEW l \in Nat, NEW r, Ordered(r, c, l), r.count < c,
         NEW x \in Instances, Len(x) = 1, Id(x) = l,
         NEW q, q = Appended(r, c, x)
  PROVE  /\ Ordered(q, c, l + 1)
         /\ \A k \in 0 .. c - 1 : q.slots[k] \in {x, r.slots[k]}
<1>1. /\ r \in Rings(c) /\ (r.front = 0 \/ r.front < c)
      /\ r.slots \in [0 .. c - 1 -> Instances] /\ r.front \in Nat /\ r.count \in 0 .. c
  BY DEF Ordered, Rings
<1>2. PICK place : place = Spot(r, c, r.count + 1)
  OBVIOUS
<1>3. place \in 0 .. c - 1
  <2>1. r.count + 1 \in 1 .. c
    BY <1>1
  <2> QED BY <2>1, <1>1, <1>2, SpotsFact
<1>4. /\ q = [slots |-> [r.slots EXCEPT ![place] = x], front |-> r.front, count |-> r.count + 1]
      /\ q \in Rings(c)
  <2>1. place = (r.front + r.count) % c
    <3>1. r.front + (r.count + 1) - 1 = r.front + r.count
      BY <1>1
    <3> QED BY <3>1, <1>2 DEF Spot
  <2>2. q = [r EXCEPT !.slots[place] = x, !.count = @ + 1]
    BY <2>1 DEF Appended
  <2>3. q = [slots |-> [r.slots EXCEPT ![place] = x], front |-> r.front, count |-> r.count + 1]
    BY <2>2, <1>1 DEF Rings
  <2>4. r.count + 1 \in 0 .. c
    BY <1>1
  <2>5. [r.slots EXCEPT ![place] = x] \in [0 .. c - 1 -> Instances]
    BY <1>1
  <2> QED BY <2>3, <2>4, <2>5, <1>1 DEF Rings
<1>5. /\ q.front = r.front /\ q.count = r.count + 1
      /\ \A k \in 0 .. c - 1 : q.slots[k] = IF k = place THEN x ELSE r.slots[k]
  BY <1>1, <1>4
<1>6. \A i : Spot(q, c, i) = Spot(r, c, i)
  BY <1>5 DEF Spot
<1>7. \A i \in 1 .. r.count : Spot(r, c, i) \in 0 .. c - 1 /\ Spot(r, c, i) # place
  <2> SUFFICES ASSUME NEW i \in 1 .. r.count
               PROVE  Spot(r, c, i) \in 0 .. c - 1 /\ Spot(r, c, i) # place
    OBVIOUS
  <2>1. i \in 1 .. c /\ r.count + 1 \in 1 .. c /\ i # r.count + 1
    BY <1>1
  <2> QED BY <2>1, <1>1, <1>2, SpotsFact
<1>8. x # << >>
  <2>1. Len(<< >>) = 0
    OBVIOUS
  <2> QED BY <2>1
<1> DEFINE n == r.count
<1>9. n \in Nat /\ q.count = n + 1
  BY <1>1, <1>5
<1>10. \A k \in 0 .. c - 1 :
         /\ r.slots[k] # << >> <=> \E i \in 1 .. n : k = Spot(r, c, i)
         /\ r.slots[k] # << >> => Len(r.slots[k]) = 1 /\ Id(r.slots[k]) < l /\ Id(r.slots[k]) \in Nat
  <2>1. \A k \in 0 .. c - 1 : Len(r.slots[k]) = 1 => Id(r.slots[k]) \in Nat
    <3> SUFFICES ASSUME NEW k \in 0 .. c - 1, Len(r.slots[k]) = 1
                 PROVE  Id(r.slots[k]) \in Nat
      OBVIOUS
    <3>1. PICK y \in Instances : y = r.slots[k]
      BY <1>1
    <3>2. Len(y) = 1
      BY <3>1
    <3>3. y \in Seq(Nat) /\ 1 \in 1 .. Len(y)
      BY ONLY <3>2, y \in Instances DEF Instances
    <3>4. y[1] \in Nat
      BY ONLY <3>3
    <3>5. Id(y) = y[1]
      BY ONLY <3>2 DEF Id, Last
    <3> QED BY <3>1, <3>4, <3>5
  <2>2. \A k \in 0 .. c - 1 :
          /\ r.slots[k] # << >> <=> \E i \in 1 .. r.count : k = Spot(r, c, i)
          /\ r.slots[k] # << >> => Len(r.slots[k]) = 1 /\ Id(r.slots[k]) < l
    BY Zenon DEF Ordered
  <2> QED BY ONLY <2>1, <2>2
<1>11. \A i, j \in 1 .. n : i < j => Id(r.slots[Spot(r, c, i)]) < Id(r.slots[Spot(r, c, j)])
  BY DEF Ordered
<1>12. place = Spot(r, c, n + 1) /\ \A i \in 1 .. n : Spot(r, c, i) \in 0 .. c - 1 /\ Spot(r, c, i) # place
  BY <1>2, <1>7
<1> HIDE DEF n
<1>13. \A k \in 0 .. c - 1 :
         /\ q.slots[k] # << >> <=> \E i \in 1 .. n + 1 : k = Spot(r, c, i)
         /\ q.slots[k] # << >> => Len(q.slots[k]) = 1 /\ Id(q.slots[k]) < l + 1
  <2> TAKE k \in 0 .. c - 1
  <2>1. CASE k = place
    <3>1. n + 1 \in 1 .. n + 1
      BY <1>9
    <3>2. q.slots[k] = x
      BY <2>1, <1>5
    <3> QED BY <3>1, <3>2, <2>1, <1>8, <1>12
  <2>2. CASE k # place
    <3>1. (\E i \in 1 .. n + 1 : k = Spot(r, c, i)) <=> \E i \in 1 .. n : k = Spot(r, c, i)
      <4>1. \A i \in 1 .. n + 1 : i \in 1 .. n \/ i = n + 1
        BY <1>9
      <4>2. \A i \in 1 .. n : i \in 1 .. n + 1
        BY <1>9
      <4> QED BY <4>1, <4>2, <2>2, <1>12
    <3>2. q.slots[k] = r.slots[k]
      BY <2>2, <1>5
    <3> QED BY <3>1, <3>2, <1>10
  <2> QED BY <2>1, <2>2
<1>14. \A i, j \in 1 .. n + 1 :
         i < j => Id(q.slots[Spot(r, c, i)]) < Id(q.slots[Spot(r, c, j)])
  <2> SUFFICES ASSUME NEW i \in 1 .. n + 1, NEW j \in 1 .. n + 1, i < j
               PROVE  Id(q.slots[Spot(r, c, i)]) < Id(q.slots[Spot(r, c, j)])
    OBVIOUS
  <2>1. i \in 1 .. n /\ Spot(r, c, i) \in 0 .. c - 1
        /\ q.slots[Spot(r, c, i)] = r.slots[Spot(r, c, i)]
    <3>1. i \in 1 .. n
      BY <1>9
    <3> QED BY <3>1, <1>5, <1>12
  <2>2. CASE j = n + 1
    <3>1. q.slots[Spot(r, c, j)] = x
      BY <2>2, <1>3, <1>5, <1>12
    <3>2. r.slots[Spot(r, c, i)] # << >>
      BY <2>1, <1>10
    <3> QED BY <3>1, <3>2, <2>1, <1>10
  <2>3. CASE j \in 1 .. n
    <3>1. q.slots[Spot(r, c, j)] = r.slots[Spot(r, c, j)]
      BY <2>3, <1>5, <1>12
    <3> QED BY <3>1, <2>1, <2>3, <1>11
  <2> QED BY <2>2, <2>3, <1>9
<1>15. \A k \in 0 .. c - 1 :
         /\ q.slots[k] # << >> <=> \E i \in 1 .. q.count : k = Spot(q, c, i)
         /\ q.slots[k] # << >> => Len(q.slots[k]) = 1 /\ Id(q.slots[k]) < l + 1
  BY <1>6, <1>9, <1>13
<1>16. \A i, j \in 1 .. q.count :
         i < j => Id(q.slots[Spot(q, c, i)]) < Id(q.slots[Spot(q, c, j)])
  BY <1>6, <1>9, <1>14
<1>17. \A k \in 0 .. c - 1 : q.slots[k] \in {x, r.slots[k]}
  BY <1>5
<1>18. q \in Rings(c) /\ (q.front = 0 \/ q.front < c)
  BY <1>1, <1>4, <1>5
<1> QED BY <1>15, <1>16, <1>17, <1>18 DEF Ordered

LEMMA DequeueOrdered ==
  ASSUME NEW c \in Nat, NEW l \in Nat, NEW r, Ordered(r, c, l), r.count # 0,
         NEW q, q = Dequeued(r, c)
  PROVE  /\ Ordered(q, c, l)
         /\ r.front \in 0 .. c - 1 /\ r.slots[r.front] # << >>
         /\ \A k \in 0 .. c - 1 : q.slots[k] \in {<< >>, r.slots[k]}
         /\ \A k \in 0 .. c - 1 : q.slots[k] # << >> => Id(r.slots[r.front]) < Id(q.slots[k])
<1> DEFINE n == r.count
           h == r.front
<1>1. /\ r \in Rings(c) /\ (h = 0 \/ h < c)
      /\ r.slots \in [0 .. c - 1 -> Instances] /\ h \in Nat /\ n \in 1 .. c
  BY DEF Ordered, Rings
<1>2. q = [slots |-> [r.slots EXCEPT ![h] = << >>], front |-> (h + 1) % c, count |-> n - 1]
  BY <1>1 DEF Rings, Dequeued
<1>3. \A i \in 1 .. c : Spot(r, c, i) = IF h + i - 1 < c THEN h + i - 1 ELSE h + i - 1 - c
  BY <1>1, SpotFact
<1>4. \A k \in 0 .. c - 1 :
        /\ r.slots[k] # << >> <=> \E i \in 1 .. n : k = Spot(r, c, i)
        /\ r.slots[k] # << >> => Len(r.slots[k]) = 1 /\ Id(r.slots[k]) < l
  BY DEF Ordered
<1>5. \A i, j \in 1 .. n : i < j => Id(r.slots[Spot(r, c, i)]) < Id(r.slots[Spot(r, c, j)])
  BY DEF Ordered
<1>6. h + 1 \in 0 .. 2 * c - 1 /\ c >= 1
  BY <1>1
<1> HIDE DEF n, h
<1>20. PICK m : m = h + 1
  OBVIOUS
<1>7. (h + 1) % c = IF m < c THEN m ELSE m - c
  <2>1. m % c = IF m < c THEN m ELSE m - c
    BY <1>20, <1>6, WrapFact
  <2>2. (h + 1) % c = m % c
    BY <1>20
  <2> QED BY <2>1, <2>2
<1>8. << >> \in Instances
  BY DEF Instances
<1>9. h \in 0 .. c - 1 /\ (h + 1) % c \in 0 .. c - 1
  BY <1>1, <1>6, <1>7, <1>20
<1>10. q \in Rings(c) /\ q.front < c
  BY <1>1, <1>2, <1>8, <1>9 DEF Rings
<1>11. /\ q.front = (h + 1) % c /\ q.count = n - 1
       /\ \A k \in 0 .. c - 1 : q.slots[k] = IF k = h THEN << >> ELSE r.slots[k]
  BY <1>1, <1>2
<1>19. q.front = IF m < c THEN m ELSE m - c
  BY <1>7, <1>11
<1>12. \A i \in 1 .. n - 1 : i + 1 \in 1 .. n /\ Spot(q, c, i) = Spot(r, c, i + 1)
  <2> SUFFICES ASSUME NEW i \in 1 .. n - 1
               PROVE  i + 1 \in 1 .. n /\ Spot(q, c, i) = Spot(r, c, i + 1)
    OBVIOUS
  <2>1. i \in 1 .. c /\ i + 1 \in 1 .. c /\ i + 1 \in 1 .. n
    BY <1>1
  <2>2. Spot(q, c, i) = IF q.front + i - 1 < c THEN q.front + i - 1 ELSE q.front + i - 1 - c
    BY <2>1, <1>10, SpotFact
  <2>3. Spot(r, c, i + 1) = IF h + (i + 1) - 1 < c THEN h + (i + 1) - 1 ELSE h + (i + 1) - 1 - c
    BY <2>1, <1>3
  <2> QED BY <2>1, <2>2, <2>3, <1>1, <1>9, <1>19, <1>20
<1>13. /\ 1 \in 1 .. n /\ Spot(r, c, 1) = h
       /\ \A i \in 2 .. n : i \in 1 .. n /\ i - 1 \in 1 .. n - 1 /\ Spot(r, c, i) # h
                            /\ Spot(r, c, i) \in 0 .. c - 1
  BY <1>1, <1>3, <1>9
<1>14. r.slots[h] # << >>
  BY <1>4, <1>9, <1>13
<1>15. \A k \in 0 .. c - 1 :
         q.slots[k] # << >> <=> \E i \in 1 .. n - 1 : k = Spot(q, c, i)
  <2> TAKE k \in 0 .. c - 1
  <2>1. ASSUME q.slots[k] # << >> PROVE \E i \in 1 .. n - 1 : k = Spot(q, c, i)
    <3>1. k # h /\ r.slots[k] # << >>
      BY <2>1, <1>11
    <3>2. PICK i \in 1 .. n : k = Spot(r, c, i)
      BY <3>1, <1>4
    <3>3. i \in 2 .. n
      BY <3>1, <3>2, <1>1, <1>13
    <3>4. i - 1 \in 1 .. n - 1 /\ (i - 1) + 1 = i
      BY <3>3, <1>13
    <3> QED BY <3>2, <3>4, <1>12
  <2>2. ASSUME NEW i \in 1 .. n - 1, k = Spot(q, c, i) PROVE q.slots[k] # << >>
    <3>1. i + 1 \in 1 .. n /\ k = Spot(r, c, i + 1)
      BY <2>2, <1>12
    <3>2. i + 1 \in 2 .. n
      BY <1>1
    <3>3. k # h /\ r.slots[k] # << >>
      BY <3>1, <3>2, <1>4, <1>13
    <3> QED BY <3>3, <1>11
  <2> QED BY <2>1, <2>2
<1>16. \A k \in 0 .. c - 1 :
         q.slots[k] # << >> => Len(q.slots[k]) = 1 /\ Id(q.slots[k]) < l
  BY <1>4, <1>11
<1>17. \A i, j \in 1 .. n - 1 :
         i < j => Id(q.slots[Spot(q, c, i)]) < Id(q.slots[Spot(q, c, j)])
  <2> SUFFICES ASSUME NEW i \in 1 .. n - 1, NEW j \in 1 .. n - 1, i < j
               PROVE  Id(q.slots[Spot(q, c, i)]) < Id(q.slots[Spot(q, c, j)])
    OBVIOUS
  <2>1. i + 1 \in 2 .. n /\ j + 1 \in 2 .. n /\ i + 1 < j + 1
    BY <1>1
  <2>2. q.slots[Spot(q, c, i)] = r.slots[Spot(r, c, i + 1)]
    BY <2>1, <1>11, <1>12, <1>13
  <2>3. q.slots[Spot(q, c, j)] = r.slots[Spot(r, c, j + 1)]
    BY <2>1, <1>11, <1>12, <1>13
  <2> QED BY <2>1, <2>2, <2>3, <1>5, <1>13
<1>18. ASSUME NEW k \in 0 .. c - 1, q.slots[k] # << >>
       PROVE  Id(r.slots[h]) < Id(q.slots[k])
  <2>1. k # h /\ q.slots[k] = r.slots[k]
    BY <1>11, <1>18
  <2>2. PICK i \in 1 .. n : k = Spot(r, c, i)
    BY <2>1, <1>4, <1>18
  <2>3. 1 < i
    BY <2>1, <2>2, <1>1, <1>13
  <2> QED BY <2>1, <2>2, <2>3, <1>5, <1>13
<1> QED BY <1>10, <1>9, <1>11, <1>14, <1>15, <1>16, <1>17, <1>18 DEF Ordered, h
-----------------------------------------------------------------------------
(* stop_complex() down a list: what was running and is not any more, and   *)
(* that it reaches what is inside of that.                                 *)
Halted(num) == {a \in Actions : num[a] > 0 /\ num_running'[a] = 0}

LEMMA StopListFact ==
  ASSUME NEW num \in [Actions -> Nat], NEW list, Range(list) \subseteq Actions,
         program \in Programs, StopList(list, num)
  PROVE  /\ num_running' \in [Actions -> Nat]
         /\ \A a \in Actions :
              num_running'[a] = IF a \in Range(list) \/ \E P \in Halted(num) : a \in Inside(P)
                                THEN 0 ELSE num[a]
         /\ timers' = {t \in timers : t.of \notin Halted(num)}
         /\ waiting' = [a \in Waits |-> IF a \in Halted(num) THEN << >> ELSE waiting[a]]
         /\ generation' = [a \in DOMAIN generation |->
                             (generation[a] + IF a \in Halted(num) THEN 1 ELSE 0) % 256]
         /\ loops' = [c \in DOMAIN loops |-> IF c \in Halted(num) THEN "done" ELSE loops[c]]
<1> DEFINE running == {a \in Actions : num[a] > 0}
           reached(stopping) == Range(list) \cup UNION {Inside(a) : a \in stopping}
           closed(S) == running \cap reached(S) \subseteq S
           hit == {a \in running : \A S \in SUBSET running : closed(S) => a \in S}
<1>1. /\ num_running' = [a \in Actions |-> IF a \in reached(hit) THEN 0 ELSE num[a]]
      /\ timers' = {t \in timers : t.of \notin hit}
      /\ waiting' = [a \in Waits |-> IF a \in hit THEN << >> ELSE waiting[a]]
      /\ generation' = [a \in DOMAIN generation |->
                          (generation[a] + IF a \in hit THEN 1 ELSE 0) % 256]
      /\ loops' = [c \in DOMAIN loops |-> IF c \in hit THEN "done" ELSE loops[c]]
  BY DEF StopList
<1>2. hit \subseteq running
  OBVIOUS
<1>3. \A S \in SUBSET running : closed(S) => hit \subseteq S
  OBVIOUS
<1>4. \A S, T : S \subseteq T => reached(S) \subseteq reached(T)
  OBVIOUS
<1>5. running \cap reached(hit) \subseteq hit
  <2> SUFFICES ASSUME NEW a \in running, a \in reached(hit), NEW S \in SUBSET running, closed(S)
               PROVE  a \in S
    OBVIOUS
  <2> HIDE DEF hit, running
  <2>1. reached(hit) \subseteq reached(S)
    BY <1>3, <1>4
  <2> HIDE DEF reached
  <2> QED BY <2>1
<1>6. hit \subseteq reached(hit)
  <2> DEFINE S == running \cap reached(hit)
  <2>1. S \in SUBSET running /\ S \subseteq hit
    BY <1>5
  <2>2. closed(S)
    <3> HIDE DEF hit, running
    <3>1. reached(S) \subseteq reached(hit)
      BY <1>4, <2>1
    <3> HIDE DEF reached
    <3> QED BY <3>1
  <2>3. hit \subseteq S
    <3> HIDE DEF hit, S, closed, running
    <3> QED BY <1>3, <2>1, <2>2
  <2> HIDE DEF hit, running, closed, reached
  <2> QED BY <2>3 DEF S
<1>7. \A a \in Actions : num_running'[a] = IF a \in reached(hit) THEN 0 ELSE num[a]
  BY <1>1
<1>8. hit = Halted(num)
  <2>1. ASSUME NEW a \in hit PROVE a \in Halted(num)
    <3>1. a \in Actions /\ num[a] > 0 /\ a \in reached(hit)
      <4>1. a \in running
        BY <1>2
      <4>2. a \in reached(hit)
        BY <1>6
      <4> HIDE DEF hit
      <4> QED BY <4>1, <4>2
    <3> HIDE DEF hit, reached
    <3> QED BY <3>1, <1>7 DEF Halted
  <2>2. ASSUME NEW a \in Halted(num) PROVE a \in hit
    <3>1. a \in Actions /\ num[a] > 0 /\ num_running'[a] = 0
      BY DEF Halted
    <3>2. num[a] \in Nat
      BY <3>1
    <3>3. a \in reached(hit)
      <4> HIDE DEF hit, reached
      <4> QED BY <3>1, <3>2, <1>7
    <3>4. a \in running
      BY <3>1
    <3> HIDE DEF hit, reached, running
    <3> QED BY <3>3, <3>4, <1>5
  <2> HIDE DEF hit
  <2> QED BY <2>1, <2>2
<1>9. \A a : a \in reached(hit) <=> a \in Range(list) \/ \E P \in Halted(num) : a \in Inside(P)
  <2> HIDE DEF hit
  <2> QED BY <1>8
<1> HIDE DEF hit, reached, running
<1>10. num_running' \in [Actions -> Nat]
  BY <1>1
<1>11. \A a \in Actions :
         num_running'[a] = IF a \in Range(list) \/ \E P \in Halted(num) : a \in Inside(P)
                           THEN 0 ELSE num[a]
  BY <1>7, <1>9
<1> QED BY <1>1, <1>8, <1>10, <1>11

(* What that leaves of the types.                                          *)
LEMMA StopListTypes ==
  ASSUME TypeInv, NEW num \in [Actions -> Nat], NEW list, Range(list) \subseteq Actions,
         StopList(list, num)
  PROVE  /\ num_running' \in [Actions -> Nat]
         /\ timers' \subseteq timers
         /\ waiting' \in [Waits -> Seq(Instances)]
         /\ \A a \in Waits : waiting'[a] \in {<< >>, waiting[a]}
         /\ generation' \in [Untils -> 0 .. 255]
         /\ loops' \in [Waits \cup Queued -> {"construction", "loop", "done"}]
<1>1. /\ program \in Programs /\ waiting \in [Waits -> Seq(Instances)]
      /\ generation \in [Untils -> 0 .. 255]
      /\ loops \in [Waits \cup Queued -> {"construction", "loop", "done"}]
  BY DEF TypeInv
<1>2. /\ num_running' \in [Actions -> Nat]
      /\ timers' = {t \in timers : t.of \notin Halted(num)}
      /\ waiting' = [a \in Waits |-> IF a \in Halted(num) THEN << >> ELSE waiting[a]]
      /\ generation' = [a \in DOMAIN generation |->
                          (generation[a] + IF a \in Halted(num) THEN 1 ELSE 0) % 256]
      /\ loops' = [c \in DOMAIN loops |-> IF c \in Halted(num) THEN "done" ELSE loops[c]]
  BY <1>1, StopListFact
<1>3. generation' \in [Untils -> 0 .. 255]
  <2>1. \A m \in Int : m % 256 \in 0 .. 255
    OBVIOUS
  <2>2. \A a \in Untils : generation[a] + (IF a \in Halted(num) THEN 1 ELSE 0) \in Int
    <3>1. \A a \in Untils : generation[a] \in Int
      <4>1. \A a \in Untils : generation[a] \in 0 .. 255
        BY <1>1
      <4>2. \A m \in 0 .. 255 : m \in Int
        OBVIOUS
      <4> QED BY <4>1, <4>2
    <3>2. \A a : (IF a \in Halted(num) THEN 1 ELSE 0) \in Int
      OBVIOUS
    <3> QED BY <3>1, <3>2
  <2> QED BY <1>1, <1>2, <2>1, <2>2
<1>4. << >> \in Seq(Instances)
  OBVIOUS
<1> QED BY <1>1, <1>2, <1>3, <1>4
-----------------------------------------------------------------------------
(* An instance that an action may carry after a step: one that an action   *)
(* of the script has carried before it, or a new one that is not overtaken.*)
Stems(a, x, limit, r) ==
  /\ Len(x) = program.arity[a]
  /\ \/ \E b \in Actions : /\ program.script[b] = program.script[a]
                           /\ \E y \in Carried(b) : Id(y) = Id(x)
     \/ Id(x) < limit /\ Older(a, x, r)
AllStem(f, limit, r) ==
  \A a \in Actions : \A x \in CarriedBy(f, a) : Stems(a, x, limit, r)

LEMMA ArgsFact ==
  ASSUME NEW x \in Instances
  PROVE  /\ Len(x) \in Nat
         /\ Len(x) > 0 => Id(x) \in Nat /\ Id(x) = x[Len(x)] /\ x # << >>
         /\ Len(x) > 1 => Tail(x) \in Instances /\ Len(Tail(x)) = Len(x) - 1 /\ Id(Tail(x)) = Id(x)
         /\ Len(x) > 0 => Head(x) \in Nat
         /\ \A n \in Nat : /\ << n >> \o x \in Instances /\ Len(<< n >> \o x) = Len(x) + 1
                           /\ Len(x) > 0 => Id(<< n >> \o x) = Id(x)
<1>1. x \in Seq(Nat) /\ Len(x) \in Nat
  BY DEF Instances
<1>2. Len(x) > 0 => Id(x) \in Nat /\ Id(x) = x[Len(x)] /\ x # << >> /\ Head(x) \in Nat
  BY <1>1 DEF Id, Last
<1>3. ASSUME Len(x) > 1
      PROVE  Tail(x) \in Instances /\ Len(Tail(x)) = Len(x) - 1 /\ Id(Tail(x)) = Id(x)
  <2>1. Tail(x) \in Seq(Nat) /\ Len(Tail(x)) = Len(x) - 1
    BY <1>1, <1>3
  <2>2. Tail(x)[Len(x) - 1] = x[Len(x)]
    <3> DEFINE m == Len(x) - 1
    <3>1. m \in 1 .. Len(Tail(x)) /\ m + 1 = Len(x)
      BY <1>1, <1>3, <2>1
    <3>2. \A i \in 1 .. Len(Tail(x)) : Tail(x)[i] = x[i + 1]
      BY <1>1, <1>3
    <3> HIDE DEF m
    <3>3. Tail(x)[m] = x[m + 1]
      BY <3>1, <3>2
    <3> QED BY <3>1, <3>3 DEF m
  <2> QED BY <2>1, <2>2, <1>1, <1>3 DEF Instances, Id, Last
<1>4. ASSUME NEW n \in Nat
      PROVE  /\ << n >> \o x \in Instances /\ Len(<< n >> \o x) = Len(x) + 1
             /\ Len(x) > 0 => Id(<< n >> \o x) = Id(x)
  <2>1. << n >> \o x \in Seq(Nat) /\ Len(<< n >> \o x) = Len(x) + 1
    BY <1>1
  <2>2. Len(x) > 0 => (<< n >> \o x)[Len(x) + 1] = x[Len(x)]
    BY <1>1
  <2> QED BY <2>1, <2>2, <1>1 DEF Instances, Id, Last
<1> QED BY <1>2, <1>3, <1>4, <1>1

(* What the types say of the instances that are carried.                   *)
LEMMA CarriedFact ==
  ASSUME TypeInv, NEW a \in Actions, NEW x \in Carried(a)
  PROVE  x \in Instances
<1>1. /\ timers \subseteq [of : Delays, args : Instances]
      /\ waiting \in [Waits -> Seq(Instances)] /\ stack \in Seq(Frames)
  BY DEF TypeInv, GoodStack
<1>2. CASE x \in Timed(timers, a)
  BY <1>1, <1>2 DEF Timed
<1>3. CASE x \in Listed(waiting, a)
  BY <1>1, <1>3 DEF Listed, Range
<1>4. CASE x \in OnStack(stack, a)
  <2>1. PICK i \in DOMAIN stack : x \in CarriedBy(stack[i], a)
    BY <1>4 DEF OnStack
  <2>2. stack[i] \in Frames
    BY <1>1
  <2>3. PICK f \in Frames : x \in CarriedBy(f, a)
    BY <2>1, <2>2
  <2>4. CASE f.op \in {"play", "next"}
    <3>1. f.args \in Instances
      BY <2>4 DEF Frames
    <3>2. x = f.args
      BY <2>3, <2>4 DEF CarriedBy
    <3> QED BY <3>1, <3>2
  <2>5. CASE f.op = "walk"
    <3>1. f.queue \in Seq(Instances) /\ f.pending \in Seq(Instances)
      BY <2>5 DEF Frames
    <3>2. x \in Range(f.queue) \cup Range(f.pending)
      BY <2>3, <2>5 DEF CarriedBy
    <3> QED BY <3>1, <3>2 DEF Range
  <2> QED BY <2>3, <2>4, <2>5 DEF CarriedBy
<1> QED BY <1>2, <1>3, <1>4 DEF Carried

LEMMA StemFact ==
  ASSUME TypeInv, InstanceInv, NEW l, NEW r
  PROVE  /\ \A a \in Actions : \A x \in Carried(a) : Stems(a, x, l, r)
         /\ \A t \in timers : t.of \in Actions /\ t.args \in Carried(t.of) /\ Stems(t.of, t.args, l, r)
         /\ \A a \in Waits : \A x \in Range(waiting[a]) : x \in Carried(a) /\ Stems(a, x, l, r)
         /\ \A i \in DOMAIN stack : AllStem(stack[i], l, r)
<1>1. \A a \in Actions : \A x \in Carried(a) : Stems(a, x, l, r)
  BY DEF InstanceInv, Stems
<1>2. \A t \in timers : t.of \in Actions /\ t.args \in Carried(t.of)
  BY DEF TypeInv, Delays, OfKind, Carried, Timed
<1>3. \A a \in Waits : a \in Actions /\ \A x \in Range(waiting[a]) : x \in Carried(a)
  BY DEF Waits, OfKind, Carried, Listed
<1>4. \A i \in DOMAIN stack : AllStem(stack[i], l, r)
  <2> SUFFICES ASSUME NEW i \in DOMAIN stack, NEW a \in Actions, NEW x \in CarriedBy(stack[i], a)
               PROVE  Stems(a, x, l, r)
    BY DEF AllStem
  <2>1. x \in Carried(a)
    BY DEF Carried, OnStack
  <2> QED BY <2>1, <1>1
<1> QED BY <1>1, <1>2, <1>3, <1>4

LEMMA LimitFact ==
  ASSUME TypeInv
  PROVE  /\ Limit \in Nat /\ Limit <= next_id /\ next_id \in Nat
         /\ ~ Top("execute") => Limit = next_id
         /\ Top("execute") => Limit = next_id - 1 /\ Id(Args) = Limit /\ Len(Args) = 1
<1>1. next_id \in Nat \ {0}
  BY DEF TypeInv
<1>2. Limit \in Nat /\ Limit <= next_id /\ next_id \in Nat
  BY <1>1 DEF Limit
<1>3. Top("execute") => Args = << next_id - 1 >>
  BY DEF TypeInv
<1>4. ASSUME Top("execute") PROVE Id(Args) = Limit /\ Len(Args) = 1
  BY <1>3, <1>4 DEF Limit, Id, Last
<1> QED BY <1>2, <1>4 DEF Limit

(* How a step keeps the instances in order.                                *)
LEMMA KeepInstances ==
  ASSUME TypeInv, InstanceInv, program' = program, Limit' \in Nat, Limit <= Limit',
         NEW fs, Fits(fs, stack), stack' = fs \o Below(stack),
         \A i \in 1 .. Len(fs) : AllStem(fs[i], Limit', ring'),
         \A t \in timers' : Stems(t.of, t.args, Limit', ring'),
         \A a \in Waits : \A x \in Range(waiting'[a]) : Stems(a, x, Limit', ring'),
         \A s \in Queued : \A k \in 0 .. Capacity(s) - 1 :
           \/ ring'[s].slots[k] \in {<< >>, ring[s].slots[k]}
           \/ Id(ring'[s].slots[k]) \in Nat /\ Id(ring'[s].slots[k]) >= Limit
  PROVE  InstanceInv'
<1>1. GoodStack(stack)
  BY DEF TypeInv
<1>2. PICK l, r : l = Limit' /\ r = ring'
  OBVIOUS
<1>3. ASSUME NEW a \in Actions, NEW x \in Carried(a)'
      PROVE  Stems(a, x, l, r)
  <2>1. Carried(a)' = Timed(timers', a) \cup Listed(waiting', a) \cup OnStack(stack', a)
    BY DEF Carried, Timed, Listed, OnStack, CarriedBy, Waits, OfKind, Actions
  <2>2. CASE x \in Timed(timers', a)
    BY <1>2, <2>2 DEF Timed
  <2>3. CASE x \in Listed(waiting', a)
    BY <1>2, <2>3 DEF Listed
  <2>4. CASE x \in OnStack(stack', a)
    <3>1. (\E i \in 1 .. Len(fs) : x \in CarriedBy(fs[i], a)) \/ x \in OnStack(stack, a)
      BY <1>1, <2>4, OnStackFact
    <3>2. CASE \E i \in 1 .. Len(fs) : x \in CarriedBy(fs[i], a)
      BY <1>2, <3>2 DEF AllStem
    <3>3. CASE x \in OnStack(stack, a)
      <4>1. x \in Carried(a)
        BY <3>3 DEF Carried
      <4> QED BY <4>1, StemFact
    <3> QED BY <3>1, <3>2, <3>3
  <2> QED BY <1>3, <2>1, <2>2, <2>3, <2>4
<1>4. \A s \in Queued : \A k \in 0 .. Capacity(s) - 1 :
        \/ r[s].slots[k] \in {<< >>, ring[s].slots[k]}
        \/ Id(r[s].slots[k]) \in Nat /\ Id(r[s].slots[k]) >= Limit
  BY <1>2
<1>5. l \in Nat /\ Limit \in Nat /\ Limit <= l
  BY <1>2, LimitFact
<1>6. ASSUME NEW a \in Actions, NEW x, Stems(a, x, l, r)
      PROVE  Len(x) = program.arity[a] /\ Id(x) < l /\ Older(a, x, r)
  <2>1. Len(x) = program.arity[a]
    BY <1>6 DEF Stems
  <2>2. CASE Id(x) < l /\ Older(a, x, r)
    BY <2>1, <2>2
  <2>3. CASE \E b \in Actions : /\ program.script[b] = program.script[a]
                                /\ \E y \in Carried(b) : Id(y) = Id(x)
    <3>0. PICK b \in Actions : /\ program.script[b] = program.script[a]
                               /\ \E y \in Carried(b) : Id(y) = Id(x)
      BY <2>3
    <3>1. PICK y \in Carried(b) : program.script[b] = program.script[a] /\ Id(y) = Id(x)
      BY <3>0
    <3>2. Len(y) = program.arity[b] /\ Id(y) < Limit /\ Older(b, y, ring)
      BY DEF InstanceInv
    <3>3. Id(y) \in Nat
      <4>1. y \in Instances /\ program.arity[b] \in Nat \ {0}
        BY CarriedFact, ProgramFact DEF TypeInv
      <4> QED BY <3>2, <4>1, ArgsFact
    <3> DEFINE s == program.script[a]
    <3>4. ASSUME s \in Queued, NEW k \in 0 .. Capacity(s) - 1, r[s].slots[k] # << >>
          PROVE  Id(x) < Id(r[s].slots[k])
      <4>1. CASE r[s].slots[k] = ring[s].slots[k]
        <5>1. Id(y) < Id(ring[s].slots[k])
          BY <3>1, <3>2, <3>4, <4>1 DEF Older
        <5> QED BY <3>1, <4>1, <5>1
      <4>2. CASE Id(r[s].slots[k]) \in Nat /\ Id(r[s].slots[k]) >= Limit
        BY <1>5, <3>1, <3>2, <3>3, <4>2
      <4> QED BY <1>4, <3>4, <4>1, <4>2
    <3>5. Older(a, x, r)
      BY <3>4 DEF Older
    <3>6. Id(x) < l
      BY <1>5, <3>1, <3>2, <3>3
    <3> QED BY <2>1, <3>5, <3>6
  <2> QED BY <1>6, <2>2, <2>3 DEF Stems
<1>7. \A a \in Actions : \A x \in Carried(a)' :
        Len(x) = program.arity[a] /\ Id(x) < l /\ Older(a, x, r)
  BY <1>3, <1>6
<1>8. Actions' = Actions /\ program'.arity = program.arity
      /\ \A a, x : Older(a, x, ring)' <=> Older(a, x, r)
  BY <1>2 DEF Actions, Older, Queued, Scripts, Capacity
<1> QED BY <1>2, <1>7, <1>8 DEF InstanceInv

(* The innermost call starts an instance only if it is a new one.          *)
Starts(fs) == fs # << >> /\ fs[1].op = "execute"
Advance(fs) ==
  /\ program' = program /\ Fits(fs, stack) /\ stack' = fs \o Below(stack)
  /\ next_id' \in Nat /\ next_id' >= next_id
  /\ Starts(fs) => next_id' > next_id /\ fs[1].args = << next_id' - 1 >>

LEMMA NextLimit ==
  ASSUME TypeInv, NEW fs, Advance(fs)
  PROVE  /\ Limit' \in Nat /\ Limit <= Limit'
         /\ ~ Starts(fs) => Limit' = next_id'
         /\ GoodStack(stack)'
         /\ (Top("execute") => Args = << next_id - 1 >>)'
<1>1. /\ GoodStack(stack) /\ Fits(fs, stack) /\ stack' = fs \o Below(stack)
      /\ program' = program /\ next_id' \in Nat /\ next_id \in Nat /\ next_id' >= next_id
      /\ Starts(fs) => next_id' > next_id /\ fs[1].args = << next_id' - 1 >>
  BY DEF Advance, TypeInv
<1>2. /\ GoodStack(stack')
      /\ fs # << >> => stack' # << >> /\ stack'[1] = fs[1]
      /\ fs = << >> /\ stack' # << >> => Lower(stack'[1])
  <2>1. PICK new : new = stack'
    OBVIOUS
  <2>2. Replaces(new, stack, fs)
    BY <1>1, <2>1 DEF Replaces
  <2>3. /\ GoodStack(new)
        /\ fs # << >> => new # << >> /\ new[1] = fs[1]
        /\ fs = << >> /\ new # << >> => Lower(new[1])
    <3>1. GoodStack(new)
      BY <2>2, StackFact
    <3>2. fs # << >> => new # << >> /\ new[1] = fs[1]
      BY <2>2, StackFact
    <3>3. fs = << >> /\ new # << >> => Lower(new[1])
      BY <2>2, StackFact
    <3> QED BY <3>1, <3>2, <3>3
  <2> QED BY <2>1, <2>3
<1>3. GoodStack(stack)'
  <2>1. Frames' = Frames
    BY <1>1 DEF Frames, Untils, Queued, Scripts, OfKind, Actions
  <2>2. \A f : Lower(f) <=> (f.op \notin {"play", "execute"}
                            /\ (f.op = "next" => program.kind[f.of] \in {"execute"} \cup Continuations))
    BY DEF Lower
  <2>3. /\ stack' \in Seq(Frames')
        /\ \A i \in 2 .. Len(stack') : Lower(stack'[i])
        /\ \A i \in 1 .. Len(stack') - 1 : stack'[i].op # "pop_front"
    BY <1>2, <2>1 DEF GoodStack
  <2>4. \A i \in 2 .. Len(stack') :
          /\ stack'[i].op \notin {"play", "execute"}
          /\ stack'[i].op = "next" => program'.kind[stack'[i].of] \in {"execute"} \cup Continuations
    BY <1>1, <2>2, <2>3
  <2> QED BY <2>3, <2>4 DEF GoodStack, Lower
<1>4. Top("execute")' <=> Starts(fs)
  <2>1. Top("execute")' <=> stack' # << >> /\ stack'[1].op = "execute"
    BY DEF Top
  <2>2. CASE fs = << >>
    BY <2>1, <2>2, <1>2 DEF Starts, Lower
  <2>3. CASE fs # << >>
    BY <2>1, <2>3, <1>2 DEF Starts
  <2> QED BY <2>2, <2>3
<1>5. Limit' = IF Starts(fs) THEN next_id' - 1 ELSE next_id'
  BY <1>4 DEF Limit
<1>6. Limit \in Nat /\ Limit <= next_id
  BY LimitFact
<1>7. (Top("execute") => Args = << next_id - 1 >>)'
  <2>1. Starts(fs) => stack'[1].args = << next_id' - 1 >>
    BY <1>1, <1>2 DEF Starts
  <2>2. Args' = stack'[1].args
    BY DEF Args
  <2>3. Top("execute")' => Args' = << next_id' - 1 >>
    BY <1>4, <2>1, <2>2, Zenon
  <2> QED BY <2>3, Zenon
<1>8. Limit' \in Nat /\ Limit <= Limit'
  <2>1. PICK k, l, m, n : k = Limit /\ l = Limit' /\ m = next_id' /\ n = next_id
    OBVIOUS
  <2>2. m \in Nat /\ n \in Nat /\ m >= n /\ k \in Nat /\ k <= n
    BY <1>1, <1>6, <2>1
  <2>3. l \in Nat /\ k <= l
    <3>1. CASE Starts(fs)
      <4>1. m > n /\ l = m - 1
        BY <1>1, <1>5, <2>1, <3>1
      <4> QED BY <2>2, <4>1
    <3>2. CASE ~ Starts(fs)
      <4>1. l = m
        BY <1>5, <2>1, <3>2
      <4> QED BY <2>2, <4>1
    <3> QED BY <3>1, <3>2
  <2> QED BY <2>1, <2>3
<1> QED BY <1>3, <1>5, <1>7, <1>8

LEMMA KeepShape ==
  ASSUME ShapeInv, NEW fs, Advance(fs),
         num_running' \in [Actions -> Nat],
         timers' \subseteq [of : Delays, args : Instances],
         waiting' \in [Waits -> Seq(Instances)],
         generation' \in [Untils -> 0 .. 255],
         loops' \in [Waits \cup Queued -> {"construction", "loop", "done"}],
         condition' \in BOOLEAN, stopped' \in [Scripts -> Nat],
         ring' = [s \in Queued |-> ring'[s]],
         \A s \in Queued : Ordered(ring'[s], Capacity(s), Limit'),
         \A s \in Queued : \A k \in 0 .. Capacity(s) - 1 :
           \/ ring'[s].slots[k] \in {<< >>, ring[s].slots[k]}
           \/ Id(ring'[s].slots[k]) \in Nat /\ Id(ring'[s].slots[k]) >= Limit,
         \A i \in 1 .. Len(fs) : AllStem(fs[i], Limit', ring'),
         \A t \in timers' : Stems(t.of, t.args, Limit', ring'),
         \A a \in Waits : \A x \in Range(waiting'[a]) : Stems(a, x, Limit', ring')
  PROVE  ShapeInv'
<1>1. TypeInv /\ InstanceInv /\ program' = program /\ next_id' \in Nat /\ next_id' >= next_id
      /\ next_id \in Nat \ {0} /\ program \in Programs
      /\ Fits(fs, stack) /\ stack' = fs \o Below(stack)
  BY DEF ShapeInv, Advance, TypeInv
<1>2. /\ Limit' \in Nat /\ Limit <= Limit'
      /\ GoodStack(stack)'
      /\ (Top("execute") => Args = << next_id - 1 >>)'
  BY <1>1, NextLimit
<1>3. InstanceInv'
  BY <1>1, <1>2, KeepInstances
<1>4. /\ Actions' = Actions /\ Scripts' = Scripts /\ Delays' = Delays /\ Waits' = Waits
      /\ Untils' = Untils /\ Queued' = Queued
  BY <1>1 DEF Actions, Scripts, Delays, Waits, Untils, Queued, OfKind
<1>5. TypeInv'
  <2>1. next_id' \in Nat \ {0}
    BY <1>1
  <2> QED BY <1>1, <1>2, <1>4, <2>1 DEF TypeInv, Instances
<1>6. RingInv'
  <2>1. \A s \in Queued : Capacity(s)' = Capacity(s)
    BY <1>1 DEF Capacity
  <2>2. \A s \in Queued : Ordered(ring[s], Capacity(s), Limit)'
    BY <2>1 DEF Ordered, Rings, Spot, Instances, Id
  <2> QED BY <1>4, <2>2 DEF RingInv
<1> QED BY <1>3, <1>5, <1>6 DEF ShapeInv

(* The same for a step that leaves the rings alone.                        *)
LEMMA SameRing ==
  ASSUME ShapeInv, NEW fs, Advance(fs), ring' = ring
  PROVE  /\ ring' = [s \in Queued |-> ring'[s]]
         /\ \A s \in Queued : Ordered(ring'[s], Capacity(s), Limit')
         /\ \A s \in Queued : \A k \in 0 .. Capacity(s) - 1 :
              \/ ring'[s].slots[k] \in {<< >>, ring[s].slots[k]}
              \/ Id(ring'[s].slots[k]) \in Nat /\ Id(ring'[s].slots[k]) >= Limit
<1>1. TypeInv /\ RingInv /\ program \in Programs
  BY DEF ShapeInv, TypeInv
<1>2. Limit' \in Nat /\ Limit <= Limit' /\ Limit \in Nat
  BY <1>1, NextLimit, LimitFact
<1>3. PICK l : l = Limit'
  OBVIOUS
<1>4. \A s \in Queued : Ordered(ring[s], Capacity(s), l)
  <2> TAKE s \in Queued
  <2>1. Capacity(s) \in Nat
    BY <1>1, EmptyOrdered
  <2>2. Ordered(ring[s], Capacity(s), Limit)
    BY <1>1 DEF RingInv
  <2> QED BY <1>2, <1>3, <2>1, <2>2, OrderedLater
<1> QED BY <1>1, <1>3, <1>4 DEF RingInv

LEMMA KeepShapeSameRing ==
  ASSUME ShapeInv, NEW fs, Advance(fs), ring' = ring,
         num_running' \in [Actions -> Nat],
         timers' \subseteq [of : Delays, args : Instances],
         waiting' \in [Waits -> Seq(Instances)],
         generation' \in [Untils -> 0 .. 255],
         loops' \in [Waits \cup Queued -> {"construction", "loop", "done"}],
         condition' \in BOOLEAN, stopped' \in [Scripts -> Nat],
         \A i \in 1 .. Len(fs) : AllStem(fs[i], Limit', ring'),
         \A t \in timers' : Stems(t.of, t.args, Limit', ring'),
         \A a \in Waits : \A x \in Range(waiting'[a]) : Stems(a, x, Limit', ring')
  PROVE  ShapeInv'
<1>1. /\ ring' = [s \in Queued |-> ring'[s]]
      /\ \A s \in Queued : Ordered(ring'[s], Capacity(s), Limit')
      /\ \A s \in Queued : \A k \in 0 .. Capacity(s) - 1 :
           \/ ring'[s].slots[k] \in {<< >>, ring[s].slots[k]}
           \/ Id(ring'[s].slots[k]) \in Nat /\ Id(ring'[s].slots[k]) >= Limit
  BY SameRing
<1> QED BY <1>1, KeepShape
-----------------------------------------------------------------------------
(* The calls that a step makes: at most one that goes on at once, and one  *)
(* that is left for later.                                                 *)
Sound(f, l, r) == f \in Frames /\ f.op # "pop_front" /\ AllStem(f, l, r)
AtOnce(p, l, r) ==
  /\ p \in Seq(Frames) /\ Len(p) <= 1
  /\ \A i \in 1 .. Len(p) : Sound(p[i], l, r) /\ p[i].op # "execute"
Calls(fs, l, r) ==
  Fits(fs, stack) /\ \A i \in 1 .. Len(fs) : AllStem(fs[i], l, r)

LEMMA SoundFact ==
  ASSUME NEW l, NEW r
  PROVE  /\ \A a \in Actions, x \in Instances, op \in {"play", "next"} :
              Stems(a, x, l, r) => Sound(Frame(op, a, x), l, r)
         /\ \A s \in Scripts, x \in Instances : Sound(Frame("execute", s, x), l, r)
         /\ \A s \in Queued, x \in Instances, op \in {"script_loop", "script_loop_ends"} :
              Sound(Frame(op, s, x), l, r)
         /\ \A a \in Untils, x \in Instances :
              \A op \in {"process", "enable_if_waiting", "disable_unless_waiting"} :
                Sound(Frame(op, a, x), l, r)
<1>1. ASSUME NEW a \in Actions, NEW x \in Instances, NEW op \in {"play", "next"},
             Stems(a, x, l, r)
      PROVE  Sound(Frame(op, a, x), l, r)
  <2>1. Frame(op, a, x) \in Frames
    BY DEF Frame, Frames
  <2>2. \A b \in Actions : \A y \in CarriedBy(Frame(op, a, x), b) : b = a /\ y = x
    BY DEF Frame, CarriedBy
  <2> QED BY <2>1, <2>2, <1>1 DEF Sound, AllStem, Frame
<1>2. ASSUME NEW f, f \in Frames, f.op \notin {"play", "next", "walk", "pop_front"}
      PROVE  Sound(f, l, r)
  <2>1. \A b \in Actions : CarriedBy(f, b) = {}
    BY <1>2 DEF CarriedBy
  <2> QED BY <1>2, <2>1 DEF Sound, AllStem
<1>3. ASSUME NEW s \in Scripts, NEW x \in Instances
      PROVE  Sound(Frame("execute", s, x), l, r)
  <2>1. Frame("execute", s, x) \in Frames
    BY DEF Frame, Frames
  <2> QED BY <2>1, <1>2 DEF Frame
<1>4. ASSUME NEW s \in Queued, NEW x \in Instances, NEW op \in {"script_loop", "script_loop_ends"}
      PROVE  Sound(Frame(op, s, x), l, r)
  <2>1. Frame(op, s, x) \in Frames
    BY DEF Frame, Frames
  <2> QED BY <2>1, <1>2 DEF Frame
<1>5. ASSUME NEW a \in Untils, NEW x \in Instances,
             NEW op \in {"process", "enable_if_waiting", "disable_unless_waiting"}
      PROVE  Sound(Frame(op, a, x), l, r)
  <2>1. Frame(op, a, x) \in Frames
    BY DEF Frame, Frames
  <2> QED BY <2>1, <1>2 DEF Frame
<1> QED BY <1>1, <1>3, <1>4, <1>5

LEMMA CallsFact ==
  ASSUME NEW l, NEW r
  PROVE  /\ AtOnce(<< >>, l, r)
         /\ \A f : Sound(f, l, r) /\ f.op # "execute" => AtOnce(<< f >>, l, r)
         /\ \A p : AtOnce(p, l, r) => Calls(p, l, r) /\ ~ Starts(p)
         /\ \A p, g : AtOnce(p, l, r) /\ Sound(g, l, r) /\ Lower(g) =>
              Calls(p \o << g >>, l, r) /\ ~ Starts(p \o << g >>)
         /\ \A f, g : Sound(f, l, r) /\ Sound(g, l, r) /\ Lower(g) =>
              Calls(<< f, g >>, l, r) /\ << f, g >>[1] = f /\ << f, g >> # << >>
         /\ \A list \in Seq(Actions), x \in Instances :
              (list # << >> => Stems(Head(list), x, l, r)) => AtOnce(Play(list, x), l, r)
<1>1. << >> \in Seq(Frames) /\ Len(<< >>) = 0
  OBVIOUS
<1>2. AtOnce(<< >>, l, r)
  BY <1>1 DEF AtOnce
<1>3. ASSUME NEW f, Sound(f, l, r), f.op # "execute"
      PROVE  AtOnce(<< f >>, l, r)
  <2>1. f \in Frames
    BY <1>3 DEF Sound
  <2>2. << f >> \in Seq(Frames) /\ Len(<< f >>) = 1 /\ << f >>[1] = f
    BY <2>1, FrameFact
  <2>3. \A i \in 1 .. Len(<< f >>) : i = 1
    BY <2>2
  <2> QED BY <1>3, <2>2, <2>3 DEF AtOnce
<1>4. ASSUME NEW p, AtOnce(p, l, r)
      PROVE  Calls(p, l, r) /\ ~ Starts(p)
  <2>1. /\ p \in Seq(Frames) /\ Len(p) \in Nat /\ Len(p) <= 1
        /\ \A i \in 1 .. Len(p) : p[i].op \notin {"pop_front", "execute"} /\ AllStem(p[i], l, r)
    BY <1>4 DEF AtOnce, Sound
  <2>2. p # << >> => 1 \in 1 .. Len(p)
    BY <2>1
  <2> QED BY <2>1, <2>2 DEF Calls, Fits, Starts
<1>5. ASSUME NEW p, NEW g, AtOnce(p, l, r), Sound(g, l, r), Lower(g)
      PROVE  Calls(p \o << g >>, l, r) /\ ~ Starts(p \o << g >>)
  <2>1. /\ p \in Seq(Frames) /\ Len(p) \in Nat /\ Len(p) <= 1 /\ g \in Frames
        /\ g.op \notin {"pop_front", "execute"} /\ AllStem(g, l, r)
        /\ \A i \in 1 .. Len(p) : p[i].op \notin {"pop_front", "execute"} /\ AllStem(p[i], l, r)
    BY <1>5 DEF AtOnce, Sound, Lower
  <2>2. PICK q : q = p \o << g >>
    OBVIOUS
  <2>3. /\ q \in Seq(Frames) /\ Len(q) = Len(p) + 1
        /\ \A i \in 1 .. Len(p) : q[i] = p[i]
        /\ q[Len(p) + 1] = g
    BY <2>1, <2>2, FrameFact
  <2>4. \A i \in 1 .. Len(q) : i \in 1 .. Len(p) \/ i = Len(p) + 1
    BY <2>1, <2>3
  <2>5. \A i \in 1 .. Len(q) : q[i].op \notin {"pop_front", "execute"} /\ AllStem(q[i], l, r)
    BY <2>1, <2>3, <2>4
  <2>6. Len(q) = 2 => q[2] = g
    <3>1. Len(q) = 2 => Len(p) + 1 = 2
      BY <2>1, <2>3
    <3> QED BY <2>3, <3>1
  <2>7. Len(q) <= 2 /\ 1 \in 1 .. Len(q)
    BY <2>1, <2>3
  <2>8. Fits(q, stack)
    BY <1>5, <2>3, <2>5, <2>6, <2>7 DEF Fits
  <2> QED BY <2>2, <2>5, <2>7, <2>8 DEF Calls, Starts
<1>6. ASSUME NEW f, NEW g, Sound(f, l, r), Sound(g, l, r), Lower(g)
      PROVE  Calls(<< f, g >>, l, r) /\ << f, g >>[1] = f /\ << f, g >> # << >>
  <2>1. /\ f \in Frames /\ g \in Frames /\ f.op # "pop_front" /\ g.op # "pop_front"
        /\ AllStem(f, l, r) /\ AllStem(g, l, r)
    BY <1>6 DEF Sound
  <2>2. PICK q : q = << f, g >>
    OBVIOUS
  <2>3. q \in Seq(Frames) /\ Len(q) = 2 /\ q[1] = f /\ q[2] = g
    BY <2>1, <2>2, FrameFact
  <2>4. \A i \in 1 .. Len(q) : i = 1 \/ i = 2
    BY <2>3
  <2>5. Fits(q, stack)
    BY <1>6, <2>1, <2>3, <2>4 DEF Fits
  <2>6. q # << >>
    BY <2>3
  <2>7. Calls(q, l, r)
    BY <2>1, <2>3, <2>4, <2>5 DEF Calls
  <2> QED BY <2>2, <2>3, <2>6, <2>7
<1>7. ASSUME NEW list \in Seq(Actions), NEW x \in Instances,
             list # << >> => Stems(Head(list), x, l, r)
      PROVE  AtOnce(Play(list, x), l, r)
  <2>1. CASE list = << >>
    BY <1>2, <2>1 DEF Play
  <2>2. CASE list # << >>
    <3>1. Head(list) \in Actions
      BY <2>2
    <3>2. Sound(Frame("play", Head(list), x), l, r)
      BY <1>7, <2>2, <3>1, SoundFact
    <3>3. Frame("play", Head(list), x).op # "execute"
      BY DEF Frame
    <3> QED BY <1>3, <2>2, <3>2, <3>3 DEF Play
  <2> QED BY <2>1, <2>2
<1> QED BY <1>2, <1>3, <1>4, <1>5, <1>6, <1>7

(* The innermost call.                                                     *)
LEMMA TopFact ==
  ASSUME ShapeInv, stack # << >>
  PROVE  /\ stack[1] \in Frames /\ 1 \in DOMAIN stack /\ Below(stack) = Tail(stack)
         /\ stack[1].op \in {"play", "next"} =>
              /\ This \in Actions /\ Args \in Instances /\ Args \in Carried(This)
              /\ Len(Args) = program.arity[This] /\ Len(Args) \in Nat \ {0}
         /\ stack[1].op = "execute" => This \in Scripts /\ Args \in Instances
         /\ stack[1].op \in {"script_loop", "script_loop_ends"} =>
              This \in Queued /\ Args \in Instances
         /\ stack[1].op = "pop_front" =>
              This \in OfKind({"wait"}) /\ Args \in Instances /\ Tail(stack) = << >>
         /\ stack[1].op \in {"process", "enable_if_waiting", "disable_unless_waiting"} =>
              This \in Untils /\ Args \in Instances
         /\ stack[1].op = "walk" =>
              /\ This \in Untils /\ stack[1].queue \in Seq(Instances)
              /\ stack[1].pending \in Seq(Instances)
<1>1. GoodStack(stack) /\ InstanceInv /\ program \in Programs
  BY DEF ShapeInv, TypeInv
<1>2. stack \in Seq(Frames) /\ Len(stack) \in Nat /\ Len(stack) > 0
      /\ \A i \in 1 .. Len(stack) - 1 : stack[i].op # "pop_front"
  BY <1>1 DEF GoodStack
<1>3. stack[1] \in Frames /\ 1 \in DOMAIN stack /\ Below(stack) = Tail(stack)
  BY <1>2 DEF Below
<1>4. ASSUME stack[1].op \in {"play", "next"}
      PROVE  /\ This \in Actions /\ Args \in Instances /\ Args \in Carried(This)
             /\ Len(Args) = program.arity[This] /\ Len(Args) \in Nat \ {0}
  <2>1. This \in Actions /\ Args \in Instances
    BY <1>3, <1>4 DEF Frames, This, Args
  <2>2. Args \in CarriedBy(stack[1], This)
    BY <1>4 DEF CarriedBy, This, Args
  <2>3. Args \in Carried(This)
    BY <1>3, <2>2 DEF Carried, OnStack
  <2> QED BY <1>1, <2>1, <2>3, ProgramFact DEF InstanceInv
<1>5. ASSUME stack[1].op = "pop_front" PROVE Tail(stack) = << >>
  <2>1. ~ (1 \in 1 .. Len(stack) - 1)
    BY <1>2, <1>5
  <2>2. Len(stack) = 1
    <3>1. PICK n : n = Len(stack)
      OBVIOUS
    <3>2. n \in Nat /\ n > 0 /\ ~ (1 \in 1 .. n - 1)
      BY <2>1, <3>1, <1>2
    <3>3. n = 1
      BY <3>2
    <3> QED BY <3>1, <3>3
  <2>3. PICK st : st = stack
    OBVIOUS
  <2>4. st \in Seq(Frames) /\ Len(st) = 1
    BY <2>2, <2>3, <1>2
  <2>5. Tail(st) = << >>
    <3>1. Tail(st) \in Seq(Frames)
      BY <2>4
    <3>2. Len(Tail(st)) = 0
      BY <2>4
    <3> QED BY <3>1, <3>2, EmptySeq
  <2> QED BY <2>3, <2>5
<1>6. /\ stack[1].op = "execute" => This \in Scripts /\ Args \in Instances
      /\ stack[1].op \in {"script_loop", "script_loop_ends"} =>
           This \in Queued /\ Args \in Instances
      /\ stack[1].op = "pop_front" => This \in OfKind({"wait"}) /\ Args \in Instances
      /\ stack[1].op \in {"process", "enable_if_waiting", "disable_unless_waiting"} =>
           This \in Untils /\ Args \in Instances
      /\ stack[1].op = "walk" =>
           /\ This \in Untils /\ stack[1].queue \in Seq(Instances)
           /\ stack[1].pending \in Seq(Instances)
  BY <1>3 DEF Frames, This, Args
<1> QED BY <1>3, <1>4, <1>5, <1>6

(* A step that does not start an instance.                                 *)
LEMMA CallFact ==
  ASSUME ShapeInv, program' = program, stack # << >>, next_id' = next_id,
         NEW fs, Call(fs), Fits(fs, stack), ~ Starts(fs)
  PROVE  Advance(fs)
<1>1. next_id \in Nat /\ Below(stack) = Tail(stack)
  BY TopFact DEF ShapeInv, TypeInv
<1> QED BY <1>1 DEF Advance, Call

(* What a step leaves as it was.                                           *)
LEMMA KeepFact ==
  ASSUME ShapeInv, NEW l, NEW r
  PROVE  /\ num_running \in [Actions -> Nat]
         /\ timers \subseteq [of : Delays, args : Instances]
         /\ \A t \in timers : Stems(t.of, t.args, l, r)
         /\ waiting \in [Waits -> Seq(Instances)]
         /\ \A a \in Waits : \A x \in Range(waiting[a]) : Stems(a, x, l, r)
         /\ generation \in [Untils -> 0 .. 255]
         /\ loops \in [Waits \cup Queued -> {"construction", "loop", "done"}]
         /\ condition \in BOOLEAN /\ stopped \in [Scripts -> Nat]
         /\ next_id \in Nat \ {0}
         /\ program \in Programs
<1>1. TypeInv /\ InstanceInv
  BY DEF ShapeInv
<1> QED BY <1>1, StemFact DEF TypeInv

LEMMA LoopFact ==
  ASSUME ShapeInv, NEW c, EnableLoop(c) \/ DisableLoop(c)
  PROVE  loops' \in [Waits \cup Queued -> {"construction", "loop", "done"}]
<1> QED BY DEF EnableLoop, DisableLoop, ShapeInv, TypeInv

LEMMA EnteredFact ==
  ASSUME ShapeInv, NEW a \in Actions
  PROVE  /\ Entered(a) \in [Actions -> Nat]
         /\ \A b \in Actions : Entered(a)[b] = num_running[b] + One(b = a)
<1>1. num_running \in [Actions -> Nat]
  BY DEF ShapeInv, TypeInv
<1> QED BY <1>1 DEF Entered, One

(* An instance goes on with an action of the same script.                  *)
LEMMA GoesOn ==
  ASSUME ShapeInv, NEW a \in Actions, NEW b \in Actions, program.script[a] = program.script[b],
         NEW x \in Carried(a), NEW y, Id(y) = Id(x), Len(y) = program.arity[b], NEW l, NEW r
  PROVE  Stems(b, y, l, r)
<1> QED BY DEF Stems

(* A step that changes the counters and the calls only.                    *)
LEMMA KeepCalls ==
  ASSUME ShapeInv, program' = program, stack # << >>, num_running' \in [Actions -> Nat],
         NEW fs, Call(fs), Calls(fs, Limit', ring'), ~ Starts(fs),
         UNCHANGED << timers, waiting, generation, ring, loops, condition, next_id, stopped >>
  PROVE  ShapeInv'
<1>1. Advance(fs)
  BY CallFact DEF Calls
<1>2. /\ timers' \subseteq [of : Delays, args : Instances]
      /\ \A t \in timers' : Stems(t.of, t.args, Limit', ring')
      /\ waiting' \in [Waits -> Seq(Instances)]
      /\ \A a \in Waits : \A x \in Range(waiting'[a]) : Stems(a, x, Limit', ring')
      /\ generation' \in [Untils -> 0 .. 255]
      /\ loops' \in [Waits \cup Queued -> {"construction", "loop", "done"}]
      /\ condition' \in BOOLEAN /\ stopped' \in [Scripts -> Nat]
  BY KeepFact
<1>3. \A i \in 1 .. Len(fs) : AllStem(fs[i], Limit', ring')
  BY DEF Calls
<1> QED BY <1>1, <1>2, <1>3, KeepShapeSameRing

(* What is played, or left for later, with the arguments at hand.          *)
LEMMA SameArgs ==
  ASSUME ShapeInv, stack # << >>, stack[1].op \in {"play", "next"}, NEW l, NEW r
  PROVE  /\ Stems(This, Args, l, r)
         /\ Sound(Frame("next", This, Args), l, r)
         /\ Frame("next", This, Args).op = "next" /\ Frame("next", This, Args).of = This
         /\ \A b \in Actions : /\ program.script[b] = program.script[This]
                               /\ program.arity[b] = program.arity[This]
                               => /\ Stems(b, Args, l, r)
                                  /\ Sound(Frame("play", b, Args), l, r)
                                  /\ Sound(Frame("next", b, Args), l, r)
<1>1. /\ This \in Actions /\ Args \in Instances /\ Args \in Carried(This)
      /\ Len(Args) = program.arity[This]
  BY TopFact
<1>2. \A b \in Actions : /\ program.script[b] = program.script[This]
                         /\ program.arity[b] = program.arity[This]
                         => Stems(b, Args, l, r)
  BY <1>1, GoesOn
<1>3. Frame("next", This, Args).op = "next" /\ Frame("next", This, Args).of = This
  BY DEF Frame
<1> QED BY <1>1, <1>2, <1>3, SoundFact

LEMMA PlayNextShape ==
  ASSUME ShapeInv, PlayNext
  PROVE  ShapeInv'
<1>1. /\ stack # << >> /\ stack[1].op = "next" /\ program' = program
      /\ UNCHANGED << timers, waiting, generation, ring, loops, condition, next_id, stopped >>
  BY DEF PlayNext, Top
<1>2. This \in Actions /\ program \in Programs /\ num_running \in [Actions -> Nat]
  BY <1>1, TopFact, KeepFact
<1>3. CASE num_running[This] > 0
  <2> DEFINE fs == IF Following(This) = None THEN << >>
                   ELSE << Frame("play", Following(This), Args) >>
  <2>1. num_running' = [num_running EXCEPT ![This] = @ - 1] /\ Call(fs)
    BY <1>3 DEF PlayNext
  <2>2. num_running' \in [Actions -> Nat]
    BY <1>2, <1>3, <2>1
  <2>3. AtOnce(fs, Limit', ring')
    <3>1. CASE Following(This) = None
      BY <3>1, CallsFact
    <3>2. CASE Following(This) # None
      <4> DEFINE f == Following(This)
      <4>1. f \in Actions /\ program.script[f] = program.script[This]
            /\ program.arity[f] = program.arity[This]
        BY <1>2, <3>2, FollowingFact
      <4>2. Sound(Frame("play", f, Args), Limit', ring')
        BY <1>1, <4>1, SameArgs
      <4>3. Frame("play", f, Args).op # "execute"
        BY DEF Frame
      <4> QED BY <3>2, <4>2, <4>3, CallsFact
    <3> QED BY <3>1, <3>2
  <2> HIDE DEF fs
  <2> QED BY <1>1, <2>1, <2>2, <2>3, CallsFact, KeepCalls
<1>4. CASE ~ (num_running[This] > 0)
  <2>1. num_running' = num_running /\ Call(<< >>)
    BY <1>4 DEF PlayNext, Return
  <2> QED BY <1>1, <1>2, <2>1, CallsFact, KeepCalls
<1> QED BY <1>3, <1>4

LEMMA PlaysFact ==
  ASSUME ShapeInv, NEW kind, Plays(kind)
  PROVE  /\ stack # << >> /\ stack[1].op = "play" /\ program.kind[This] = kind
         /\ This \in Actions /\ This \in OfKind({kind}) /\ Args \in Instances
         /\ Args \in Carried(This) /\ Len(Args) = program.arity[This]
         /\ Id(Args) \in Nat /\ Below(stack) = Tail(stack)
         /\ program \in Programs
<1>1. stack # << >> /\ stack[1].op = "play" /\ program.kind[This] = kind
  BY DEF Plays, Top, This
<1>2. /\ This \in Actions /\ Args \in Instances /\ Args \in Carried(This)
      /\ Len(Args) = program.arity[This] /\ Len(Args) \in Nat \ {0} /\ Below(stack) = Tail(stack)
  BY <1>1, TopFact
<1>3. This \in OfKind({kind})
  BY <1>1, <1>2 DEF OfKind
<1>4. Id(Args) \in Nat
  BY <1>2, ArgsFact
<1> QED BY <1>1, <1>2, <1>3, <1>4, KeepFact

LEMMA PlayExecuteShape ==
  ASSUME ShapeInv, PlayExecute
  PROVE  ShapeInv'
<1>1. /\ Plays("execute") /\ num_running' = Entered(This) /\ next_id' = next_id + 1
      /\ UNCHANGED << program, timers, waiting, generation, ring, loops, condition, stopped >>
  BY DEF PlayExecute
<1>2. /\ stack # << >> /\ stack[1].op = "play" /\ This \in Actions
      /\ This \in OfKind({"execute"}) /\ program \in Programs /\ Below(stack) = Tail(stack)
      /\ program.kind[This] = "execute"
  BY <1>1, PlaysFact
<1> DEFINE f == Frame("execute", program.target[This], << next_id >>)
           g == Frame("next", This, Args)
           fs == << f, g >>
<1>3. next_id \in Nat /\ << next_id >> \in Instances
  BY KeepFact DEF Instances
<1>4. program.target[This] \in Scripts
  BY <1>2, ProgramFact DEF OfKind
<1>5. Sound(f, Limit', ring') /\ f.op = "execute" /\ f.args = << next_id >>
  BY <1>3, <1>4, SoundFact DEF Frame
<1>6. Sound(g, Limit', ring') /\ g.op = "next" /\ g.of = This
  BY <1>2, SameArgs
<1>7. Lower(g)
  BY <1>2, <1>6 DEF Lower
<1>8. Call(fs)
  BY DEF PlayExecute
<1> HIDE DEF f, g
<1>9. Calls(fs, Limit', ring') /\ fs[1] = f /\ fs # << >>
  BY <1>5, <1>6, <1>7, CallsFact
<1> HIDE DEF fs
<1>10. Advance(fs)
  <2>1. next_id' - 1 = next_id /\ next_id' > next_id /\ next_id' \in Nat
    BY <1>1, <1>3
  <2> QED BY <2>1, <1>1, <1>2, <1>5, <1>8, <1>9 DEF Advance, Calls, Call, Starts
<1>11. num_running' \in [Actions -> Nat]
  BY <1>1, <1>2, EnteredFact
<1>12. /\ timers' \subseteq [of : Delays, args : Instances]
       /\ \A t \in timers' : Stems(t.of, t.args, Limit', ring')
       /\ waiting' \in [Waits -> Seq(Instances)]
       /\ \A a \in Waits : \A x \in Range(waiting'[a]) : Stems(a, x, Limit', ring')
       /\ generation' \in [Untils -> 0 .. 255]
       /\ loops' \in [Waits \cup Queued -> {"construction", "loop", "done"}]
       /\ condition' \in BOOLEAN /\ stopped' \in [Scripts -> Nat]
  BY <1>1, KeepFact
<1>13. \A i \in 1 .. Len(fs) : AllStem(fs[i], Limit', ring')
  BY <1>9 DEF Calls
<1> QED BY <1>1, <1>10, <1>11, <1>12, <1>13, KeepShapeSameRing

(* stop() of a list, and of a script.                                      *)
LEMMA StopListStems ==
  ASSUME ShapeInv, NEW num \in [Actions -> Nat], NEW list, Range(list) \subseteq Actions,
         StopList(list, num), NEW l, NEW r
  PROVE  /\ num_running' \in [Actions -> Nat]
         /\ timers' \subseteq [of : Delays, args : Instances]
         /\ \A t \in timers' : Stems(t.of, t.args, l, r)
         /\ waiting' \in [Waits -> Seq(Instances)]
         /\ \A a \in Waits : \A x \in Range(waiting'[a]) : Stems(a, x, l, r)
         /\ generation' \in [Untils -> 0 .. 255]
         /\ loops' \in [Waits \cup Queued -> {"construction", "loop", "done"}]
<1>1. /\ num_running' \in [Actions -> Nat]
      /\ timers' \subseteq timers
      /\ waiting' \in [Waits -> Seq(Instances)]
      /\ \A a \in Waits : waiting'[a] \in {<< >>, waiting[a]}
      /\ generation' \in [Untils -> 0 .. 255]
      /\ loops' \in [Waits \cup Queued -> {"construction", "loop", "done"}]
  BY StopListTypes DEF ShapeInv
<1>2. Range(<< >>) = {}
  BY DEF Range
<1>3. /\ timers \subseteq [of : Delays, args : Instances]
      /\ \A t \in timers : Stems(t.of, t.args, l, r)
      /\ \A a \in Waits : \A x \in Range(waiting[a]) : Stems(a, x, l, r)
  BY KeepFact
<1>4. \A a \in Waits : \A x \in Range(waiting'[a]) : Stems(a, x, l, r)
  BY <1>1, <1>2, <1>3
<1>5. timers' \subseteq [of : Delays, args : Instances] /\ \A t \in timers' : Stems(t.of, t.args, l, r)
  BY <1>1, <1>3
<1> QED BY <1>1, <1>4, <1>5

LEMMA StopScriptShape ==
  ASSUME ShapeInv, NEW s \in Scripts, NEW num \in [Actions -> Nat], StopScript(s, num),
         NEW fs, Advance(fs), Calls(fs, Limit', ring'), condition' = condition
  PROVE  ShapeInv'
<1>1. program \in Programs /\ condition \in BOOLEAN /\ stopped \in [Scripts -> Nat]
      /\ next_id \in Nat
  BY KeepFact
<1>2. Range(program.chain[s]) \subseteq Actions
  BY <1>1, ListFact
<1>3. /\ StopList(program.chain[s], num)
      /\ ring' = [q \in Queued |-> IF q = s THEN EmptyRing(s) ELSE ring[q]]
      /\ stopped' = [stopped EXCEPT ![s] = next_id]
  BY DEF StopScript
<1>4. /\ num_running' \in [Actions -> Nat]
      /\ timers' \subseteq [of : Delays, args : Instances]
      /\ \A t \in timers' : Stems(t.of, t.args, Limit', ring')
      /\ waiting' \in [Waits -> Seq(Instances)]
      /\ \A a \in Waits : \A x \in Range(waiting'[a]) : Stems(a, x, Limit', ring')
      /\ generation' \in [Untils -> 0 .. 255]
      /\ loops' \in [Waits \cup Queued -> {"construction", "loop", "done"}]
  BY <1>2, <1>3, StopListStems
<1>5. condition' \in BOOLEAN /\ stopped' \in [Scripts -> Nat]
  BY <1>1, <1>3
<1>6. ring' = [q \in Queued |-> ring'[q]]
  BY <1>3
<1>7. Limit' \in Nat /\ Limit <= Limit' /\ Limit \in Nat
  BY NextLimit, LimitFact DEF ShapeInv
<1>8. PICK l : l = Limit'
  OBVIOUS
<1>9. \A q \in Queued : Ordered(ring'[q], Capacity(q), l)
  <2> TAKE q \in Queued
  <2>1. Capacity(q) \in Nat
    BY <1>1, EmptyOrdered
  <2>2. CASE q = s
    BY <2>2, <1>1, <1>3, EmptyOrdered
  <2>3. CASE q # s
    <3>1. ring'[q] = ring[q] /\ Ordered(ring[q], Capacity(q), Limit)
      BY <2>3, <1>3 DEF ShapeInv, RingInv
    <3> QED BY <3>1, <2>1, <1>7, <1>8, OrderedLater
  <2> QED BY <2>2, <2>3
<1>10. \A q \in Queued : \A k \in 0 .. Capacity(q) - 1 : ring'[q].slots[k] \in {<< >>, ring[q].slots[k]}
  <2> SUFFICES ASSUME NEW q \in Queued, NEW k \in 0 .. Capacity(q) - 1
               PROVE  ring'[q].slots[k] \in {<< >>, ring[q].slots[k]}
    OBVIOUS
  <2>1. EmptyRing(q).slots[k] = << >>
    BY DEF EmptyRing
  <2> QED BY <2>1, <1>3
<1>11. \A i \in 1 .. Len(fs) : AllStem(fs[i], Limit', ring')
  BY DEF Calls
<1> QED BY <1>4, <1>5, <1>6, <1>8, <1>9, <1>10, <1>11, KeepShape

LEMMA PlayStopShape ==
  ASSUME ShapeInv, PlayStop
  PROVE  ShapeInv'
<1>1. /\ Plays("stop") /\ StopScript(program.target[This], Entered(This))
      /\ Call(<< Frame("next", This, Args) >>)
      /\ UNCHANGED << program, condition, next_id >>
  BY DEF PlayStop
<1>2. /\ stack # << >> /\ stack[1].op = "play" /\ This \in OfKind({"stop"}) /\ program \in Programs
      /\ This \in Actions
  BY <1>1, PlaysFact
<1>3. program.target[This] \in Scripts
  BY <1>2, ProgramFact DEF OfKind
<1>4. Entered(This) \in [Actions -> Nat]
  BY <1>2, EnteredFact
<1>5. Sound(Frame("next", This, Args), Limit', ring') /\ Frame("next", This, Args).op = "next"
  BY <1>2, SameArgs
<1> DEFINE fs == << Frame("next", This, Args) >>
<1>6. Calls(fs, Limit', ring') /\ ~ Starts(fs)
  BY <1>5, CallsFact
<1>7. Call(fs)
  BY <1>1
<1> HIDE DEF fs
<1>8. Advance(fs)
  BY <1>1, <1>2, <1>6, <1>7, CallFact DEF Calls
<1> QED BY <1>1, <1>3, <1>4, <1>6, <1>8, StopScriptShape

LEMMA StopShape ==
  ASSUME ShapeInv, NEW s \in Scripts, Stop(s)
  PROVE  ShapeInv'
<1>1. /\ stack = << >> /\ StopScript(s, num_running)
      /\ UNCHANGED << program, stack, condition, next_id >>
  BY DEF Stop
<1>2. num_running \in [Actions -> Nat] /\ next_id \in Nat
  BY KeepFact
<1>3. Calls(<< >>, Limit', ring') /\ ~ Starts(<< >>)
  BY CallsFact
<1>4. stack' = << >> \o Below(stack)
  BY <1>1 DEF Below
<1>5. Advance(<< >>)
  BY <1>1, <1>2, <1>3, <1>4 DEF Advance, Calls
<1> QED BY <1>1, <1>2, <1>3, <1>5, StopScriptShape

(* The action goes on at once, or nothing is called.                       *)
LEMMA NextCalls ==
  ASSUME ShapeInv, stack # << >>, stack[1].op \in {"play", "next"}, NEW l, NEW r
  PROVE  /\ AtOnce(<< Frame("next", This, Args) >>, l, r)
         /\ Calls(<< Frame("next", This, Args) >>, l, r)
         /\ ~ Starts(<< Frame("next", This, Args) >>)
<1>1. Sound(Frame("next", This, Args), l, r) /\ Frame("next", This, Args).op = "next"
  BY SameArgs
<1>2. AtOnce(<< Frame("next", This, Args) >>, l, r)
  BY <1>1, CallsFact
<1> QED BY <1>2, CallsFact

LEMMA NoCalls ==
  ASSUME NEW l, NEW r
  PROVE  Calls(<< >>, l, r) /\ ~ Starts(<< >>)
<1> QED BY CallsFact

LEMMA PlayDelayShape ==
  ASSUME ShapeInv, PlayDelay
  PROVE  ShapeInv'
<1>1. /\ Plays("delay") /\ num_running' = Entered(This) /\ Call(<< >>)
      /\ UNCHANGED << program, waiting, generation, ring, loops, condition, next_id, stopped >>
      /\ timers' \subseteq timers \cup {[of |-> This, args |-> Args]}
  BY DEF PlayDelay, Return
<1>2. /\ stack # << >> /\ stack[1].op = "play" /\ This \in Delays /\ This \in Actions
      /\ Args \in Instances
  BY <1>1, PlaysFact DEF Delays
<1>3. Stems(This, Args, Limit', ring')
  BY <1>2, SameArgs
<1>4. timers' \subseteq [of : Delays, args : Instances] /\ \A t \in timers' : Stems(t.of, t.args, Limit', ring')
  <2>1. PICK t : t = [of |-> This, args |-> Args]
    OBVIOUS
  <2>2. t \in [of : Delays, args : Instances] /\ Stems(t.of, t.args, Limit', ring')
    BY <1>2, <1>3, <2>1
  <2>3. timers \subseteq [of : Delays, args : Instances]
        /\ \A u \in timers : Stems(u.of, u.args, Limit', ring')
    BY KeepFact
  <2> QED BY <1>1, <2>1, <2>2, <2>3
<1>5. Calls(<< >>, Limit', ring') /\ ~ Starts(<< >>)
  BY NoCalls
<1>6. Advance(<< >>)
  BY <1>1, <1>2, <1>5, CallFact DEF Calls
<1>7. /\ num_running' \in [Actions -> Nat]
      /\ waiting' \in [Waits -> Seq(Instances)]
      /\ \A a \in Waits : \A x \in Range(waiting'[a]) : Stems(a, x, Limit', ring')
      /\ generation' \in [Untils -> 0 .. 255]
      /\ loops' \in [Waits \cup Queued -> {"construction", "loop", "done"}]
      /\ condition' \in BOOLEAN /\ stopped' \in [Scripts -> Nat]
  BY <1>1, <1>2, KeepFact, EnteredFact
<1>8. \A i \in 1 .. Len(<< >>) : AllStem(<< >>[i], Limit', ring')
  BY <1>5 DEF Calls
<1> QED BY <1>1, <1>4, <1>6, <1>7, <1>8, KeepShapeSameRing

(* What is added to a list that waits.                                     *)
LEMMA AppendedStem ==
  ASSUME ShapeInv, stack # << >>, stack[1].op = "play", This \in Waits, NEW l, NEW r,
         NEW w, w = [waiting EXCEPT ![This] = Append(@, Args)]
  PROVE  /\ w \in [Waits -> Seq(Instances)]
         /\ \A a \in Waits : \A x \in Range(w[a]) : Stems(a, x, l, r)
<1>1. /\ waiting \in [Waits -> Seq(Instances)]
      /\ \A a \in Waits : \A x \in Range(waiting[a]) : Stems(a, x, l, r)
  BY KeepFact
<1>2. Args \in Instances
  BY TopFact
<1>3. Stems(This, Args, l, r)
  BY SameArgs
<1>4. w \in [Waits -> Seq(Instances)]
  BY <1>1, <1>2
<1>5. \A x \in Range(w[This]) : x = Args \/ x \in Range(waiting[This])
  <2>1. PICK q, y : q = waiting[This] /\ y = Args
    OBVIOUS
  <2>2. q \in Seq(Instances) /\ y \in Instances /\ w[This] = Append(q, y)
    BY <1>1, <1>2, <2>1
  <2>3. \A x \in Range(Append(q, y)) : x = y \/ x \in Range(q)
    BY <2>2 DEF Range
  <2> QED BY <2>1, <2>2, <2>3
<1>6. \A a \in Waits : a # This => w[a] = waiting[a]
  BY <1>1
<1> QED BY <1>1, <1>3, <1>4, <1>5, <1>6

LEMMA PlayWaitShape ==
  ASSUME ShapeInv, PlayWait
  PROVE  ShapeInv'
<1>1. /\ Plays("wait") /\ num_running' = Entered(This)
      /\ UNCHANGED << program, timers, generation, ring, condition, next_id, stopped >>
  BY DEF PlayWait
<1>2. /\ stack # << >> /\ stack[1].op = "play" /\ This \in Waits /\ This \in Actions
      /\ Args \in Instances
  BY <1>1, PlaysFact DEF Waits, OfKind
<1>3. num_running' \in [Actions -> Nat]
  BY <1>1, <1>2, EnteredFact
<1>4. CASE ActionIsRunning(program.target[This])
  <2>1. /\ waiting' = [waiting EXCEPT ![This] = Append(@, Args)]
        /\ EnableLoop(This) /\ Call(<< >>)
    BY <1>4 DEF PlayWait, Return
  <2>2. Calls(<< >>, Limit', ring') /\ ~ Starts(<< >>)
    BY NoCalls
  <2>3. Advance(<< >>)
    BY <1>1, <1>2, <2>1, <2>2, CallFact DEF Calls
  <2>4. /\ waiting' \in [Waits -> Seq(Instances)]
        /\ \A a \in Waits : \A x \in Range(waiting'[a]) : Stems(a, x, Limit', ring')
    BY <1>2, <2>1, AppendedStem
  <2>5. loops' \in [Waits \cup Queued -> {"construction", "loop", "done"}]
    BY <2>1, LoopFact
  <2>6. /\ timers' \subseteq [of : Delays, args : Instances]
        /\ \A t \in timers' : Stems(t.of, t.args, Limit', ring')
        /\ generation' \in [Untils -> 0 .. 255]
        /\ condition' \in BOOLEAN /\ stopped' \in [Scripts -> Nat]
    BY <1>1, KeepFact
  <2>7. \A i \in 1 .. Len(<< >>) : AllStem(<< >>[i], Limit', ring')
    BY <2>2 DEF Calls
  <2> QED BY <1>1, <1>3, <2>3, <2>4, <2>5, <2>6, <2>7, KeepShapeSameRing
<1>5. CASE ~ ActionIsRunning(program.target[This])
  <2>1. Call(<< Frame("next", This, Args) >>) /\ UNCHANGED << waiting, loops >>
    BY <1>5 DEF PlayWait
  <2> QED BY <1>1, <1>2, <1>3, <2>1, NextCalls, KeepCalls
<1> QED BY <1>4, <1>5

LEMMA PlayWaitUntilShape ==
  ASSUME ShapeInv, PlayWaitUntil
  PROVE  ShapeInv'
<1>1. /\ Plays("wait_until") /\ num_running' = Entered(This)
      /\ UNCHANGED << program, timers, generation, ring, loops, condition, next_id, stopped >>
  BY DEF PlayWaitUntil
<1>2. /\ stack # << >> /\ stack[1].op = "play" /\ This \in Waits /\ This \in Untils /\ This \in Actions
      /\ Args \in Instances
  BY <1>1, PlaysFact DEF Waits, Untils, OfKind
<1>3. num_running' \in [Actions -> Nat]
  BY <1>1, <1>2, EnteredFact
<1>4. CASE ~ condition
  <2> DEFINE f == Frame("process", This, Args)
             g == Frame("enable_if_waiting", This, Args)
             fs == << f, g >>
  <2>1. waiting' = [waiting EXCEPT ![This] = Append(@, Args)] /\ Call(fs)
    BY <1>4 DEF PlayWaitUntil
  <2>2. Sound(f, Limit', ring') /\ Sound(g, Limit', ring') /\ f.op = "process" /\ g.op = "enable_if_waiting"
    BY <1>2, SoundFact DEF Frame
  <2>3. Lower(g)
    BY <2>2 DEF Lower
  <2> HIDE DEF f, g
  <2>4. Calls(fs, Limit', ring') /\ fs[1] = f
    BY <2>2, <2>3, CallsFact
  <2>5. ~ Starts(fs)
    BY <2>2, <2>4 DEF Starts
  <2> HIDE DEF fs
  <2>6. Advance(fs)
    BY <1>1, <1>2, <2>1, <2>4, <2>5, CallFact DEF Calls
  <2>7. /\ waiting' \in [Waits -> Seq(Instances)]
        /\ \A a \in Waits : \A x \in Range(waiting'[a]) : Stems(a, x, Limit', ring')
    BY <1>2, <2>1, AppendedStem
  <2>8. /\ timers' \subseteq [of : Delays, args : Instances]
        /\ \A t \in timers' : Stems(t.of, t.args, Limit', ring')
        /\ generation' \in [Untils -> 0 .. 255]
        /\ loops' \in [Waits \cup Queued -> {"construction", "loop", "done"}]
        /\ condition' \in BOOLEAN /\ stopped' \in [Scripts -> Nat]
    BY <1>1, KeepFact
  <2>9. \A i \in 1 .. Len(fs) : AllStem(fs[i], Limit', ring')
    BY <2>4 DEF Calls
  <2> QED BY <1>1, <1>3, <2>6, <2>7, <2>8, <2>9, KeepShapeSameRing
<1>5. CASE condition
  <2>1. Call(<< Frame("next", This, Args) >>) /\ UNCHANGED waiting
    BY <1>5 DEF PlayWaitUntil
  <2> QED BY <1>1, <1>2, <1>3, <2>1, NextCalls, KeepCalls
<1> QED BY <1>4, <1>5

(* A list that an action plays.                                            *)
LEMMA PlayInside ==
  ASSUME ShapeInv, NEW P \in Actions, NEW list \in Branches(program, P), NEW x \in Instances,
         NEW a \in Actions, NEW y \in Carried(a), Id(x) = Id(y), program.script[a] = program.script[P],
         Len(x) = program.arity[P] + IF program.kind[P] = "repeat" THEN 1 ELSE 0, NEW l, NEW r
  PROVE  /\ AtOnce(Play(list, x), l, r)
         /\ list # << >> => Head(list) \in Inside(P)
<1>1. program \in Programs
  BY KeepFact
<1>2. list \in Seq(Actions)
  BY <1>1, ListFact
<1>3. ASSUME list # << >> PROVE Head(list) \in Inside(P) /\ Stems(Head(list), x, l, r)
  <2>1. Head(list) \in Inside(P)
    BY <1>1, <1>3, FirstFact
  <2>2. /\ Head(list) \in Actions /\ program.script[Head(list)] = program.script[P]
        /\ program.arity[Head(list)] = program.arity[P]
                                       + IF program.kind[P] = "repeat" THEN 1 ELSE 0
    BY <1>1, <2>1, NestFact
  <2> QED BY <2>1, <2>2, GoesOn
<1> QED BY <1>2, <1>3, CallsFact

(* An action with lists inside plays one of them, or goes on.              *)
Resumes(p, P) ==
  /\ AtOnce(p, Limit', ring')
  /\ p # << >> => /\ Id(p[1].args) = Id(Args)
                  /\ \/ p[1].op = "play" /\ p[1].of \in Inside(P)
                     \/ p[1].op = "next" /\ p[1].of = P

LEMMA ResumesNext ==
  ASSUME ShapeInv, stack # << >>, stack[1].op \in {"play", "next"}
  PROVE  Resumes(<< Frame("next", This, Args) >>, This)
<1>1. AtOnce(<< Frame("next", This, Args) >>, Limit', ring')
  BY NextCalls
<1>2. << Frame("next", This, Args) >>[1] = Frame("next", This, Args)
  OBVIOUS
<1> QED BY <1>1, <1>2 DEF Resumes, Frame

LEMMA ResumesPlay ==
  ASSUME ShapeInv, NEW P \in Actions, NEW list \in Branches(program, P), NEW x \in Instances,
         NEW a \in Actions, Args \in Carried(a), Id(x) = Id(Args), program.script[a] = program.script[P],
         Len(x) = program.arity[P] + IF program.kind[P] = "repeat" THEN 1 ELSE 0
  PROVE  Resumes(Play(list, x), P)
<1>1. AtOnce(Play(list, x), Limit', ring') /\ (list # << >> => Head(list) \in Inside(P))
  BY PlayInside
<1>2. CASE list = << >>
  BY <1>1, <1>2 DEF Resumes, Play
<1>3. CASE list # << >>
  <2>1. Play(list, x) = << Frame("play", Head(list), x) >>
    BY <1>3 DEF Play
  <2>2. << Frame("play", Head(list), x) >>[1] = Frame("play", Head(list), x)
    OBVIOUS
  <2>3. Play(list, x)[1].op = "play" /\ Play(list, x)[1].of = Head(list) /\ Play(list, x)[1].args = x
    BY <2>1, <2>2 DEF Frame
  <2> QED BY <1>1, <1>3, <2>3 DEF Resumes
<1> QED BY <1>2, <1>3

LEMMA PlayIfCalls ==
  ASSUME ShapeInv, PlayIf
  PROVE  \E p : Resumes(p, This) /\ Call(p)
<1>1. Plays("if")
  BY DEF PlayIf
<1>2. /\ stack # << >> /\ stack[1].op = "play" /\ This \in OfKind({"if"}) /\ This \in Actions
      /\ Args \in Instances /\ Args \in Carried(This) /\ Len(Args) = program.arity[This]
      /\ program.kind[This] = "if" /\ program \in Programs
  BY <1>1, PlaysFact
<1> DEFINE list == IF condition THEN program.then[This] ELSE program.els[This]
<1>3. list \in Branches(program, This)
  <2>1. This \in OfKind({"if", "while", "repeat"})
    BY <1>2 DEF OfKind
  <2> QED BY <1>2, <2>1, FirstFact
<1>4. Call(IF list = << >> THEN << Frame("next", This, Args) >> ELSE Play(list, Args))
  BY DEF PlayIf
<1>5. Resumes(<< Frame("next", This, Args) >>, This)
  BY <1>2, ResumesNext
<1> HIDE DEF list
<1>6. Len(Args) = program.arity[This] + IF program.kind[This] = "repeat" THEN 1 ELSE 0
  <2>1. program.arity[This] \in Nat
    BY <1>2, ProgramFact
  <2> QED BY <1>2, <2>1
<1>7. Resumes(Play(list, Args), This)
  BY <1>2, <1>3, <1>6, ResumesPlay
<1> QED BY <1>4, <1>5, <1>7

LEMMA PlayIfShape ==
  ASSUME ShapeInv, PlayIf
  PROVE  ShapeInv'
<1>1. /\ Plays("if") /\ num_running' = Entered(This)
      /\ UNCHANGED << program, timers, waiting, generation, ring, loops, condition, next_id, stopped >>
  BY DEF PlayIf
<1>2. stack # << >> /\ This \in Actions
  BY <1>1, PlaysFact
<1>3. PICK p : Resumes(p, This) /\ Call(p)
  BY PlayIfCalls
<1>4. Calls(p, Limit', ring') /\ ~ Starts(p)
  BY <1>3, CallsFact DEF Resumes
<1> QED BY <1>1, <1>2, <1>3, <1>4, EnteredFact, KeepCalls

LEMMA PlayWhileCalls ==
  ASSUME ShapeInv, PlayWhile
  PROVE  IF condition THEN \E p : Resumes(p, This) /\ Call(p)
         ELSE Call(<< Frame("next", This, Args) >>)
<1>1. Plays("while")
  BY DEF PlayWhile
<1>2. /\ stack # << >> /\ stack[1].op = "play" /\ This \in OfKind({"while"}) /\ This \in Actions
      /\ Args \in Instances /\ Args \in Carried(This) /\ Len(Args) = program.arity[This]
      /\ program.kind[This] = "while" /\ program \in Programs
  BY <1>1, PlaysFact
<1>3. program.then[This] \in Branches(program, This)
  <2>1. This \in OfKind({"if", "while", "repeat"})
    BY <1>2 DEF OfKind
  <2> QED BY <1>2, <2>1, FirstFact
<1>4. Len(Args) = program.arity[This] + IF program.kind[This] = "repeat" THEN 1 ELSE 0
  <2>1. program.arity[This] \in Nat
    BY <1>2, ProgramFact
  <2> QED BY <1>2, <2>1
<1>5. Resumes(Play(program.then[This], Args), This)
  BY <1>2, <1>3, <1>4, ResumesPlay
<1> QED BY <1>5 DEF PlayWhile

LEMMA PlayWhileShape ==
  ASSUME ShapeInv, PlayWhile
  PROVE  ShapeInv'
<1>1. Plays("while") /\ UNCHANGED << program, ring, condition, next_id, stopped >>
  BY DEF PlayWhile
<1>2. stack # << >> /\ stack[1].op = "play" /\ This \in Actions /\ program \in Programs
      /\ This \in OfKind({"while"})
  BY <1>1, PlaysFact
<1>3. CASE condition
  <2>1. num_running' = Entered(This) /\ UNCHANGED << timers, waiting, generation, loops >>
    BY <1>3 DEF PlayWhile
  <2>2. PICK p : Resumes(p, This) /\ Call(p)
    BY <1>3, PlayWhileCalls
  <2>3. Calls(p, Limit', ring') /\ ~ Starts(p)
    BY <2>2, CallsFact DEF Resumes
  <2> QED BY <1>1, <1>2, <2>1, <2>2, <2>3, EnteredFact, KeepCalls
<1>4. CASE ~ condition
  <2>1. StopList(program.then[This], Entered(This)) /\ Call(<< Frame("next", This, Args) >>)
    BY <1>4 DEF PlayWhile
  <2>2. Range(program.then[This]) \subseteq Actions /\ Entered(This) \in [Actions -> Nat]
    <3>1. program.then[This] \in Seq(Actions)
      BY <1>2, ProgramFact
    <3> QED BY <3>1, <1>2, ListFact, EnteredFact
  <2>3. /\ num_running' \in [Actions -> Nat]
        /\ timers' \subseteq [of : Delays, args : Instances]
        /\ \A t \in timers' : Stems(t.of, t.args, Limit', ring')
        /\ waiting' \in [Waits -> Seq(Instances)]
        /\ \A a \in Waits : \A x \in Range(waiting'[a]) : Stems(a, x, Limit', ring')
        /\ generation' \in [Untils -> 0 .. 255]
        /\ loops' \in [Waits \cup Queued -> {"construction", "loop", "done"}]
    BY <2>1, <2>2, StopListStems
  <2> DEFINE fs == << Frame("next", This, Args) >>
  <2>4. Calls(fs, Limit', ring') /\ ~ Starts(fs)
    BY <1>2, NextCalls
  <2>5. Call(fs)
    BY <2>1
  <2> HIDE DEF fs
  <2>6. Advance(fs)
    BY <1>1, <1>2, <2>4, <2>5, CallFact DEF Calls
  <2>7. \A i \in 1 .. Len(fs) : AllStem(fs[i], Limit', ring')
    BY <2>4 DEF Calls
  <2>8. condition' \in BOOLEAN /\ stopped' \in [Scripts -> Nat]
    BY <1>1, KeepFact
  <2> QED BY <1>1, <2>3, <2>6, <2>7, <2>8, KeepShapeSameRing
<1> QED BY <1>3, <1>4

LEMMA PlayRepeatCalls ==
  ASSUME ShapeInv, PlayRepeat
  PROVE  \E p : Resumes(p, This) /\ Call(p)
<1>1. Plays("repeat")
  BY DEF PlayRepeat
<1>2. /\ stack # << >> /\ stack[1].op = "play" /\ This \in OfKind({"repeat"}) /\ This \in Actions
      /\ Args \in Instances /\ Args \in Carried(This) /\ Len(Args) = program.arity[This]
      /\ program.kind[This] = "repeat" /\ program \in Programs
  BY <1>1, PlaysFact
<1>3. program.then[This] \in Branches(program, This)
  <2>1. This \in OfKind({"if", "while", "repeat"})
    BY <1>2 DEF OfKind
  <2> QED BY <1>2, <2>1, FirstFact
<1>4. program.arity[This] \in Nat \ {0}
  BY <1>2, ProgramFact
<1>5. PICK x : x = << 0 >> \o Args
  OBVIOUS
<1>6. x \in Instances /\ Len(x) = Len(Args) + 1 /\ Id(x) = Id(Args)
  BY <1>2, <1>4, <1>5, ArgsFact
<1>7. Len(x) = program.arity[This] + IF program.kind[This] = "repeat" THEN 1 ELSE 0
  BY <1>2, <1>6
<1>8. Resumes(Play(program.then[This], x), This)
  BY <1>2, <1>3, <1>6, <1>7, ResumesPlay
<1>9. Resumes(<< Frame("next", This, Args) >>, This)
  BY <1>2, ResumesNext
<1> QED BY <1>5, <1>8, <1>9 DEF PlayRepeat

LEMMA PlayRepeatShape ==
  ASSUME ShapeInv, PlayRepeat
  PROVE  ShapeInv'
<1>1. /\ Plays("repeat") /\ num_running' = Entered(This)
      /\ UNCHANGED << program, timers, waiting, generation, ring, loops, condition, next_id, stopped >>
  BY DEF PlayRepeat
<1>2. stack # << >> /\ This \in Actions
  BY <1>1, PlaysFact
<1>3. PICK p : Resumes(p, This) /\ Call(p)
  BY PlayRepeatCalls
<1>4. Calls(p, Limit', ring') /\ ~ Starts(p)
  BY <1>3, CallsFact DEF Resumes
<1> QED BY <1>1, <1>2, <1>3, <1>4, EnteredFact, KeepCalls

LEMMA ResumesParent ==
  ASSUME ShapeInv, NEW P \in Actions, NEW x \in Instances, NEW a \in Actions, Args \in Carried(a),
         Id(x) = Id(Args), program.script[a] = program.script[P], Len(x) = program.arity[P]
  PROVE  Resumes(<< Frame("next", P, x) >>, P)
<1>1. Stems(P, x, Limit', ring')
  BY GoesOn
<1>2. Sound(Frame("next", P, x), Limit', ring')
  BY <1>1, SoundFact
<1>3. /\ Frame("next", P, x).op = "next" /\ Frame("next", P, x).of = P
      /\ Frame("next", P, x).args = x
  BY DEF Frame
<1>4. AtOnce(<< Frame("next", P, x) >>, Limit', ring')
  BY <1>2, <1>3, CallsFact
<1>5. << Frame("next", P, x) >>[1] = Frame("next", P, x)
  OBVIOUS
<1> QED BY <1>3, <1>4, <1>5 DEF Resumes

LEMMA PlayContinuationFact ==
  ASSUME ShapeInv, PlayContinuation
  PROVE  /\ stack # << >> /\ stack[1].op = "play" /\ This \in Actions /\ Args \in Instances
         /\ Args \in Carried(This) /\ Len(Args) = program.arity[This]
         /\ program.kind[This] \in Continuations /\ program \in Programs
         /\ Parent(This) \in Actions /\ This \in Inside(Parent(This))
         /\ program.script[This] = program.script[Parent(This)]
         /\ program.arity[Parent(This)] \in Nat \ {0}
         /\ num_running' = Entered(This)
         /\ UNCHANGED << program, timers, waiting, generation, ring, loops, condition, next_id, stopped >>
<1>1. PICK kind \in Continuations : Plays(kind)
  BY DEF PlayContinuation, Continuations
<1>2. /\ stack # << >> /\ stack[1].op = "play" /\ This \in Actions /\ Args \in Instances
      /\ Args \in Carried(This) /\ Len(Args) = program.arity[This]
      /\ program.kind[This] \in Continuations /\ program \in Programs
  BY <1>1, PlaysFact
<1>3. Parent(This) \in Actions /\ This \in Inside(Parent(This))
  BY <1>2, ContinuationFact
<1>4. program.script[This] = program.script[Parent(This)]
  BY <1>2, <1>3, NestFact
<1>5. program.arity[Parent(This)] \in Nat \ {0}
  BY <1>2, <1>3, ProgramFact
<1> QED BY <1>2, <1>3, <1>4, <1>5 DEF PlayContinuation

LEMMA PlayContinuationCalls ==
  ASSUME ShapeInv, PlayContinuation
  PROVE  \E p : Resumes(p, Parent(This)) /\ Call(p \o << Frame("next", This, Args) >>)
<1> DEFINE P == Parent(This)
<1>1. /\ stack # << >> /\ stack[1].op = "play" /\ This \in Actions /\ Args \in Instances
      /\ Args \in Carried(This) /\ Len(Args) = program.arity[This]
      /\ program.kind[This] \in Continuations /\ program \in Programs
      /\ P \in Actions /\ This \in Inside(P) /\ program.script[This] = program.script[P]
      /\ program.arity[P] \in Nat \ {0}
  BY PlayContinuationFact
<1>2. program.arity[This] = program.arity[P] + IF program.kind[P] = "repeat" THEN 1 ELSE 0
  BY <1>1, NestFact
<1>3. program.kind[P] \in {"while", "repeat"} => program.then[P] \in Branches(program, P)
  <2>1. program.kind[P] \in {"while", "repeat"} => P \in OfKind({"if", "while", "repeat"})
    BY <1>1 DEF OfKind
  <2> QED BY <1>1, <2>1, FirstFact
<1>4. /\ program.kind[This] = "continuation" => program.kind[P] = "if"
      /\ program.kind[This] = "while_continuation" => program.kind[P] = "while"
      /\ program.kind[This] = "repeat_continuation" => program.kind[P] = "repeat"
  BY <1>1, ContinuationFact
<1>5. ASSUME program.kind[P] # "repeat"
      PROVE  Len(Args) = program.arity[P] /\ Resumes(<< Frame("next", P, Args) >>, P)
  <2>1. Len(Args) = program.arity[P]
    BY <1>1, <1>2, <1>5
  <2> QED BY <1>1, <2>1, ResumesParent
<1>6. PICK last : last = << Frame("next", This, Args) >>
  OBVIOUS
<1>7. CASE program.kind[This] = "continuation"
  <2>1. Call(<< Frame("next", P, Args) >> \o last)
    BY <1>6, <1>7 DEF PlayContinuation
  <2> QED BY <1>4, <1>5, <1>6, <1>7, <2>1
<1>8. CASE program.kind[This] = "while_continuation"
  <2>1. Call((IF num_running[P] > 0 /\ condition
              THEN Play(program.then[P], Args)
              ELSE << Frame("next", P, Args) >>) \o last)
    BY <1>6, <1>8 DEF PlayContinuation
  <2>2. Len(Args) = program.arity[P] + IF program.kind[P] = "repeat" THEN 1 ELSE 0
    BY <1>1, <1>2
  <2>3. Resumes(Play(program.then[P], Args), P)
    BY <1>1, <1>3, <1>4, <1>8, <2>2, ResumesPlay
  <2>4. Resumes(<< Frame("next", P, Args) >>, P)
    BY <1>4, <1>5, <1>8
  <2> QED BY <1>6, <2>1, <2>3, <2>4
<1>9. CASE program.kind[This] = "repeat_continuation"
  <2>1. PICK x, y : x = Tail(Args) /\ y = << Head(Args) + 1 >> \o Tail(Args)
    OBVIOUS
  <2>2. program.kind[P] = "repeat" /\ Len(Args) = program.arity[P] + 1 /\ Len(Args) > 1
    BY <1>1, <1>2, <1>4, <1>9
  <2>3. x \in Instances /\ Len(x) = program.arity[P] /\ Id(x) = Id(Args) /\ Head(Args) \in Nat
        /\ Len(x) > 0
    <3>1. PICK z, n : z = Args /\ n = program.arity[P]
      OBVIOUS
    <3>2. z \in Instances /\ n \in Nat \ {0} /\ Len(z) = n + 1 /\ x = Tail(z)
      BY <1>1, <2>1, <2>2, <3>1
    <3>3. x \in Instances /\ Len(x) = n /\ Id(x) = Id(z) /\ Head(z) \in Nat /\ Len(x) > 0
      BY ONLY <3>2, ArgsFact
    <3> QED BY <3>1, <3>3
  <2>4. Head(Args) + 1 \in Nat
    BY <2>3
  <2>5. y \in Instances /\ Len(y) = program.arity[P] + 1 /\ Id(y) = Id(Args)
    <3>1. PICK n, m : n = Head(Args) + 1 /\ m = program.arity[P]
      OBVIOUS
    <3>2. x \in Instances /\ n \in Nat /\ y = << n >> \o x /\ Len(x) = m /\ Len(x) > 0
      BY <2>1, <2>3, <2>4, <3>1
    <3>3. y \in Instances /\ Len(y) = m + 1 /\ Id(y) = Id(x)
      BY ONLY <3>2, ArgsFact
    <3> QED BY <2>3, <3>1, <3>3
  <2>6. Resumes(<< Frame("next", P, x) >>, P)
    <3>1. PICK Q, b : Q = P /\ b = This
      OBVIOUS
    <3>2. /\ Q \in Actions /\ b \in Actions /\ x \in Instances /\ Id(x) = Id(Args)
          /\ Len(x) = program.arity[Q]
      BY <1>1, <2>3, <3>1
    <3>3. Args \in Carried(b) /\ program.script[b] = program.script[Q]
      BY <1>1, <3>1
    <3>4. Resumes(<< Frame("next", Q, x) >>, Q)
      BY ONLY ShapeInv, <3>2, <3>3, ResumesParent
    <3> QED BY <3>1, <3>4
  <2>7. Len(y) = program.arity[P] + IF program.kind[P] = "repeat" THEN 1 ELSE 0
    BY <2>2, <2>5
  <2>8. Resumes(Play(program.then[P], y), P)
    <3>1. PICK Q, b, list : Q = P /\ b = This /\ list = program.then[P]
      OBVIOUS
    <3>2. /\ Q \in Actions /\ b \in Actions /\ list \in Branches(program, Q)
          /\ y \in Instances /\ Id(y) = Id(Args)
      BY <1>1, <1>3, <2>2, <2>5, <3>1
    <3>3. /\ Args \in Carried(b) /\ program.script[b] = program.script[Q]
          /\ Len(y) = program.arity[Q] + IF program.kind[Q] = "repeat" THEN 1 ELSE 0
      BY <1>1, <2>7, <3>1
    <3>4. Resumes(Play(list, y), Q)
      BY ONLY ShapeInv, <3>2, <3>3, ResumesPlay
    <3> QED BY <3>1, <3>4
  <2>9. Call((IF Head(Args) + 1 >= program.count[P]
              THEN << Frame("next", P, x) >>
              ELSE Play(program.then[P], y)) \o last)
    BY <1>6, <1>9, <2>1 DEF PlayContinuation
  <2> QED BY <1>6, <2>6, <2>8, <2>9
<1> QED BY <1>1, <1>7, <1>8, <1>9 DEF Continuations

LEMMA PlayContinuationShape ==
  ASSUME ShapeInv, PlayContinuation
  PROVE  ShapeInv'
<1>1. /\ stack # << >> /\ stack[1].op = "play" /\ This \in Actions
      /\ program.kind[This] \in Continuations
      /\ num_running' = Entered(This)
      /\ UNCHANGED << program, timers, waiting, generation, ring, loops, condition, next_id, stopped >>
  BY PlayContinuationFact
<1>2. PICK p : Resumes(p, Parent(This)) /\ Call(p \o << Frame("next", This, Args) >>)
  BY PlayContinuationCalls
<1> DEFINE g == Frame("next", This, Args)
<1>3. Sound(g, Limit', ring') /\ g.op = "next" /\ g.of = This
  BY <1>1, SameArgs
<1>4. Lower(g)
  BY <1>1, <1>3 DEF Lower
<1> HIDE DEF g
<1>5. PICK fs : fs = p \o << g >>
  OBVIOUS
<1>6. Calls(fs, Limit', ring') /\ ~ Starts(fs)
  BY <1>2, <1>3, <1>4, <1>5, CallsFact DEF Resumes
<1>7. Call(fs)
  BY <1>2, <1>5 DEF g
<1> QED BY <1>1, <1>6, <1>7, EnteredFact, KeepCalls
-----------------------------------------------------------------------------
(* An instance enters the list of a script.                                *)
LEMMA EnterFact ==
  ASSUME program \in Programs, NEW s \in Scripts, NEW x \in Instances, Len(x) = 1, NEW l, NEW r,
         Id(x) < l,
         s \in Queued => \A k \in 0 .. Capacity(s) - 1 :
                           r[s].slots[k] # << >> => Id(x) < Id(r[s].slots[k])
  PROVE  /\ AtOnce(RunActions(s, x), l, r)
         /\ RunActions(s, x) # << >> =>
              /\ RunActions(s, x)[1].op = "play" /\ RunActions(s, x)[1].args = x
              /\ RunActions(s, x)[1].of \in Range(program.chain[s])
<1> DEFINE list == program.chain[s]
<1>1. list \in Seq(Actions)
  BY ProgramFact
<1>2. CASE list = << >>
  BY <1>2, CallsFact DEF RunActions, Play
<1>3. CASE list # << >>
  <2>1. PICK a : a = Head(list)
    OBVIOUS
  <2>2. a \in Range(list) /\ a \in Actions
    BY <1>1, <1>3, <2>1, FirstFact, ListFact
  <2>3. program.arity[a] = 1 /\ program.script[a] = s
    BY <2>2, LinkFact
  <2>4. Stems(a, x, l, r)
    BY <2>3 DEF Stems, Older
  <2>5. Sound(Frame("play", a, x), l, r)
    BY <2>2, <2>4, SoundFact
  <2>6. Frame("play", a, x).op = "play" /\ Frame("play", a, x).of = a /\ Frame("play", a, x).args = x
    BY DEF Frame
  <2>7. AtOnce(<< Frame("play", a, x) >>, l, r)
    BY <2>5, <2>6, CallsFact
  <2>8. RunActions(s, x) = << Frame("play", a, x) >>
    BY <1>3, <2>1 DEF RunActions, Play
  <2>9. << Frame("play", a, x) >>[1] = Frame("play", a, x)
    OBVIOUS
  <2> QED BY <2>2, <2>6, <2>7, <2>8, <2>9
<1> QED BY <1>2, <1>3

LEMMA ExecutesFact ==
  ASSUME ShapeInv, NEW mode, Executes(mode)
  PROVE  /\ stack # << >> /\ stack[1].op = "execute" /\ This \in Scripts /\ program.mode[This] = mode
         /\ Args \in Instances /\ Len(Args) = 1 /\ Id(Args) = Limit /\ Limit \in Nat
         /\ next_id = Limit + 1 /\ next_id \in Nat /\ program \in Programs
         /\ Below(stack) = Tail(stack)
<1>1. stack # << >> /\ stack[1].op = "execute" /\ program.mode[This] = mode /\ Top("execute")
  BY DEF Executes, Top
<1>2. This \in Scripts /\ Args \in Instances /\ Below(stack) = Tail(stack)
  BY <1>1, TopFact
<1>3. Limit = next_id - 1 /\ Id(Args) = Limit /\ Len(Args) = 1 /\ Limit \in Nat /\ next_id \in Nat
  BY <1>1, LimitFact DEF ShapeInv
<1> QED BY <1>1, <1>2, <1>3, KeepFact

(* No instance is queued, and the one at hand runs.                        *)
LEMMA ExecuteCalls ==
  ASSUME ShapeInv, NEW mode, Executes(mode), program' = program, next_id' = next_id,
         mode = "queued" => ring'[This] = ring[This] /\ ring[This].count = 0
  PROVE  /\ AtOnce(RunActions(This, Args), next_id, ring')
         /\ RunActions(This, Args) # << >> =>
              /\ RunActions(This, Args)[1].op = "play" /\ RunActions(This, Args)[1].args = Args
              /\ RunActions(This, Args)[1].of \in Range(program.chain[This])
         /\ \A fs : Call(fs) /\ Calls(fs, next_id, ring') /\ ~ Starts(fs) =>
              Advance(fs) /\ Limit' = next_id
<1>1. /\ stack # << >> /\ This \in Scripts /\ program.mode[This] = mode
      /\ Args \in Instances /\ Len(Args) = 1 /\ Id(Args) = Limit /\ Limit \in Nat
      /\ next_id = Limit + 1 /\ program \in Programs
  BY ExecutesFact
<1>2. Id(Args) < next_id
  BY <1>1
<1>3. ASSUME This \in Queued, NEW k \in 0 .. Capacity(This) - 1
      PROVE  ring'[This].slots[k] = << >>
  <2>1. mode = "queued"
    BY <1>1, <1>3 DEF Queued
  <2>2. Ordered(ring[This], Capacity(This), Limit)
    BY <1>3 DEF ShapeInv, RingInv
  <2>3. ring[This].slots[k] = << >>
    <3>1. ring[This].count = 0
      BY <2>1
    <3>2. ~ \E i \in 1 .. ring[This].count : k = Spot(ring[This], Capacity(This), i)
      BY <3>1
    <3> QED BY <3>2, <2>2 DEF Ordered
  <2> QED BY <2>1, <2>3
<1>4. ASSUME NEW fs, Call(fs), Calls(fs, next_id, ring'), ~ Starts(fs)
      PROVE  Advance(fs) /\ Limit' = next_id
  <2>1. Advance(fs)
    BY <1>1, <1>4, CallFact DEF Calls
  <2>2. Limit' = next_id'
    BY <1>4, <2>1, NextLimit DEF ShapeInv
  <2> QED BY <2>1, <2>2
<1>5. This \in Queued => \A k \in 0 .. Capacity(This) - 1 :
        ring'[This].slots[k] # << >> => Id(Args) < Id(ring'[This].slots[k])
  BY <1>3
<1> QED BY <1>1, <1>2, <1>4, <1>5, EnterFact

(* The modes without a ring.                                               *)
LEMMA ExecuteShape ==
  ASSUME ShapeInv, ExecuteSingle \/ ExecuteParallel
  PROVE  ShapeInv'
<1>1. PICK mode \in {"single", "parallel"} : Executes(mode)
  BY DEF ExecuteSingle, ExecuteParallel
<1>2. UNCHANGED << program, num_running, timers, waiting, generation, ring, loops, condition, next_id, stopped >>
  BY DEF ExecuteSingle, ExecuteParallel
<1>3. PICK p : p \in {<< >>, RunActions(This, Args)} /\ Call(p)
  BY DEF ExecuteSingle, ExecuteParallel
<1>4. AtOnce(p, next_id, ring')
  BY <1>1, <1>2, <1>3, ExecuteCalls, CallsFact
<1>5. Calls(p, next_id, ring') /\ ~ Starts(p)
  BY <1>4, CallsFact
<1>6. Limit' = next_id
  BY <1>1, <1>2, <1>3, <1>5, ExecuteCalls
<1>7. stack # << >> /\ num_running' \in [Actions -> Nat]
  BY <1>1, <1>2, ExecutesFact, KeepFact
<1> QED BY <1>2, <1>3, <1>5, <1>6, <1>7, KeepCalls

LEMMA ExecuteRestartShape ==
  ASSUME ShapeInv, ExecuteRestart
  PROVE  ShapeInv'
<1>1. /\ Executes("restart") /\ Call(RunActions(This, Args))
      /\ UNCHANGED << program, ring, condition, next_id >>
  BY DEF ExecuteRestart
<1> DEFINE p == RunActions(This, Args)
<1>2. /\ stack # << >> /\ This \in Scripts /\ program \in Programs
      /\ Id(Args) \in Nat
  BY <1>1, ExecutesFact
<1>3. AtOnce(p, next_id, ring') /\ Call(p)
  BY <1>1, ExecuteCalls
<1> HIDE DEF p
<1>4. Calls(p, next_id, ring') /\ ~ Starts(p)
  BY <1>3, CallsFact
<1>5. Limit' = next_id /\ Advance(p)
  BY <1>1, <1>3, <1>4, ExecuteCalls
<1>6. CASE ActionIsRunning(This)
  <2>1. StopList(program.chain[This], num_running) /\ stopped' = [stopped EXCEPT ![This] = Id(Args)]
    BY <1>6 DEF ExecuteRestart
  <2>2. Range(program.chain[This]) \subseteq Actions /\ num_running \in [Actions -> Nat]
        /\ stopped \in [Scripts -> Nat]
    BY <1>2, ListFact, KeepFact
  <2>3. /\ num_running' \in [Actions -> Nat]
        /\ timers' \subseteq [of : Delays, args : Instances]
        /\ \A t \in timers' : Stems(t.of, t.args, Limit', ring')
        /\ waiting' \in [Waits -> Seq(Instances)]
        /\ \A a \in Waits : \A x \in Range(waiting'[a]) : Stems(a, x, Limit', ring')
        /\ generation' \in [Untils -> 0 .. 255]
        /\ loops' \in [Waits \cup Queued -> {"construction", "loop", "done"}]
    BY <2>1, <2>2, StopListStems
  <2>4. condition' \in BOOLEAN /\ stopped' \in [Scripts -> Nat]
    <3>1. condition' \in BOOLEAN
      BY <1>1, KeepFact
    <3> QED BY <1>2, <2>1, <2>2, <3>1
  <2>5. \A i \in 1 .. Len(p) : AllStem(p[i], Limit', ring')
    BY <1>4, <1>5 DEF Calls
  <2> QED BY <1>1, <1>5, <2>3, <2>4, <2>5, KeepShapeSameRing
<1>7. CASE ~ ActionIsRunning(This)
  <2>1. UNCHANGED << num_running, timers, waiting, generation, loops, stopped >>
    BY <1>7 DEF ExecuteRestart
  <2>2. num_running' \in [Actions -> Nat]
    BY <2>1, KeepFact
  <2> QED BY <1>1, <1>2, <1>3, <1>4, <1>5, <2>1, <2>2, KeepCalls
<1> QED BY <1>6, <1>7

LEMMA ScriptFrames ==
  ASSUME NEW s \in Queued, NEW x \in Instances, NEW op \in {"script_loop", "script_loop_ends"},
         NEW l, NEW r
  PROVE  /\ Sound(Frame(op, s, x), l, r) /\ Lower(Frame(op, s, x))
         /\ Frame(op, s, x).op = op /\ Frame(op, s, x).of = s
<1>1. Frame(op, s, x).op = op /\ Frame(op, s, x).of = s
  BY DEF Frame
<1> QED BY <1>1, SoundFact DEF Lower

(* What a step on the ring of one script leaves as it was.                 *)
LEMMA OneRing ==
  ASSUME ShapeInv, NEW s \in Queued, NEW r, ring' = [ring EXCEPT ![s] = r],
         NEW fs, Advance(fs), Ordered(r, Capacity(s), Limit'),
         \A k \in 0 .. Capacity(s) - 1 :
           \/ r.slots[k] \in {<< >>, ring[s].slots[k]}
           \/ Id(r.slots[k]) \in Nat /\ Id(r.slots[k]) >= Limit
  PROVE  /\ ring' = [q \in Queued |-> ring'[q]]
         /\ ring'[s] = r
         /\ \A q \in Queued : Ordered(ring'[q], Capacity(q), Limit')
         /\ \A q \in Queued : \A k \in 0 .. Capacity(q) - 1 :
              \/ ring'[q].slots[k] \in {<< >>, ring[q].slots[k]}
              \/ Id(ring'[q].slots[k]) \in Nat /\ Id(ring'[q].slots[k]) >= Limit
<1>1. ring = [q \in Queued |-> ring[q]] /\ program \in Programs
  BY DEF ShapeInv, RingInv, TypeInv
<1>2. ring'[s] = r /\ \A q \in Queued : q # s => ring'[q] = ring[q]
  BY <1>1
<1>3. ring' = [q \in Queued |-> ring'[q]]
  BY <1>1
<1>4. Limit' \in Nat /\ Limit <= Limit' /\ Limit \in Nat
  BY NextLimit, LimitFact DEF ShapeInv
<1>5. PICK l : l = Limit'
  OBVIOUS
<1>6. \A q \in Queued : Ordered(ring'[q], Capacity(q), l)
  <2> TAKE q \in Queued
  <2>1. CASE q = s
    BY <2>1, <1>2, <1>5
  <2>2. CASE q # s
    <3>1. Capacity(q) \in Nat
      BY <1>1, EmptyOrdered
    <3>2. ring'[q] = ring[q] /\ Ordered(ring[q], Capacity(q), Limit)
      BY <2>2, <1>2 DEF ShapeInv, RingInv
    <3> QED BY <3>1, <3>2, <1>4, <1>5, OrderedLater
  <2> QED BY <2>1, <2>2
<1>7. \A q \in Queued : \A k \in 0 .. Capacity(q) - 1 :
        \/ ring'[q].slots[k] \in {<< >>, ring[q].slots[k]}
        \/ Id(ring'[q].slots[k]) \in Nat /\ Id(ring'[q].slots[k]) >= Limit
  BY <1>2
<1> QED BY <1>2, <1>3, <1>5, <1>6, <1>7

LEMMA ExecuteQueuedShape ==
  ASSUME ShapeInv, ExecuteQueued
  PROVE  ShapeInv'
<1> DEFINE r == ring[This]
           c == Capacity(This)
<1>1. /\ Executes("queued")
      /\ UNCHANGED << program, num_running, timers, waiting, generation, condition, next_id, stopped >>
  BY DEF ExecuteQueued
<1>2. /\ stack # << >> /\ This \in Scripts /\ program.mode[This] = "queued"
      /\ Args \in Instances /\ Len(Args) = 1 /\ Id(Args) = Limit /\ Limit \in Nat
      /\ next_id = Limit + 1 /\ next_id \in Nat /\ program \in Programs
  BY <1>1, ExecutesFact
<1>3. This \in Queued /\ c \in Nat /\ Ordered(r, c, Limit)
  <2>1. This \in Queued
    BY <1>2 DEF Queued
  <2> QED BY <2>1, <1>2, EmptyOrdered DEF ShapeInv, RingInv
<1>4. /\ num_running' \in [Actions -> Nat]
      /\ timers' \subseteq [of : Delays, args : Instances]
      /\ waiting' \in [Waits -> Seq(Instances)]
      /\ generation' \in [Untils -> 0 .. 255]
      /\ condition' \in BOOLEAN /\ stopped' \in [Scripts -> Nat]
      /\ \A t \in timers' : Stems(t.of, t.args, Limit', ring')
      /\ \A a \in Waits : \A x \in Range(waiting'[a]) : Stems(a, x, Limit', ring')
  BY <1>1, KeepFact
<1>5. CASE ~ ActionIsRunning(This) /\ r.count = 0
  <2> DEFINE g == Frame("script_loop", This, Args)
             p == RunActions(This, Args)
  <2>1. Call(p \o << g >>) /\ UNCHANGED << ring, loops >>
    BY <1>5 DEF ExecuteQueued
  <2>2. AtOnce(p, next_id, ring')
    BY <1>1, <1>5, <2>1, ExecuteCalls
  <2>3. Sound(g, next_id, ring') /\ Lower(g)
    BY <1>2, <1>3, ScriptFrames
  <2> HIDE DEF g, p
  <2>4. PICK fs : fs = p \o << g >>
    OBVIOUS
  <2>5. Calls(fs, next_id, ring') /\ ~ Starts(fs) /\ Call(fs)
    BY <2>1, <2>2, <2>3, <2>4, CallsFact
  <2>6. Limit' = next_id /\ Advance(fs)
    BY <1>1, <1>5, <2>1, <2>5, ExecuteCalls
  <2> QED BY <1>1, <1>2, <1>4, <2>1, <2>5, <2>6, KeepCalls
<1>6. CASE ~ (~ ActionIsRunning(This) /\ r.count = 0)
  <2>1. Call(<< >>)
    BY <1>6 DEF ExecuteQueued, Return
  <2>2. \A l, q : Calls(<< >>, l, q) /\ ~ Starts(<< >>)
    BY NoCalls
  <2>3. Advance(<< >>) /\ Limit' = next_id
    <3>1. Advance(<< >>)
      BY <1>1, <1>2, <2>1, <2>2, CallFact DEF Calls
    <3> QED BY <1>1, <2>2, <3>1, NextLimit DEF ShapeInv
  <2>4. CASE r.count + 1 >= program.max_runs[This]
    <3>1. UNCHANGED << ring, loops >>
      BY <1>6, <2>4 DEF ExecuteQueued
    <3> QED BY <1>1, <1>2, <1>4, <2>1, <2>2, <3>1, KeepCalls
  <2>5. CASE ~ (r.count + 1 >= program.max_runs[This])
    <3>1. /\ ring' = [ring EXCEPT ![This].slots[(r.front + r.count) % c] = Args,
                                  ![This].count = @ + 1]
          /\ EnableLoop(This)
      BY <1>6, <2>5 DEF ExecuteQueued
    <3>2. ring = [s \in Queued |-> ring[s]]
      BY DEF ShapeInv, RingInv
    <3>3. ring' = [ring EXCEPT ![This] = Appended(r, c, Args)]
      BY <3>1, <3>2, <1>3 DEF Appended
    <3>4. r.count < c
      <4>1. r.count \in Nat /\ program.max_runs[This] \in Nat /\ c = program.max_runs[This] - 1
        BY <1>2, <1>3, ProgramFact DEF Capacity, Ordered, Rings
      <4> QED BY <4>1, <2>5
    <3> HIDE DEF r, c
    <3>5. PICK q : q = Appended(r, c, Args)
      OBVIOUS
    <3>6. /\ Ordered(q, c, Limit + 1)
          /\ \A k \in 0 .. c - 1 : q.slots[k] \in {Args, r.slots[k]}
      BY <1>2, <1>3, <3>4, <3>5, AppendOrdered
    <3>7. Ordered(q, c, Limit')
      BY <1>2, <2>3, <3>6
    <3>8. \A k \in 0 .. c - 1 : \/ q.slots[k] \in {<< >>, r.slots[k]}
                                \/ Id(q.slots[k]) \in Nat /\ Id(q.slots[k]) >= Limit
      BY <1>2, <3>6
    <3>9. /\ ring' = [s \in Queued |-> ring'[s]]
          /\ \A s \in Queued : Ordered(ring'[s], Capacity(s), Limit')
          /\ \A s \in Queued : \A k \in 0 .. Capacity(s) - 1 :
               \/ ring'[s].slots[k] \in {<< >>, ring[s].slots[k]}
               \/ Id(ring'[s].slots[k]) \in Nat /\ Id(ring'[s].slots[k]) >= Limit
      BY <1>3, <2>3, <3>3, <3>5, <3>7, <3>8, OneRing DEF r, c
    <3>10. loops' \in [Waits \cup Queued -> {"construction", "loop", "done"}]
      BY <3>1, LoopFact
    <3>11. \A i \in 1 .. Len(<< >>) : AllStem(<< >>[i], Limit', ring')
      BY <2>2 DEF Calls
    <3> QED BY <1>4, <2>3, <3>9, <3>10, <3>11, KeepShape
  <2> QED BY <2>4, <2>5
<1> QED BY <1>5, <1>6

(* A step that does not start an instance and was not about to.            *)
LEMMA LaterFact ==
  ASSUME ShapeInv, program' = program, next_id' = next_id, ~ Top("execute"),
         NEW fs, stack' = fs \o Below(stack), Fits(fs, stack), ~ Starts(fs)
  PROVE  Advance(fs) /\ Limit' = next_id /\ Limit = next_id /\ next_id \in Nat
<1>1. Limit = next_id /\ next_id \in Nat
  BY LimitFact DEF ShapeInv
<1>2. Advance(fs)
  BY <1>1 DEF Advance
<1> QED BY <1>1, <1>2, NextLimit DEF ShapeInv

LEMMA ScriptLoopCalls ==
  ASSUME ShapeInv, ScriptLoop, ring[This].count # 0, ~ ActionIsRunning(This)
  PROVE  /\ stack # << >> /\ ~ Top("execute") /\ This \in Queued
         /\ ring' = [ring EXCEPT ![This] = Dequeued(ring[This], Capacity(This))]
         /\ Advance(RunActions(This, ring[This].slots[ring[This].front])
                    \o << Frame("script_loop_ends", This, Args) >>)
         /\ Calls(RunActions(This, ring[This].slots[ring[This].front])
                  \o << Frame("script_loop_ends", This, Args) >>, Limit', ring')
         /\ Limit' = next_id /\ Limit = next_id
         /\ RunActions(This, ring[This].slots[ring[This].front]) # << >> =>
              /\ RunActions(This, ring[This].slots[ring[This].front])[1].op = "play"
              /\ RunActions(This, ring[This].slots[ring[This].front])[1].args
                   = ring[This].slots[ring[This].front]
              /\ RunActions(This, ring[This].slots[ring[This].front])[1].of
                   \in Range(program.chain[This])
         /\ AtOnce(RunActions(This, ring[This].slots[ring[This].front]), Limit', ring')
         /\ ring[This].front \in 0 .. Capacity(This) - 1
         /\ ring[This].slots[ring[This].front] # << >>
<1> DEFINE r == ring[This]
           c == Capacity(This)
           x == r.slots[r.front]
           p == RunActions(This, x)
           g == Frame("script_loop_ends", This, Args)
<1>1. /\ stack # << >> /\ stack[1].op = "script_loop" /\ ~ Top("execute")
      /\ UNCHANGED << program, num_running, timers, waiting, generation, loops, condition, next_id, stopped >>
  BY DEF ScriptLoop, Top
<1>2. This \in Queued /\ Args \in Instances /\ program \in Programs /\ This \in Scripts
      /\ Below(stack) = Tail(stack)
  BY <1>1, TopFact, KeepFact DEF Queued
<1>3. c \in Nat /\ Ordered(r, c, Limit) /\ Limit = next_id /\ Limit \in Nat
  BY <1>1, <1>2, EmptyOrdered, LimitFact DEF ShapeInv, RingInv
<1>4. Call(p \o << g >>)
  BY DEF ScriptLoop
<1>5. ring = [s \in Queued |-> ring[s]]
  BY DEF ShapeInv, RingInv
<1>6. ring' = [ring EXCEPT ![This].slots[r.front] = << >>,
                           ![This].count = @ - 1,
                           ![This].front = (@ + 1) % c]
  BY DEF ScriptLoop
<1>7. ring' = [ring EXCEPT ![This] = Dequeued(r, c)]
  BY <1>2, <1>5, <1>6 DEF Dequeued
<1>8. r.count # 0
  OBVIOUS
<1> HIDE DEF r, c
<1>9. /\ r.front \in 0 .. c - 1 /\ r.slots[r.front] # << >>
      /\ \A k \in 0 .. c - 1 : Dequeued(r, c).slots[k] # << >> => Id(x) < Id(Dequeued(r, c).slots[k])
  BY <1>3, <1>8, DequeueOrdered
<1>10. x \in Instances /\ Len(x) = 1 /\ Id(x) < Limit
  BY <1>3, <1>9 DEF Ordered, Rings
<1>11. ring'[This] = Dequeued(r, c)
  BY <1>2, <1>5, <1>7
<1> HIDE DEF x
<1>12. \A k \in 0 .. Capacity(This) - 1 :
         ring'[This].slots[k] # << >> => Id(x) < Id(ring'[This].slots[k])
  BY <1>9, <1>11 DEF c
<1>13. AtOnce(p, next_id, ring')
       /\ (p # << >> => p[1].op = "play" /\ p[1].args = x /\ p[1].of \in Range(program.chain[This]))
  BY <1>2, <1>3, <1>10, <1>12, EnterFact
<1>14. Sound(g, next_id, ring') /\ Lower(g)
  BY <1>2, ScriptFrames
<1> HIDE DEF g, p
<1>15. PICK fs : fs = p \o << g >>
  OBVIOUS
<1>16. Calls(fs, next_id, ring') /\ ~ Starts(fs)
  BY <1>13, <1>14, <1>15, CallsFact
<1>17. Advance(fs) /\ Limit' = next_id
  BY <1>1, <1>2, <1>4, <1>15, <1>16, LaterFact DEF Calls, Call
<1> QED BY <1>1, <1>2, <1>3, <1>7, <1>9, <1>13, <1>15, <1>16, <1>17 DEF r, c, x, p, g

LEMMA ScriptLoopShape ==
  ASSUME ShapeInv, ScriptLoop
  PROVE  ShapeInv'
<1>1. /\ stack # << >> /\ stack[1].op = "script_loop" /\ ~ Top("execute")
      /\ UNCHANGED << program, num_running, timers, waiting, generation, loops, condition, next_id, stopped >>
  BY DEF ScriptLoop, Top
<1>2. This \in Queued /\ Args \in Instances /\ program \in Programs
  BY <1>1, TopFact, KeepFact
<1>3. /\ num_running' \in [Actions -> Nat]
      /\ timers' \subseteq [of : Delays, args : Instances]
      /\ waiting' \in [Waits -> Seq(Instances)]
      /\ generation' \in [Untils -> 0 .. 255]
      /\ loops' \in [Waits \cup Queued -> {"construction", "loop", "done"}]
      /\ condition' \in BOOLEAN /\ stopped' \in [Scripts -> Nat]
      /\ \A t \in timers' : Stems(t.of, t.args, Limit', ring')
      /\ \A a \in Waits : \A x \in Range(waiting'[a]) : Stems(a, x, Limit', ring')
  BY <1>1, KeepFact
<1>4. CASE ring[This].count # 0 /\ ~ ActionIsRunning(This)
  <2> DEFINE r == ring[This]
             c == Capacity(This)
  <2>1. PICK fs : fs = RunActions(This, r.slots[r.front])
                       \o << Frame("script_loop_ends", This, Args) >>
    OBVIOUS
  <2>2. /\ ring' = [ring EXCEPT ![This] = Dequeued(r, c)]
        /\ Advance(fs) /\ Calls(fs, Limit', ring') /\ Limit' = next_id /\ Limit = next_id
    BY <1>4, <2>1, ScriptLoopCalls
  <2>3. c \in Nat /\ Ordered(r, c, Limit) /\ Limit \in Nat
    BY <1>2, EmptyOrdered, LimitFact DEF ShapeInv, RingInv
  <2>4. r.count # 0
    BY <1>4
  <2> HIDE DEF r, c
  <2>5. PICK q : q = Dequeued(r, c)
    OBVIOUS
  <2>6. Ordered(q, c, Limit) /\ \A k \in 0 .. c - 1 : q.slots[k] \in {<< >>, r.slots[k]}
    BY <2>3, <2>4, <2>5, DequeueOrdered
  <2>7. /\ ring' = [s \in Queued |-> ring'[s]]
        /\ \A s \in Queued : Ordered(ring'[s], Capacity(s), Limit')
        /\ \A s \in Queued : \A k \in 0 .. Capacity(s) - 1 :
             \/ ring'[s].slots[k] \in {<< >>, ring[s].slots[k]}
             \/ Id(ring'[s].slots[k]) \in Nat /\ Id(ring'[s].slots[k]) >= Limit
    <3>1. Ordered(q, c, Limit')
      BY <2>2, <2>6
    <3> QED BY <1>2, <2>2, <2>5, <2>6, <3>1, OneRing DEF r, c
  <2>8. \A i \in 1 .. Len(fs) : AllStem(fs[i], Limit', ring')
    BY <2>2 DEF Calls
  <2> QED BY <1>3, <2>2, <2>7, <2>8, KeepShape
<1>5. CASE ~ (ring[This].count # 0 /\ ~ ActionIsRunning(This))
  <2> DEFINE g == Frame("script_loop_ends", This, Args)
  <2>1. Call(<< g >>) /\ UNCHANGED ring
    BY <1>5 DEF ScriptLoop
  <2>2. Sound(g, Limit', ring') /\ g.op # "execute"
    BY <1>2, ScriptFrames
  <2> HIDE DEF g
  <2>3. AtOnce(<< g >>, Limit', ring')
    BY <2>2, CallsFact
  <2>4. Calls(<< g >>, Limit', ring') /\ ~ Starts(<< g >>)
    BY <2>3, CallsFact
  <2> QED BY <1>1, <1>3, <2>1, <2>4, KeepCalls
<1> QED BY <1>4, <1>5

(* The steps that only return, and perhaps enable or disable a loop().     *)
LEMMA ReturnShape ==
  ASSUME ShapeInv, ScriptLoopEnds \/ Processed \/ WalkIsCancelled
  PROVE  ShapeInv'
<1>1. /\ stack # << >> /\ ~ Top("execute") /\ Call(<< >>)
      /\ UNCHANGED << program, num_running, timers, waiting, generation, ring, condition, next_id, stopped >>
  BY DEF ScriptLoopEnds, Processed, WalkIsCancelled, Top, Return
<1>2. EnableLoop(This) \/ DisableLoop(This) \/ loops' = loops
  BY DEF ScriptLoopEnds, Processed, WalkIsCancelled
<1>3. loops' \in [Waits \cup Queued -> {"construction", "loop", "done"}]
  BY <1>2, LoopFact, KeepFact
<1>4. /\ num_running' \in [Actions -> Nat]
      /\ timers' \subseteq [of : Delays, args : Instances]
      /\ waiting' \in [Waits -> Seq(Instances)]
      /\ generation' \in [Untils -> 0 .. 255]
      /\ condition' \in BOOLEAN /\ stopped' \in [Scripts -> Nat]
      /\ \A t \in timers' : Stems(t.of, t.args, Limit', ring')
      /\ \A a \in Waits : \A x \in Range(waiting'[a]) : Stems(a, x, Limit', ring')
  BY <1>1, KeepFact
<1>5. Calls(<< >>, Limit', ring') /\ ~ Starts(<< >>)
  BY NoCalls
<1>6. Advance(<< >>)
  BY <1>1, <1>5, CallFact DEF Calls
<1>7. \A i \in 1 .. Len(<< >>) : AllStem(<< >>[i], Limit', ring')
  BY <1>5 DEF Calls
<1> QED BY <1>1, <1>3, <1>4, <1>6, <1>7, KeepShapeSameRing

(* The steps of the main loop that make no call.                           *)
LEMMA IdleShape ==
  ASSUME ShapeInv, (\E c \in DOMAIN loops : Setup(c)) \/ ConditionChanges
  PROVE  ShapeInv'
<1>1. /\ stack = << >> /\ stack' = stack
      /\ UNCHANGED << program, num_running, timers, waiting, generation, ring, next_id, stopped >>
  BY DEF Setup, ConditionChanges
<1>2. condition' \in BOOLEAN
        /\ loops' \in [Waits \cup Queued -> {"construction", "loop", "done"}]
  <2>1. condition \in BOOLEAN /\ loops \in [Waits \cup Queued -> {"construction", "loop", "done"}]
    BY KeepFact
  <2>2. CASE ConditionChanges
    BY <2>1, <2>2 DEF ConditionChanges
  <2>3. CASE \E c \in DOMAIN loops : Setup(c)
    <3>1. PICK c \in DOMAIN loops : Setup(c)
      BY <2>3
    <3> QED BY <2>1, <3>1 DEF Setup
  <2> QED BY <2>2, <2>3
<1>3. /\ num_running' \in [Actions -> Nat]
      /\ timers' \subseteq [of : Delays, args : Instances]
      /\ waiting' \in [Waits -> Seq(Instances)]
      /\ generation' \in [Untils -> 0 .. 255]
      /\ stopped' \in [Scripts -> Nat]
      /\ \A t \in timers' : Stems(t.of, t.args, Limit', ring')
      /\ \A a \in Waits : \A x \in Range(waiting'[a]) : Stems(a, x, Limit', ring')
  BY <1>1, KeepFact
<1>4. Calls(<< >>, Limit', ring') /\ ~ Starts(<< >>)
  BY NoCalls
<1>5. stack' = << >> \o Below(stack) /\ ~ Top("execute")
  BY <1>1 DEF Below, Top
<1>6. Advance(<< >>)
  BY <1>1, <1>4, <1>5, LaterFact DEF Calls
<1>7. \A i \in 1 .. Len(<< >>) : AllStem(<< >>[i], Limit', ring')
  BY <1>4 DEF Calls
<1> QED BY <1>1, <1>2, <1>3, <1>6, <1>7, KeepShapeSameRing

(* A step of the main loop that calls something.                           *)
LEMMA BeginShape ==
  ASSUME ShapeInv, stack = << >>, NEW fs, stack' = fs,
         fs \in Seq(Frames), Calls(fs, Limit', ring'), ~ Starts(fs), timers' \subseteq timers,
         loops' \in [Waits \cup Queued -> {"construction", "loop", "done"}],
         UNCHANGED << program, num_running, waiting, generation, ring, condition, next_id, stopped >>
  PROVE  ShapeInv' /\ Advance(fs)
<1>1. stack' = fs \o Below(stack) /\ ~ Top("execute")
  BY DEF Below, Top
<1>2. Advance(fs)
  BY <1>1, LaterFact DEF Calls
<1>3. /\ num_running' \in [Actions -> Nat]
      /\ timers' \subseteq [of : Delays, args : Instances]
      /\ waiting' \in [Waits -> Seq(Instances)]
      /\ generation' \in [Untils -> 0 .. 255]
      /\ condition' \in BOOLEAN /\ stopped' \in [Scripts -> Nat]
      /\ \A t \in timers' : Stems(t.of, t.args, Limit', ring')
      /\ \A a \in Waits : \A x \in Range(waiting'[a]) : Stems(a, x, Limit', ring')
  BY KeepFact
<1>4. \A i \in 1 .. Len(fs) : AllStem(fs[i], Limit', ring')
  BY DEF Calls
<1> QED BY <1>2, <1>3, <1>4, KeepShapeSameRing

LEMMA FireShape ==
  ASSUME ShapeInv, NEW t \in timers, Fire(t)
  PROVE  ShapeInv'
<1>1. /\ stack = << >> /\ timers' = timers \ {t} /\ stack' = << Frame("next", t.of, t.args) >>
      /\ UNCHANGED << program, num_running, waiting, generation, ring, loops, condition, next_id, stopped >>
  BY DEF Fire
<1> DEFINE f == Frame("next", t.of, t.args)
<1>2. /\ t.of \in Actions /\ t.args \in Instances /\ Stems(t.of, t.args, Limit', ring')
      /\ loops \in [Waits \cup Queued -> {"construction", "loop", "done"}]
  <2>1. t.of \in Delays /\ t.args \in Instances
    BY KeepFact
  <2> QED BY <2>1, KeepFact DEF Delays, OfKind
<1>3. Sound(f, Limit', ring') /\ f.op = "next"
  BY <1>2, SoundFact DEF Frame
<1> HIDE DEF f
<1>4. AtOnce(<< f >>, Limit', ring')
  BY <1>3, CallsFact
<1>5. Calls(<< f >>, Limit', ring') /\ ~ Starts(<< f >>) /\ << f >> \in Seq(Frames)
  BY <1>4, CallsFact DEF AtOnce
<1>6. stack' = << f >> /\ timers' \subseteq timers
  BY <1>1 DEF f
<1> QED BY <1>1, <1>2, <1>5, <1>6, BeginShape

LEMMA QueuedLoopShape ==
  ASSUME ShapeInv, NEW s \in Queued, QueuedLoop(s)
  PROVE  ShapeInv'
<1>1. /\ stack = << >> /\ stack' = << Frame("script_loop", s, << >>) >>
      /\ UNCHANGED << program, num_running, timers, waiting, generation, ring, loops, condition, next_id, stopped >>
  BY DEF QueuedLoop
<1> DEFINE f == Frame("script_loop", s, << >>)
<1>2. << >> \in Instances
  BY DEF Instances
<1>3. Sound(f, Limit', ring') /\ f.op = "script_loop"
  BY <1>2, ScriptFrames
<1> HIDE DEF f
<1>4. AtOnce(<< f >>, Limit', ring')
  BY <1>3, CallsFact
<1>5. Calls(<< f >>, Limit', ring') /\ ~ Starts(<< f >>) /\ << f >> \in Seq(Frames)
  BY <1>4, CallsFact DEF AtOnce
<1>6. stack' = << f >> /\ timers' \subseteq timers
  BY <1>1 DEF f
<1>7. loops' \in [Waits \cup Queued -> {"construction", "loop", "done"}]
  BY <1>1, KeepFact
<1> QED BY <1>1, <1>5, <1>6, <1>7, BeginShape

LEMMA WaitUntilLoopShape ==
  ASSUME ShapeInv, NEW a \in Waits, WaitUntilLoop(a)
  PROVE  ShapeInv'
<1>1. /\ stack = << >> /\ program.kind[a] = "wait_until"
      /\ stack' = << Frame("process", a, << >>), Frame("disable_unless_waiting", a, << >>) >>
      /\ UNCHANGED << program, num_running, timers, waiting, generation, ring, loops, condition, next_id, stopped >>
  BY DEF WaitUntilLoop
<1> DEFINE f == Frame("process", a, << >>)
           g == Frame("disable_unless_waiting", a, << >>)
<1>2. << >> \in Instances /\ a \in Untils
  BY <1>1 DEF Instances, Untils, Waits, OfKind
<1>3. Sound(f, Limit', ring') /\ f.op = "process" /\ Sound(g, Limit', ring')
      /\ g.op = "disable_unless_waiting"
  BY <1>2, SoundFact DEF Frame
<1>4. Lower(g)
  BY <1>3 DEF Lower
<1> HIDE DEF f, g
<1>5. PICK fs : fs = << f, g >>
  OBVIOUS
<1>6. Calls(fs, Limit', ring') /\ fs[1] = f
  BY <1>3, <1>4, <1>5, CallsFact
<1>7. ~ Starts(fs) /\ fs \in Seq(Frames)
  BY <1>3, <1>6 DEF Starts, Calls, Fits
<1>8. stack' = fs /\ timers' \subseteq timers
  BY <1>1, <1>5 DEF f, g
<1>9. loops' \in [Waits \cup Queued -> {"construction", "loop", "done"}]
  BY <1>1, KeepFact
<1> QED BY <1>1, <1>6, <1>7, <1>8, <1>9, BeginShape

LEMMA StartShape ==
  ASSUME ShapeInv, NEW s \in Scripts, Execute(s)
  PROVE  ShapeInv'
<1>1. /\ stack = << >> /\ stack' = << Frame("execute", s, << next_id >>) >> /\ next_id' = next_id + 1
      /\ UNCHANGED << program, num_running, timers, waiting, generation, ring, loops, condition, stopped >>
  BY DEF Execute
<1> DEFINE f == Frame("execute", s, << next_id >>)
           fs == << f >>
<1>2. next_id \in Nat /\ << next_id >> \in Instances
  BY KeepFact DEF Instances
<1>3. Sound(f, Limit', ring') /\ f.op = "execute" /\ f.args = << next_id >>
  BY <1>2, SoundFact DEF Frame
<1> HIDE DEF f
<1>4. f \in Frames /\ f.op # "pop_front" /\ AllStem(f, Limit', ring')
  BY <1>3 DEF Sound
<1>5. fs \in Seq(Frames) /\ Len(fs) = 1 /\ fs[1] = f /\ fs # << >>
  BY <1>4, FrameFact
<1>6. stack' = fs
  BY <1>1 DEF f
<1> HIDE DEF fs
<1>7. \A i \in 1 .. Len(fs) : i = 1
  BY <1>5
<1>8. Fits(fs, stack)
  BY <1>4, <1>5, <1>7 DEF Fits
<1>9. Advance(fs)
  <2>1. next_id' - 1 = next_id /\ next_id' > next_id /\ next_id' \in Nat
    BY <1>1, <1>2
  <2>2. stack' = fs \o Below(stack)
    BY <1>1, <1>5, <1>6 DEF Below
  <2> QED BY <2>1, <2>2, <1>1, <1>3, <1>5, <1>8 DEF Advance
<1>10. /\ num_running' \in [Actions -> Nat]
       /\ timers' \subseteq [of : Delays, args : Instances]
       /\ waiting' \in [Waits -> Seq(Instances)]
       /\ generation' \in [Untils -> 0 .. 255]
       /\ loops' \in [Waits \cup Queued -> {"construction", "loop", "done"}]
       /\ condition' \in BOOLEAN /\ stopped' \in [Scripts -> Nat]
       /\ \A t \in timers' : Stems(t.of, t.args, Limit', ring')
       /\ \A a \in Waits : \A x \in Range(waiting'[a]) : Stems(a, x, Limit', ring')
  BY <1>1, KeepFact
<1>11. \A i \in 1 .. Len(fs) : AllStem(fs[i], Limit', ring')
  BY <1>4, <1>5, <1>7
<1> QED BY <1>1, <1>9, <1>10, <1>11, KeepShapeSameRing

LEMMA WaitLoopShape ==
  ASSUME ShapeInv, NEW a \in Waits, WaitLoop(a)
  PROVE  ShapeInv'
<1>1. /\ stack = << >> /\ program.kind[a] = "wait" /\ a \in Actions /\ a \in OfKind({"wait"})
      /\ UNCHANGED << program, num_running, timers, waiting, generation, ring, condition, next_id, stopped >>
  BY DEF WaitLoop, Waits, OfKind
<1>2. CASE waiting[a] # << >>
  <2> DEFINE x == Head(waiting[a])
             f == Frame("next", a, x)
             g == Frame("pop_front", a, x)
             fs == << f, g >>
  <2>1. stack' = fs /\ loops' = loops
    BY <1>2 DEF WaitLoop
  <2>2. x \in Instances /\ Stems(a, x, Limit', ring')
    <3>1. waiting[a] \in Seq(Instances) /\ \A y \in Range(waiting[a]) : Stems(a, y, Limit', ring')
      BY KeepFact
    <3>2. 1 \in DOMAIN waiting[a] /\ x = waiting[a][1]
      BY <1>2, <3>1
    <3>3. x \in Range(waiting[a])
      BY <3>2 DEF Range
    <3> QED BY <3>1, <3>2, <3>3
  <2> HIDE DEF x
  <2>3. Sound(f, Limit', ring') /\ f.op = "next"
    BY <1>1, <2>2, SoundFact DEF Frame
  <2>4. g \in Frames /\ g.op = "pop_front"
    BY <1>1, <2>2 DEF Frame, Frames
  <2>5. AllStem(g, Limit', ring') /\ Lower(g)
    BY <2>4 DEF AllStem, CarriedBy, Lower
  <2> HIDE DEF f, g
  <2>6. fs \in Seq(Frames) /\ Len(fs) = 2 /\ fs[1] = f /\ fs[2] = g
    <3>1. f \in Frames
      BY <2>3 DEF Sound
    <3> QED BY <2>4, <3>1, FrameFact
  <2> HIDE DEF fs
  <2>7. \A i \in 1 .. Len(fs) : i = 1 \/ i = 2
    BY <2>6
  <2>8. Fits(fs, stack)
    BY <1>1, <2>3, <2>4, <2>5, <2>6, <2>7 DEF Fits
  <2>9. Calls(fs, Limit', ring')
    BY <2>3, <2>5, <2>6, <2>7, <2>8 DEF Calls, Sound
  <2>10. ~ Starts(fs)
    BY <2>3, <2>6 DEF Starts
  <2>11. timers' \subseteq timers /\ loops' \in [Waits \cup Queued -> {"construction", "loop", "done"}]
    BY <1>1, <2>1, KeepFact
  <2> QED BY <1>1, <2>1, <2>6, <2>9, <2>10, <2>11, BeginShape
<1>3. CASE waiting[a] = << >>
  <2>1. DisableLoop(a) /\ stack' = << >>
    BY <1>1, <1>3 DEF WaitLoop
  <2>2. Calls(<< >>, Limit', ring') /\ ~ Starts(<< >>) /\ << >> \in Seq(Frames)
    BY NoCalls DEF Calls, Fits
  <2>3. loops' \in [Waits \cup Queued -> {"construction", "loop", "done"}]
    BY <2>1, LoopFact
  <2> QED BY <1>1, <2>1, <2>2, <2>3, BeginShape
<1> QED BY <1>2, <1>3

(* A list that waits gets shorter, or longer by what a call held.          *)
LEMMA WaitingShape ==
  ASSUME ShapeInv, stack # << >>, ~ Top("execute"), This \in Waits,
         NEW w \in Seq(Instances), \A x \in Range(w) : x \in Carried(This),
         waiting' = [waiting EXCEPT ![This] = w],
         NEW fs, Call(fs), Calls(fs, Limit', ring'), ~ Starts(fs),
         UNCHANGED << program, num_running, timers, generation, ring, loops, condition, next_id, stopped >>
  PROVE  ShapeInv'
<1>1. Advance(fs)
  BY CallFact DEF Calls
<1>2. /\ waiting \in [Waits -> Seq(Instances)]
      /\ \A a \in Waits : \A x \in Range(waiting[a]) : Stems(a, x, Limit', ring')
  BY KeepFact
<1>3. \A x \in Carried(This) : Stems(This, x, Limit', ring')
  BY StemFact DEF ShapeInv, Waits, OfKind
<1>4. /\ waiting' \in [Waits -> Seq(Instances)]
      /\ \A a \in Waits : \A x \in Range(waiting'[a]) : Stems(a, x, Limit', ring')
  <2>1. waiting' \in [Waits -> Seq(Instances)]
    BY <1>2
  <2>2. waiting'[This] = w /\ \A a \in Waits : a # This => waiting'[a] = waiting[a]
    BY <1>2
  <2> QED BY <2>1, <2>2, <1>2, <1>3
<1>5. /\ num_running' \in [Actions -> Nat]
      /\ timers' \subseteq [of : Delays, args : Instances]
      /\ generation' \in [Untils -> 0 .. 255]
      /\ loops' \in [Waits \cup Queued -> {"construction", "loop", "done"}]
      /\ condition' \in BOOLEAN /\ stopped' \in [Scripts -> Nat]
      /\ \A t \in timers' : Stems(t.of, t.args, Limit', ring')
  BY KeepFact
<1>6. \A i \in 1 .. Len(fs) : AllStem(fs[i], Limit', ring')
  BY DEF Calls
<1> QED BY <1>1, <1>4, <1>5, <1>6, KeepShapeSameRing

LEMMA PopFrontShape ==
  ASSUME ShapeInv, PopFront
  PROVE  ShapeInv'
<1>1. /\ stack # << >> /\ stack[1].op = "pop_front" /\ ~ Top("execute") /\ Call(<< >>)
      /\ waiting[This] # << >> /\ waiting' = [waiting EXCEPT ![This] = Tail(@)]
      /\ UNCHANGED << program, num_running, timers, generation, ring, loops, condition, next_id, stopped >>
  BY DEF PopFront, Top, Return
<1>2. This \in Waits /\ waiting \in [Waits -> Seq(Instances)]
  BY <1>1, TopFact, KeepFact DEF Waits, OfKind
<1>3. PICK q : q = waiting[This]
  OBVIOUS
<1>4. q \in Seq(Instances) /\ q # << >>
  BY <1>1, <1>2, <1>3
<1>5. Tail(q) \in Seq(Instances) /\ \A x \in Range(Tail(q)) : x \in Range(q)
  <2>1. Tail(q) \in Seq(Instances) /\ \A i \in DOMAIN Tail(q) : i + 1 \in DOMAIN q /\ Tail(q)[i] = q[i + 1]
    BY <1>4
  <2> QED BY <2>1 DEF Range
<1>6. \A x \in Range(Tail(q)) : x \in Carried(This)
  BY <1>2, <1>3, <1>5 DEF Carried, Listed
<1>7. waiting' = [waiting EXCEPT ![This] = Tail(q)]
  BY <1>1, <1>2, <1>3
<1>8. Calls(<< >>, Limit', ring') /\ ~ Starts(<< >>)
  BY NoCalls
<1> QED BY <1>1, <1>2, <1>5, <1>6, <1>7, <1>8, WaitingShape

LEMMA WalkFact ==
  ASSUME NEW a \in Untils, NEW q \in Seq(Instances), NEW p \in Seq(Instances),
         NEW n \in 0 .. 255, NEW l, NEW r,
         \A x \in Range(q) \cup Range(p) : Stems(a, x, l, r)
  PROVE  /\ Sound(Walk(a, q, p, n), l, r) /\ Lower(Walk(a, q, p, n))
         /\ Walk(a, q, p, n).op = "walk"
<1>1. /\ Walk(a, q, p, n) \in Frames /\ Walk(a, q, p, n).op = "walk"
  BY DEF Walk, Frames
<1>2. \A b \in Actions : \A y \in CarriedBy(Walk(a, q, p, n), b) :
        b = a /\ y \in Range(q) \cup Range(p)
  BY DEF Walk, CarriedBy
<1>3. AllStem(Walk(a, q, p, n), l, r)
  BY <1>2 DEF AllStem
<1> QED BY <1>1, <1>3 DEF Sound, Lower

LEMMA ProcessQueueShape ==
  ASSUME ShapeInv, ProcessQueue
  PROVE  ShapeInv'
<1>1. /\ stack # << >> /\ stack[1].op = "process" /\ ~ Top("execute")
      /\ Call(<< Walk(This, waiting[This], << >>, generation[This]) >>)
      /\ waiting' = [waiting EXCEPT ![This] = << >>]
      /\ UNCHANGED << program, num_running, timers, generation, ring, loops, condition, next_id, stopped >>
  BY DEF ProcessQueue, Top
<1>2. This \in Waits /\ This \in Untils
  BY <1>1, TopFact DEF Waits, Untils, OfKind
<1>3. /\ waiting[This] \in Seq(Instances) /\ generation[This] \in 0 .. 255
      /\ \A x \in Range(waiting[This]) : Stems(This, x, Limit', ring')
  BY <1>2, KeepFact
<1>4. << >> \in Seq(Instances) /\ Range(<< >>) = {}
  BY DEF Range
<1> DEFINE f == Walk(This, waiting[This], << >>, generation[This])
<1>5. Sound(f, Limit', ring') /\ f.op = "walk"
  <2>1. PICK a, q, p, n, l, r : /\ a = This /\ q = waiting[This] /\ p = << >>
                                /\ n = generation[This] /\ l = Limit' /\ r = ring'
    OBVIOUS
  <2>2. a \in Untils /\ q \in Seq(Instances) /\ p \in Seq(Instances) /\ n \in 0 .. 255
    BY <1>2, <1>3, <1>4, <2>1
  <2>3. \A x \in Range(q) \cup Range(p) : Stems(a, x, l, r)
    BY <1>3, <1>4, <2>1
  <2>4. Sound(Walk(a, q, p, n), l, r) /\ Walk(a, q, p, n).op = "walk"
    BY ONLY <2>2, <2>3, WalkFact
  <2> QED BY <2>1, <2>4
<1> HIDE DEF f
<1>6. AtOnce(<< f >>, Limit', ring')
  BY <1>5, CallsFact
<1>7. Calls(<< f >>, Limit', ring') /\ ~ Starts(<< f >>)
  BY <1>6, CallsFact
<1>8. Call(<< f >>)
  BY <1>1 DEF f
<1> QED BY <1>1, <1>2, <1>4, <1>7, <1>8, WaitingShape

LEMMA WalkTop ==
  ASSUME ShapeInv, Walks, NEW l, NEW r
  PROVE  /\ stack # << >> /\ stack[1].op = "walk" /\ ~ Top("execute")
         /\ This \in Untils /\ This \in Waits /\ This \in Actions
         /\ stack[1].queue \in Seq(Instances) /\ stack[1].pending \in Seq(Instances)
         /\ generation[This] \in 0 .. 255
         /\ \A x \in Range(stack[1].queue) \cup Range(stack[1].pending) :
              x \in Carried(This) /\ Stems(This, x, l, r)
<1>1. stack # << >> /\ stack[1].op = "walk" /\ ~ Top("execute")
  BY DEF Walks, Top
<1>2. /\ This \in Untils /\ This \in Waits /\ This \in Actions /\ 1 \in DOMAIN stack
      /\ stack[1].queue \in Seq(Instances) /\ stack[1].pending \in Seq(Instances)
  BY <1>1, TopFact DEF Waits, Untils, OfKind
<1>3. generation[This] \in 0 .. 255
  BY <1>2, KeepFact
<1>4. CarriedBy(stack[1], This) = Range(stack[1].queue) \cup Range(stack[1].pending)
  BY <1>1 DEF CarriedBy, This
<1>5. CarriedBy(stack[1], This) \subseteq Carried(This)
  BY <1>2 DEF Carried, OnStack
<1>6. \A x \in Carried(This) : Stems(This, x, l, r)
  BY <1>2, StemFact DEF ShapeInv
<1> QED BY <1>1, <1>2, <1>3, <1>4, <1>5, <1>6

LEMMA WalkSteps ==
  ASSUME ShapeInv, WalkKeeps \/ WalkResumes
  PROVE  ShapeInv'
<1>1. /\ Walks /\ stack[1].queue # << >>
      /\ UNCHANGED << program, num_running, timers, waiting, generation, ring, loops, condition, next_id, stopped >>
  BY DEF WalkKeeps, WalkResumes
<1>2. /\ stack # << >> /\ This \in Untils /\ This \in Actions
      /\ stack[1].queue \in Seq(Instances) /\ stack[1].pending \in Seq(Instances)
      /\ generation[This] \in 0 .. 255
      /\ \A x \in Range(stack[1].queue) \cup Range(stack[1].pending) :
           x \in Carried(This) /\ Stems(This, x, Limit', ring')
  BY <1>1, WalkTop
<1>3. PICK q, p : q = stack[1].queue /\ p = stack[1].pending
  OBVIOUS
<1>4. q \in Seq(Instances) /\ p \in Seq(Instances) /\ q # << >>
  BY <1>1, <1>2, <1>3
<1>5. Head(q) \in Instances /\ Tail(q) \in Seq(Instances) /\ Append(p, Head(q)) \in Seq(Instances)
  BY <1>4
<1>6. /\ Head(q) \in Range(q) /\ \A x \in Range(Tail(q)) : x \in Range(q)
      /\ \A x \in Range(Append(p, Head(q))) : x \in Range(p) \cup Range(q)
  <2>1. 1 \in DOMAIN q /\ Head(q) = q[1]
    BY <1>4
  <2>2. \A i \in DOMAIN Tail(q) : i + 1 \in DOMAIN q /\ Tail(q)[i] = q[i + 1]
    BY <1>4
  <2>3. \A y \in Instances : \A i \in DOMAIN Append(p, y) :
          (i \in DOMAIN p /\ Append(p, y)[i] = p[i]) \/ Append(p, y)[i] = y
    BY <1>4
  <2>4. Head(q) \in Range(q)
    BY <2>1 DEF Range
  <2>5. \A x \in Range(Append(p, Head(q))) : x \in Range(p) \cup Range(q)
    BY <1>5, <2>3, <2>4 DEF Range
  <2> QED BY <2>2, <2>4, <2>5 DEF Range
<1>7. num_running' \in [Actions -> Nat]
  BY <1>1, KeepFact
<1>8. CASE WalkKeeps
  <2> DEFINE f == Walk(This, Tail(q), Append(p, Head(q)), generation[This])
  <2>1. Call(<< f >>)
    BY <1>3, <1>8 DEF WalkKeeps
  <2>2. Sound(f, Limit', ring') /\ f.op = "walk"
    <3>1. \A x \in Range(Tail(q)) \cup Range(Append(p, Head(q))) : Stems(This, x, Limit', ring')
      BY <1>2, <1>3, <1>6
    <3>2. PICK a, b, c, n, l, r : /\ a = This /\ b = Tail(q) /\ c = Append(p, Head(q))
                                  /\ n = generation[This] /\ l = Limit' /\ r = ring'
      OBVIOUS
    <3>3. a \in Untils /\ b \in Seq(Instances) /\ c \in Seq(Instances) /\ n \in 0 .. 255
      BY <1>2, <1>5, <3>2
    <3>4. \A x \in Range(b) \cup Range(c) : Stems(a, x, l, r)
      BY <3>1, <3>2
    <3>5. Sound(Walk(a, b, c, n), l, r) /\ Walk(a, b, c, n).op = "walk"
      BY ONLY <3>3, <3>4, WalkFact
    <3> QED BY <3>2, <3>5
  <2> HIDE DEF f
  <2>3. AtOnce(<< f >>, Limit', ring')
    BY <2>2, CallsFact
  <2>4. Calls(<< f >>, Limit', ring') /\ ~ Starts(<< f >>)
    BY <2>3, CallsFact
  <2> QED BY <1>1, <1>2, <1>7, <2>1, <2>4, KeepCalls
<1>9. CASE WalkResumes
  <2> DEFINE f == Frame("next", This, Head(q))
             g == Walk(This, Tail(q), p, generation[This])
  <2>1. Call(<< f, g >>)
    BY <1>3, <1>9 DEF WalkResumes
  <2>2. Sound(g, Limit', ring') /\ Lower(g)
    <3>1. \A x \in Range(Tail(q)) \cup Range(p) : Stems(This, x, Limit', ring')
      BY <1>2, <1>3, <1>6
    <3> QED BY <1>2, <1>4, <1>5, <3>1, WalkFact
  <2>3. Sound(f, Limit', ring') /\ f.op = "next"
    <3>1. Stems(This, Head(q), Limit', ring')
      BY <1>2, <1>3, <1>6
    <3> QED BY <1>2, <1>5, <3>1, SoundFact DEF Frame
  <2> HIDE DEF f, g
  <2>4. PICK fs : fs = << f, g >>
    OBVIOUS
  <2>5. Calls(fs, Limit', ring') /\ fs[1] = f
    BY <2>2, <2>3, <2>4, CallsFact
  <2>6. ~ Starts(fs)
    BY <2>3, <2>5 DEF Starts
  <2> QED BY <1>1, <1>2, <1>7, <2>1, <2>4, <2>5, <2>6, KeepCalls
<1> QED BY <1>8, <1>9

LEMMA WalkEndsShape ==
  ASSUME ShapeInv, WalkEnds
  PROVE  ShapeInv'
<1>1. /\ Walks /\ Call(<< >>)
      /\ waiting' = [waiting EXCEPT ![This] = stack[1].pending \o @]
      /\ UNCHANGED << program, num_running, timers, generation, ring, loops, condition, next_id, stopped >>
  BY DEF WalkEnds, Return
<1>2. /\ stack # << >> /\ ~ Top("execute") /\ This \in Waits /\ This \in Actions
      /\ stack[1].pending \in Seq(Instances)
      /\ \A x \in Range(stack[1].pending) : x \in Carried(This)
  BY <1>1, WalkTop
<1>3. PICK q, p : q = waiting[This] /\ p = stack[1].pending
  OBVIOUS
<1>4. waiting \in [Waits -> Seq(Instances)]
  BY KeepFact
<1>5. p \in Seq(Instances) /\ q \in Seq(Instances)
  BY <1>2, <1>3, <1>4
<1>6. p \o q \in Seq(Instances) /\ \A x \in Range(p \o q) : x \in Range(p) \cup Range(q)
  <2>1. p \o q \in Seq(Instances) /\ \A i \in DOMAIN (p \o q) :
          \/ i \in DOMAIN p /\ (p \o q)[i] = p[i]
          \/ i - Len(p) \in DOMAIN q /\ (p \o q)[i] = q[i - Len(p)]
    BY <1>5
  <2> QED BY <2>1 DEF Range
<1>7. \A x \in Range(p \o q) : x \in Carried(This)
  BY <1>2, <1>3, <1>6 DEF Carried, Listed
<1>8. waiting' = [waiting EXCEPT ![This] = p \o q]
  BY <1>1, <1>3, <1>4
<1>9. Calls(<< >>, Limit', ring') /\ ~ Starts(<< >>)
  BY NoCalls
<1> QED BY <1>1, <1>2, <1>6, <1>7, <1>8, <1>9, WaitingShape

(* The state that the device starts in.                                    *)
Restarted ==
  /\ program \in Programs /\ condition \in BOOLEAN
  /\ num_running = Fresh.num_running /\ stack = << >> /\ timers = {}
  /\ waiting = Fresh.waiting /\ generation = Fresh.generation
  /\ ring = Fresh.ring /\ loops = Fresh.loops
  /\ next_id = 1 /\ stopped = Fresh.stopped

LEMMA RestartedShape == Restarted => ShapeInv
<1> SUFFICES ASSUME Restarted PROVE ShapeInv
  OBVIOUS
<1> USE DEF Restarted
<1>1. Limit = 1 /\ ~ Top("execute")
  BY DEF Limit, Top
<1>2. TypeInv
  <2>1. GoodStack(stack)
    BY DEF GoodStack
  <2>2. /\ num_running \in [Actions -> Nat]
        /\ waiting \in [Waits -> Seq(Instances)]
        /\ generation \in [Untils -> 0 .. 255]
        /\ loops \in [Waits \cup Queued -> {"construction", "loop", "done"}]
        /\ stopped \in [Scripts -> Nat]
    BY DEF Fresh, Untils
  <2> QED BY <1>1, <2>1, <2>2 DEF TypeInv
<1>3. InstanceInv
  <2> SUFFICES ASSUME NEW a \in Actions PROVE Carried(a) = {}
    BY DEF InstanceInv
  <2>1. Listed(waiting, a) = {}
    BY DEF Listed, Fresh, Range
  <2>2. OnStack(stack, a) = {} /\ Timed(timers, a) = {}
    BY DEF OnStack, Timed
  <2> QED BY <2>1, <2>2 DEF Carried
<1>4. RingInv
  <2>1. ring = [s \in Queued |-> EmptyRing(s)]
    BY DEF Fresh
  <2>2. \A s \in Queued : Ordered(EmptyRing(s), Capacity(s), Limit)
    BY <1>1, EmptyOrdered, ProgramFact
  <2> QED BY <2>1, <2>2 DEF RingInv
<1> QED BY <1>2, <1>3, <1>4 DEF ShapeInv

LEMMA PopFrontOfNoneRestarts == ShapeInv /\ PopFrontOfNone => Restarted'
<1> SUFFICES ASSUME ShapeInv, PopFrontOfNone PROVE Restarted'
  OBVIOUS
<1>1. Fresh' = Fresh
  BY DEF PopFrontOfNone, Fresh, Actions, Scripts, Waits, OfKind, Queued, EmptyRing, Capacity
<1> QED BY <1>1 DEF PopFrontOfNone, Restarted, ShapeInv, TypeInv

LEMMA PopFrontOfNoneShape == ShapeInv /\ PopFrontOfNone => ShapeInv'
<1>1. ShapeInv /\ PopFrontOfNone => Restarted'
  BY PopFrontOfNoneRestarts
<1>2. Restarted' => ShapeInv'
  BY RestartedShape, PTL
<1> QED BY <1>1, <1>2
-----------------------------------------------------------------------------
LEMMA SameShape ==
  ASSUME ShapeInv, UNCHANGED vars
  PROVE  ShapeInv'
<1> USE DEF vars
<1>1. /\ Actions' = Actions /\ Scripts' = Scripts /\ Waits' = Waits /\ Queued' = Queued
      /\ Untils' = Untils /\ Delays' = Delays /\ Limit' = Limit /\ Frames' = Frames
      /\ Args' = Args /\ Top("execute")' = Top("execute")
      /\ \A s : Capacity(s)' = Capacity(s)
  BY DEF Actions, Scripts, Waits, OfKind, Queued, Untils, Delays, Limit, Top, Args, Capacity, Frames
<1>2. TypeInv'
  BY <1>1 DEF ShapeInv, TypeInv, GoodStack, Lower
<1>3. InstanceInv'
  <2>1. \A a \in Actions : Carried(a)' = Carried(a)
    BY <1>1 DEF Carried, Timed, Listed, OnStack, CarriedBy
  <2> QED BY <1>1, <2>1 DEF ShapeInv, InstanceInv, Older
<1>4. RingInv'
  BY <1>1 DEF ShapeInv, RingInv
<1> QED BY <1>2, <1>3, <1>4 DEF ShapeInv

(* Every step of the model.                                                *)
LEMMA RunsShape ==
  ASSUME ShapeInv, Runs
  PROVE  ShapeInv'
<1>1. CASE PlayNext
  BY <1>1, PlayNextShape
<1>2. CASE PlayExecute \/ PlayStop \/ PlayDelay \/ PlayWait \/ PlayWaitUntil
  BY <1>2, PlayExecuteShape, PlayStopShape, PlayDelayShape, PlayWaitShape, PlayWaitUntilShape
<1>3. CASE PlayIf \/ PlayWhile \/ PlayRepeat \/ PlayContinuation
  BY <1>3, PlayIfShape, PlayWhileShape, PlayRepeatShape, PlayContinuationShape
<1>4. CASE ExecuteSingle \/ ExecuteRestart \/ ExecuteParallel \/ ExecuteQueued
  BY <1>4, ExecuteShape, ExecuteRestartShape, ExecuteQueuedShape
<1>5. CASE ScriptLoop \/ ScriptLoopEnds \/ Processed \/ WalkIsCancelled
  BY <1>5, ScriptLoopShape, ReturnShape
<1>6. CASE PopFront \/ PopFrontOfNone
  BY <1>6, PopFrontShape, PopFrontOfNoneShape
<1>7. CASE ProcessQueue \/ WalkKeeps \/ WalkResumes \/ WalkEnds
  BY <1>7, ProcessQueueShape, WalkSteps, WalkEndsShape
<1> QED BY <1>1, <1>2, <1>3, <1>4, <1>5, <1>6, <1>7 DEF Runs

LEMMA NextShape ==
  ASSUME ShapeInv, [Next]_vars
  PROVE  ShapeInv'
<1>1. CASE Runs
  BY <1>1, RunsShape
<1>2. CASE \E t \in timers : Fire(t)
  BY <1>2, FireShape
<1>3. CASE (\E c \in DOMAIN loops : Setup(c)) \/ ConditionChanges
  BY <1>3, IdleShape
<1>4. CASE \E a \in Waits : WaitLoop(a) \/ WaitUntilLoop(a)
  BY <1>4, WaitLoopShape, WaitUntilLoopShape
<1>5. CASE \E s \in Queued : QueuedLoop(s)
  BY <1>5, QueuedLoopShape
<1>6. CASE \E s \in Scripts : Execute(s) \/ Stop(s)
  BY <1>6, StartShape, StopShape
<1>7. CASE UNCHANGED vars
  BY <1>7, SameShape
<1> QED BY <1>1, <1>2, <1>3, <1>4, <1>5, <1>6, <1>7 DEF Next

LEMMA ShapeIsKept == Spec => []ShapeInv
<1>1. Init => ShapeInv
  <2>1. Init => Restarted
    BY DEF Init, Restarted
  <2> QED BY <2>1, RestartedShape
<1>2. ShapeInv /\ [Next]_vars => ShapeInv'
  BY NextShape
<1> QED BY <1>1, <1>2, PTL DEF Spec

(* Every variable keeps its type, whatever the actions of a program start, *)
(* stop and resume: generation stays a byte, a ring its size, and what     *)
(* waits or is queued has arguments.                                       *)
THEOREM TypeCorrect == Spec => []TypeOK
<1>1. ShapeInv => TypeOK
  <2> SUFFICES ASSUME ShapeInv PROVE TypeOK
    OBVIOUS
  <2>1. \A t \in timers : program.kind[t.of] = "delay" /\ t.args \in Seq(Nat)
    BY DEF ShapeInv, TypeInv, Delays, OfKind, Instances
  <2>2. \A s \in Queued :
          /\ ring[s].slots \in [0 .. Capacity(s) - 1 -> Seq(Nat)]
          /\ ring[s].count \in 0 .. Capacity(s)
          /\ ring[s].front = 0 \/ ring[s].front < Capacity(s)
    BY DEF ShapeInv, RingInv, Ordered, Rings, Instances
  <2> QED BY <2>1, <2>2 DEF ShapeInv, TypeInv, TypeOK, Instances, Untils
<1> QED BY <1>1, ShapeIsKept, PTL

(* The ring of a queued script is first come, first served: its instances  *)
(* are in the order they were asked for and after the one that runs, and   *)
(* its free slots are empty, though the script may be stopped, or execute  *)
(* and stop itself, at any moment of loop().                               *)
THEOREM QueueKeepsOrder == Spec => []QueueOrderIsKept
<1>1. ShapeInv => QueueOrderIsKept
  <2> SUFFICES ASSUME ShapeInv, NEW s \in Queued
               PROVE  /\ \A k \in DOMAIN ring[s].slots :
                           ring[s].slots[k] # << >>
                             <=> \E i \in 1 .. ring[s].count : k = Place(s, i)
                      /\ LET ids == [i \in DOMAIN InRing(s) |-> Id(InRing(s)[i])]
                         IN  /\ Ascending(ids)
                             /\ \A run \in Suspended(s) : \A id \in Range(ids) : run < id
    BY DEF QueueOrderIsKept
  <2> DEFINE r == ring[s]
             c == Capacity(s)
             ids == [i \in DOMAIN InRing(s) |-> Id(InRing(s)[i])]
  <2>1. Ordered(r, c, Limit)
    BY DEF ShapeInv, RingInv
  <2>2. /\ s \in Scripts /\ program \in Programs
        /\ \A i : Place(s, i) = Spot(r, c, i)
    BY DEF ShapeInv, TypeInv, Queued, Place, Spot
  <2>3. DOMAIN InRing(s) = 1 .. r.count
        /\ \A i \in 1 .. r.count : InRing(s)[i] = r.slots[Spot(r, c, i)]
    BY <2>2 DEF InRing
  <2>4. r \in Rings(c) /\ DOMAIN r.slots = 0 .. c - 1
    BY <2>1 DEF Ordered, Rings
  <2>5. Ascending(ids)
    BY <2>1, <2>3 DEF Ordered, Ascending
  <2>6. \A i \in 1 .. r.count : Spot(r, c, i) \in 0 .. c - 1 /\ r.slots[Spot(r, c, i)] # << >>
    <3>1. \A i \in 1 .. r.count : i \in 1 .. c
      BY <2>2, <2>4, ProgramFact DEF Rings, Queued, Capacity
    <3>2. \A i \in 1 .. r.count : Spot(r, c, i) \in 0 .. c - 1
      BY <2>1, <2>4, <3>1, SpotsFact, EmptyOrdered, <2>2 DEF Ordered
    <3> QED BY <2>1, <3>2 DEF Ordered
  <2>7. ASSUME NEW run \in Suspended(s), NEW id \in Range(ids)
        PROVE  run < id
    <3>1. PICK i \in 1 .. r.count : id = Id(r.slots[Spot(r, c, i)])
      BY <2>3 DEF Range
    <3>2. PICK t \in timers : t.of \in Range(program.chain[s]) /\ run = Id(t.args)
      BY DEF Suspended
    <3>3. t.of \in Actions /\ t.args \in Carried(t.of)
      BY <3>2, <2>2, ListFact DEF Carried, Timed
    <3>4. program.script[t.of] = s
      BY <3>2, <2>2, LinkFact
    <3>5. Older(t.of, t.args, ring)
      BY <3>3 DEF ShapeInv, InstanceInv
    <3> QED BY <3>1, <3>2, <3>4, <3>5, <2>6 DEF Older
  <2> QED BY <2>1, <2>2, <2>4, <2>5, <2>7 DEF Ordered
<1> QED BY <1>1, ShapeIsKept, PTL
-----------------------------------------------------------------------------
(* Counting: one pair for every instance that an action counts.            *)
LEMMA CountLess ==
  ASSUME NEW A, NEW num \in [A -> Nat], NEW new \in [A -> Nat],
         \A a \in A : new[a] <= num[a], IsFiniteSet(Pairs(A, num))
  PROVE  /\ IsFiniteSet(Pairs(A, new))
         /\ \A S \in SUBSET A : /\ Cardinality(Pairs(S, new)) \in Nat
                                /\ Cardinality(Pairs(S, num)) \in Nat
                                /\ Cardinality(Pairs(S, new)) <= Cardinality(Pairs(S, num))
<1>1. ASSUME NEW S \in SUBSET A
      PROVE  Pairs(S, new) \in SUBSET Pairs(S, num) /\ Pairs(S, num) \in SUBSET Pairs(A, num)
  <2>1. \A a \in A : 1 .. new[a] \subseteq 1 .. num[a]
    OBVIOUS
  <2> QED BY <2>1 DEF Pairs
<1>2. IsFiniteSet(Pairs(A, new))
  <2>1. Pairs(A, new) \in SUBSET Pairs(A, num)
    BY <1>1
  <2> QED BY <2>1, FS_Subset
<1>3. ASSUME NEW S \in SUBSET A
      PROVE  /\ Cardinality(Pairs(S, new)) \in Nat /\ Cardinality(Pairs(S, num)) \in Nat
             /\ Cardinality(Pairs(S, new)) <= Cardinality(Pairs(S, num))
  <2> DEFINE P == Pairs(S, num)
             Q == Pairs(S, new)
  <2>1. Q \in SUBSET P /\ P \in SUBSET Pairs(A, num)
    BY <1>1
  <2> HIDE DEF P, Q
  <2>2. IsFiniteSet(P)
    BY <2>1, FS_Subset
  <2>3. IsFiniteSet(Q) /\ Cardinality(Q) <= Cardinality(P)
    BY <2>1, <2>2, FS_Subset
  <2>4. Cardinality(Q) \in Nat /\ Cardinality(P) \in Nat
    BY <2>2, <2>3, FS_CardinalityType
  <2> QED BY <2>3, <2>4 DEF P, Q
<1> QED BY <1>2, <1>3

LEMMA CountAdd ==
  ASSUME NEW A, NEW num \in [A -> Nat], NEW b \in A, NEW new \in [A -> Nat],
         new[b] = num[b] + 1, \A a \in A : a # b => new[a] = num[a], IsFiniteSet(Pairs(A, num))
  PROVE  /\ IsFiniteSet(Pairs(A, new))
         /\ \A S \in SUBSET A : /\ Cardinality(Pairs(S, num)) \in Nat
                                /\ Cardinality(Pairs(S, new))
                                     = Cardinality(Pairs(S, num)) + One(b \in S)
<1> DEFINE pair == << b, num[b] + 1 >>
<1>1. \A S \in SUBSET A : Pairs(S, num) \in SUBSET Pairs(A, num)
  BY DEF Pairs
<1>2. \A S \in SUBSET A : IsFiniteSet(Pairs(S, num))
  BY <1>1, FS_Subset
<1>3. ASSUME NEW S \in SUBSET A, b \in S
      PROVE  Pairs(S, new) = Pairs(S, num) \cup {pair} /\ pair \notin Pairs(S, num)
  <2>1. 1 .. new[b] = (1 .. num[b]) \cup {num[b] + 1} /\ num[b] + 1 \notin 1 .. num[b]
    BY SMT
  <2>2. \A z : z \in Pairs(S, new) <=> \E a \in S : \E k \in 1 .. new[a] : z = << a, k >>
    BY DEF Pairs
  <2>3. \A z : z \in Pairs(S, num) <=> \E a \in S : \E k \in 1 .. num[a] : z = << a, k >>
    BY DEF Pairs
  <2>4. ASSUME NEW z, z \in Pairs(S, new) PROVE z \in Pairs(S, num) \cup {pair}
    <3>1. PICK a \in S : \E k \in 1 .. new[a] : z = << a, k >>
      BY <2>2, <2>4
    <3>2. PICK k \in 1 .. new[a] : z = << a, k >>
      BY <3>1
    <3>3. k \in 1 .. num[a] \/ (a = b /\ k = num[b] + 1)
      OBVIOUS
    <3> QED BY <2>3, <3>2, <3>3
  <2>5. ASSUME NEW z, z \in Pairs(S, num) \cup {pair} PROVE z \in Pairs(S, new)
    <3>1. CASE z = pair
      <4>1. num[b] + 1 \in 1 .. new[b]
        BY <2>1
      <4> QED BY <1>3, <3>1, <4>1, <2>2
    <3>2. CASE z \in Pairs(S, num)
      <4>1. PICK a \in S : \E k \in 1 .. num[a] : z = << a, k >>
        BY <2>3, <3>2
      <4>2. 1 .. num[a] \subseteq 1 .. new[a]
        OBVIOUS
      <4> QED BY <2>2, <4>1, <4>2
    <3> QED BY <2>5, <3>1, <3>2
  <2>6. pair \notin Pairs(S, num)
    BY <2>1, <2>3
  <2> HIDE DEF pair
  <2> QED BY <2>4, <2>5, <2>6
<1>4. ASSUME NEW S \in SUBSET A, b \notin S
      PROVE  Pairs(S, new) = Pairs(S, num)
  BY <1>4 DEF Pairs
<1> HIDE DEF pair
<1>5. ASSUME NEW S \in SUBSET A
      PROVE  /\ IsFiniteSet(Pairs(S, new)) /\ Cardinality(Pairs(S, num)) \in Nat
             /\ Cardinality(Pairs(S, new)) = Cardinality(Pairs(S, num)) + One(b \in S)
  <2> DEFINE P == Pairs(S, num)
             Q == Pairs(S, new)
  <2>1. IsFiniteSet(P)
    BY <1>2
  <2>2. b \in S => Q = P \cup {pair} /\ pair \notin P
    BY <1>3
  <2>3. b \notin S => Q = P
    BY <1>4
  <2> HIDE DEF P, Q
  <2>4. Cardinality(P) \in Nat
    BY <2>1, FS_CardinalityType
  <2>5. IsFiniteSet(P \cup {pair}) /\ (pair \notin P => Cardinality(P \cup {pair}) = Cardinality(P) + 1)
    BY <2>1, FS_AddElement
  <2>6. IsFiniteSet(Q) /\ Cardinality(Q) = Cardinality(P) + One(b \in S)
    BY <2>1, <2>2, <2>3, <2>4, <2>5 DEF One
  <2> QED BY <2>4, <2>6 DEF P, Q
<1> QED BY <1>5

LEMMA CountZero ==
  ASSUME NEW S, NEW num, \A a \in S : ~ (num[a] > 0) /\ num[a] \in Nat
  PROVE  Cardinality(Pairs(S, num)) = 0
<1>1. \A a \in S : 1 .. num[a] = {}
  OBVIOUS
<1>2. Pairs(S, num) = {}
  BY <1>1 DEF Pairs
<1> QED BY <1>2, FS_EmptySet

(* How many instances a script runs, and how a step may change that.       *)
LEMMA RunningFact ==
  ASSUME ShapeInv, LimitsInv, NEW s \in Scripts
  PROVE  /\ Range(program.chain[s]) \in SUBSET Actions
         /\ NumRunning(s) = Cardinality(Pairs(Range(program.chain[s]), num_running))
         /\ NumRunning(s) \in Nat
         /\ ~ ActionIsRunning(s) => NumRunning(s) = 0
<1>1. Range(program.chain[s]) \in SUBSET Actions /\ num_running \in [Actions -> Nat]
  BY ListFact, KeepFact
<1>2. NumRunning(s) = Cardinality(Pairs(Range(program.chain[s]), num_running))
  BY DEF NumRunning, Counted, Pairs
<1>3. NumRunning(s) \in Nat
  <2>1. IsFiniteSet(Pairs(Actions, num_running))
    BY DEF LimitsInv
  <2>2. \A a \in Actions : num_running[a] <= num_running[a]
    BY <1>1
  <2> QED BY <1>1, <1>2, <2>1, <2>2, CountLess
<1>4. ~ ActionIsRunning(s) => NumRunning(s) = 0
  <2> SUFFICES ASSUME ~ ActionIsRunning(s) PROVE NumRunning(s) = 0
    OBVIOUS
  <2>1. \A a \in Range(program.chain[s]) : ~ (num_running[a] > 0) /\ num_running[a] \in Nat
    BY <1>1 DEF ActionIsRunning
  <2> QED BY <1>2, <2>1, CountZero
<1> QED BY <1>1, <1>2, <1>3, <1>4

(* The innermost call after a step, and calls that are not those of the    *)
(* first action of a script.                                               *)
IsList(fs) == \E S : fs \in Seq(S)
Light(fs) == /\ IsList(fs)
             /\ fs # << >> /\ fs[1].op = "play" => \E P \in Actions : fs[1].of \in Inside(P)

LEMMA NewTop ==
  ASSUME ShapeInv, NEW fs, IsList(fs), NEW new, new = fs \o Below(stack)
  PROVE  /\ fs # << >> => new # << >> /\ new[1] = fs[1]
         /\ fs = << >> /\ new # << >> => Lower(new[1])
<1>1. GoodStack(stack) /\ stack \in Seq(Frames)
  BY DEF ShapeInv, TypeInv, GoodStack
<1>2. Below(stack) \in Seq(Frames)
  BY <1>1 DEF Below
<1>3. CASE fs = << >>
  <2>1. new = Below(stack)
    BY <1>2, <1>3
  <2>2. new # << >> => 2 \in 2 .. Len(stack) /\ new[1] = stack[2]
    BY <1>1, <2>1 DEF Below
  <2> QED BY <1>1, <1>3, <2>2 DEF GoodStack
<1>4. CASE fs # << >>
  <2>1. PICK S : fs \in Seq(S)
    BY DEF IsList
  <2>2. fs \in Seq(S \cup Frames) /\ Below(stack) \in Seq(S \cup Frames)
    BY <1>2, <2>1
  <2> QED BY <1>4, <2>2
<1> QED BY <1>3, <1>4

LEMMA LightFact ==
  /\ Light(<< >>)
  /\ \A f, g : IsList(<< f >>) /\ IsList(<< f, g >>)
  /\ \A f : f.op # "play" => Light(<< f >>) /\ \A g : Light(<< f, g >>)
  /\ \A p : \A P \in Actions : Resumes(p, P) =>
       Light(p) /\ \A g : g.op # "play" => Light(p \o << g >>)
<1>1. IsList(<< >>)
  <2>1. << >> \in Seq({})
    OBVIOUS
  <2> QED BY <2>1 DEF IsList
<1>2. ASSUME NEW f, NEW g
      PROVE  IsList(<< f >>) /\ IsList(<< f, g >>)
  <2> DEFINE S == {f, g}
  <2>1. f \in S /\ g \in S
    OBVIOUS
  <2> HIDE DEF S
  <2>2. << f >> \in Seq(S)
    BY <2>1
  <2>3. << f, g >> \in Seq(S)
    BY <2>1
  <2> QED BY <2>2, <2>3 DEF IsList
<1>3. ASSUME NEW p, NEW P \in Actions, Resumes(p, P)
      PROVE  Light(p) /\ \A g : g.op # "play" => Light(p \o << g >>)
  <2>1. p \in Seq(Frames)
    BY <1>3 DEF Resumes, AtOnce
  <2>2. Light(p)
    BY <1>3, <2>1 DEF Light, IsList, Resumes
  <2>3. ASSUME NEW g, g.op # "play"
        PROVE  Light(p \o << g >>)
    <3> DEFINE S == Frames \cup {g}
    <3>1. p \in Seq(S) /\ << g >> \in Seq(S)
      BY <2>1
    <3> HIDE DEF S
    <3>2. p \o << g >> \in Seq(S)
      BY <3>1
    <3>3. IF p = << >> THEN (p \o << g >>)[1] = g ELSE (p \o << g >>)[1] = p[1]
      BY <3>1
    <3> QED BY <2>2, <2>3, <3>2, <3>3 DEF Light, IsList
  <2> QED BY <2>2, <2>3
<1> QED BY <1>1, <1>2, <1>3 DEF Light

LEMMA NotEntering ==
  ASSUME ShapeInv, program' = program, NEW fs, stack' = fs \o Below(stack), Light(fs)
  PROVE  \A s \in Scripts : ~ Entering(s)'
<1>1. program \in Programs
  BY DEF ShapeInv, TypeInv
<1>2. PICK new : new = stack'
  OBVIOUS
<1>3. /\ fs # << >> => new # << >> /\ new[1] = fs[1]
      /\ fs = << >> /\ new # << >> => Lower(new[1])
  BY <1>2, NewTop DEF Light
<1>4. ASSUME NEW s \in Scripts, new # << >>, new[1].op = "play",
             new[1].of \in Range(program.chain[s])
      PROVE  FALSE
  <2>1. fs # << >> /\ new[1] = fs[1]
    BY <1>3, <1>4 DEF Lower
  <2>2. PICK P \in Actions : fs[1].of \in Inside(P)
    BY <1>4, <2>1 DEF Light
  <2> QED BY <1>1, <1>4, <2>1, <2>2, LinkFact
<1>5. \A s \in Scripts : Entering(s)' => new # << >> /\ new[1].op = "play"
                                          /\ new[1].of \in Range(program.chain[s])
  BY <1>2 DEF Entering, Top, This
<1> QED BY <1>4, <1>5

(* What the counters of a step may add to, and that who entered before is  *)
(* counted then.                                                           *)
Rises(num) ==
  /\ num \in [Actions -> Nat]
  /\ \A a \in Actions : num[a] <= IF Top("play") THEN Entered(This)[a] ELSE num_running[a]

LEMMA LoadFact ==
  ASSUME ShapeInv, LimitsInv, program' = program, Rises(num_running')
  PROVE  /\ IsFiniteSet(Pairs(Actions, num_running))'
         /\ \A s \in Scripts : /\ NumRunning(s)' \in Nat /\ Load(s) \in Nat
                               /\ NumRunning(s)' <= Load(s)
<1>1. /\ program \in Programs /\ num_running \in [Actions -> Nat] /\ Actions' = Actions
      /\ IsFiniteSet(Pairs(Actions, num_running))
  BY KeepFact DEF LimitsInv, Actions
<1>2. PICK new : new = num_running'
  OBVIOUS
<1>3. new \in [Actions -> Nat]
  BY <1>2 DEF Rises
<1>4. IsFiniteSet(Pairs(Actions, new)) /\ \A s \in Scripts :
        /\ Cardinality(Pairs(Range(program.chain[s]), new)) \in Nat
        /\ NumRunning(s) \in Nat
        /\ Cardinality(Pairs(Range(program.chain[s]), new)) <= NumRunning(s) + One(Entering(s))
  <2>1. CASE Top("play")
    <3>1. This \in Actions
      BY <2>1, TopFact DEF Top
    <3>2. PICK mid : mid = Entered(This)
      OBVIOUS
    <3>3. mid \in [Actions -> Nat] /\ \A b \in Actions : mid[b] = num_running[b] + One(b = This)
      BY <3>1, <3>2, EnteredFact
    <3>4. /\ mid[This] = num_running[This] + 1
          /\ \A b \in Actions : b # This => mid[b] = num_running[b]
      BY <1>1, <3>1, <3>3 DEF One
    <3>5. IsFiniteSet(Pairs(Actions, mid)) /\ \A S \in SUBSET Actions :
            /\ Cardinality(Pairs(S, num_running)) \in Nat
            /\ Cardinality(Pairs(S, mid)) = Cardinality(Pairs(S, num_running)) + One(This \in S)
      BY <1>1, <3>1, <3>3, <3>4, CountAdd
    <3>6. \A a \in Actions : new[a] <= mid[a]
      BY <1>2, <2>1, <3>2 DEF Rises
    <3>7. IsFiniteSet(Pairs(Actions, new)) /\ \A S \in SUBSET Actions :
            /\ Cardinality(Pairs(S, new)) \in Nat /\ Cardinality(Pairs(S, mid)) \in Nat
            /\ Cardinality(Pairs(S, new)) <= Cardinality(Pairs(S, mid))
      BY <1>3, <3>3, <3>5, <3>6, CountLess
    <3>8. \A s \in Scripts : Entering(s) <=> This \in Range(program.chain[s])
      BY <2>1 DEF Entering
    <3>9. IsFiniteSet(Pairs(Actions, new))
      BY <3>7
    <3>10. ASSUME NEW s \in Scripts
           PROVE  /\ Cardinality(Pairs(Range(program.chain[s]), new)) \in Nat
                  /\ NumRunning(s) \in Nat
                  /\ Cardinality(Pairs(Range(program.chain[s]), new))
                       <= NumRunning(s) + One(Entering(s))
      <4>1. PICK S \in SUBSET Actions : S = Range(program.chain[s])
        BY RunningFact
      <4>2. NumRunning(s) = Cardinality(Pairs(S, num_running))
        BY <4>1, RunningFact
      <4>3. One(Entering(s)) = One(This \in S)
        BY <3>8, <4>1 DEF One
      <4>4. /\ Cardinality(Pairs(S, new)) \in Nat
            /\ Cardinality(Pairs(S, new)) <= Cardinality(Pairs(S, mid))
            /\ Cardinality(Pairs(S, mid)) = Cardinality(Pairs(S, num_running)) + One(This \in S)
            /\ Cardinality(Pairs(S, num_running)) \in Nat
        BY <3>5, <3>7
      <4> QED BY <4>1, <4>2, <4>3, <4>4
    <3> QED BY <3>9, <3>10
  <2>2. CASE ~ Top("play")
    <3>1. \A a \in Actions : new[a] <= num_running[a]
      BY <1>2, <2>2 DEF Rises
    <3>2. IsFiniteSet(Pairs(Actions, new)) /\ \A S \in SUBSET Actions :
            /\ Cardinality(Pairs(S, new)) \in Nat /\ Cardinality(Pairs(S, num_running)) \in Nat
            /\ Cardinality(Pairs(S, new)) <= Cardinality(Pairs(S, num_running))
      BY <1>1, <1>3, <3>1, CountLess
    <3>3. \A s \in Scripts : One(Entering(s)) = 0
      BY <2>2 DEF Entering, One
    <3> QED BY <3>2, <3>3, RunningFact
  <2> QED BY <2>1, <2>2
<1>5. \A s \in Scripts :
        NumRunning(s)' = Cardinality(Pairs(Range(program.chain[s]), new))
  BY <1>2 DEF NumRunning, Counted, Pairs
<1>6. IsFiniteSet(Pairs(Actions, num_running))'
  <2>1. Pairs(Actions, num_running)' = Pairs(Actions, new)
    BY <1>1, <1>2 DEF Pairs
  <2> QED BY <1>4, <2>1
<1>7. \A s \in Scripts : One(Entering(s)) \in Nat
  BY DEF One
<1> QED BY <1>4, <1>5, <1>6, <1>7 DEF Load

LEMMA FineStays ==
  ASSUME ShapeInv, program' = program, NEW s \in Scripts, Fine(s), Load(s)' \in Nat, Load(s) \in Nat,
         Load(s)' <= Load(s),
         s \in Queued => ring[s].count \in Nat /\ ring'[s].count \in Nat /\ ring'[s].count <= ring[s].count
  PROVE  Fine(s)'
<1>1. program.max_runs[s] \in Nat
  BY KeepFact, ProgramFact
<1>2. program.mode[s] = "queued" => s \in Queued
  BY DEF Queued
<1> QED BY <1>1, <1>2 DEF Fine

(* A step that lets no instance enter a script's list.                     *)
LEMMA KeepLimits ==
  ASSUME ShapeInv, LimitsInv, program' = program, Rises(num_running'),
         \A s \in Queued : ring'[s].count \in Nat /\ ring'[s].count <= ring[s].count,
         NEW fs, stack' = fs \o Below(stack), Light(fs)
  PROVE  LimitsInv'
<1>1. Scripts' = Scripts /\ Queued \subseteq Scripts
  BY DEF Scripts, Queued
<1>2. \A s \in Scripts : ~ Entering(s)'
  BY NotEntering
<1>3. \A s \in Queued : ring[s].count \in Nat
  BY DEF ShapeInv, RingInv, Ordered, Rings
<1>4. IsFiniteSet(Pairs(Actions, num_running))'
  BY LoadFact
<1>5. \A s \in Scripts : NumRunning(s)' \in Nat /\ Load(s) \in Nat /\ NumRunning(s)' <= Load(s)
  BY LoadFact
<1>6. ASSUME NEW s \in Scripts
      PROVE  Fine(s)'
  <2>1. Load(s)' = NumRunning(s)'
    BY <1>2, <1>5 DEF Load, One
  <2> QED BY <1>3, <1>5, <2>1, FineStays DEF LimitsInv
<1> QED BY <1>1, <1>4, <1>6 DEF LimitsInv

(* A step that lets an instance enter the list of one script.              *)
LEMMA SomeLimits ==
  ASSUME ShapeInv, LimitsInv, program' = program, Rises(num_running'),
         NEW s \in Scripts, Fine(s)',
         \A q \in Queued \ {s} : ring'[q].count \in Nat /\ ring'[q].count <= ring[q].count,
         NEW fs, stack' = fs \o Below(stack), IsList(fs),
         fs # << >> /\ fs[1].op = "play" => fs[1].of \in Range(program.chain[s])
  PROVE  LimitsInv'
<1>1. Scripts' = Scripts /\ Queued \subseteq Scripts
  BY DEF Scripts, Queued
<1>2. program \in Programs
  BY DEF ShapeInv, TypeInv
<1>3. PICK new : new = stack'
  OBVIOUS
<1>4. /\ fs # << >> => new # << >> /\ new[1] = fs[1]
      /\ fs = << >> /\ new # << >> => Lower(new[1])
  BY <1>3, NewTop
<1>5. \A z \in Scripts \ {s} : ~ Entering(z)'
  <2>1. \A z \in Scripts : Entering(z)' => new # << >> /\ new[1].op = "play"
                                            /\ new[1].of \in Range(program.chain[z])
    BY <1>3 DEF Entering, Top, This
  <2>2. \A z \in Scripts : Entering(z)' => new[1].of \in Range(program.chain[s])
    BY <2>1, <1>4 DEF Lower
  <2>3. ASSUME NEW z \in Scripts \ {s}, Entering(z)'
        PROVE  FALSE
    <3>1. new[1].of \in Range(program.chain[z]) \cap Range(program.chain[s])
      BY <2>1, <2>2, <2>3
    <3>2. z # s /\ z \in Scripts
      OBVIOUS
    <3>3. \A y, x \in Scripts : y # x => Range(program.chain[y]) \cap Range(program.chain[x]) = {}
      BY <1>2, LinkFact
    <3>4. Range(program.chain[z]) \cap Range(program.chain[s]) = {}
      BY <3>2, <3>3
    <3> QED BY <3>1, <3>4
  <2> QED BY <2>3
<1>6. \A q \in Queued : ring[q].count \in Nat
  BY DEF ShapeInv, RingInv, Ordered, Rings
<1>7. IsFiniteSet(Pairs(Actions, num_running))'
  BY LoadFact
<1>8. \A z \in Scripts : NumRunning(z)' \in Nat /\ Load(z) \in Nat /\ NumRunning(z)' <= Load(z)
  BY LoadFact
<1>9. ASSUME NEW z \in Scripts, z # s
      PROVE  Fine(z)'
  <2>1. Load(z)' = NumRunning(z)'
    BY <1>5, <1>8, <1>9 DEF Load, One
  <2> QED BY <1>6, <1>8, <1>9, <2>1, FineStays DEF LimitsInv
<1> QED BY <1>1, <1>7, <1>9 DEF LimitsInv

LEMMA EnterLimits ==
  ASSUME ShapeInv, LimitsInv, program' = program, Rises(num_running'),
         NEW s \in Scripts,
         \A q \in Queued \ {s} : ring'[q].count \in Nat /\ ring'[q].count <= ring[q].count,
         NEW fs, stack' = fs \o Below(stack), IsList(fs),
         fs # << >> /\ fs[1].op = "play" => fs[1].of \in Range(program.chain[s]),
         program.mode[s] = "parallel" =>
           program.max_runs[s] = 0 \/ NumRunning(s)' + 1 <= program.max_runs[s],
         program.mode[s] = "queued" =>
           /\ NumRunning(s)' = 0
           /\ ring'[s].count \in Nat /\ 1 + ring'[s].count <= program.max_runs[s],
         program.mode[s] \in {"single", "restart"} => NumRunning(s)' = 0
  PROVE  LimitsInv'
<1>1. NumRunning(s)' \in Nat
  BY LoadFact
<1>2. Load(s)' = NumRunning(s)' + One(Entering(s)')
  BY DEF Load, One
<1>3. Load(s)' \in Nat /\ Load(s)' <= NumRunning(s)' + 1
  BY <1>1, <1>2 DEF One
<1>4. program.max_runs[s] \in Nat
  BY KeepFact, ProgramFact
<1>5. Fine(s)'
  <2>1. CASE program.mode[s] = "parallel"
    BY <1>1, <1>3, <1>4, <2>1 DEF Fine
  <2>2. CASE program.mode[s] = "queued"
    <3>1. PICK n, k : n = Load(s)' /\ k = ring'[s].count
      OBVIOUS
    <3>2. n \in Nat /\ n <= 1
      BY <1>3, <2>2, <3>1
    <3>3. k \in Nat /\ 1 + k <= program.max_runs[s]
      BY <2>2, <3>1
    <3>4. n + k <= program.max_runs[s]
      BY <1>4, <3>2, <3>3
    <3> QED BY <2>2, <3>1, <3>2, <3>4 DEF Fine
  <2>3. CASE program.mode[s] \in {"single", "restart"}
    BY <1>1, <1>3, <2>3 DEF Fine
  <2>4. CASE program.mode[s] \notin {"single", "restart", "queued", "parallel"}
    BY <2>4 DEF Fine
  <2> QED BY <2>1, <2>2, <2>3, <2>4
<1> QED BY <1>5, SomeLimits
-----------------------------------------------------------------------------
(* The steps that let nothing enter a script's list.                       *)
LEMMA RisesFact ==
  ASSUME ShapeInv
  PROVE  /\ Rises(num_running)
         /\ Top("play") => Rises(Entered(This))
         /\ \A num \in [Actions -> Nat], new \in [Actions -> Nat] :
              Rises(num) /\ (\A a \in Actions : new[a] <= num[a]) => Rises(new)
<1>1. num_running \in [Actions -> Nat]
  BY KeepFact
<1>2. Top("play") => /\ Entered(This) \in [Actions -> Nat]
                     /\ \A a \in Actions : num_running[a] <= Entered(This)[a]
  <2> SUFFICES ASSUME Top("play")
               PROVE  /\ Entered(This) \in [Actions -> Nat]
                      /\ \A a \in Actions : num_running[a] <= Entered(This)[a]
    OBVIOUS
  <2>1. This \in Actions
    BY TopFact DEF Top
  <2>2. PICK num : num = Entered(This)
    OBVIOUS
  <2>3. num \in [Actions -> Nat] /\ \A b \in Actions : num[b] = num_running[b] + One(b = This)
    BY <2>1, <2>2, EnteredFact
  <2> QED BY <1>1, <2>2, <2>3 DEF One
<1>3. Rises(num_running)
  BY <1>1, <1>2 DEF Rises
<1>4. Top("play") => Rises(Entered(This))
  <2> SUFFICES ASSUME Top("play") PROVE Rises(Entered(This))
    OBVIOUS
  <2>1. \A a \in Actions : Entered(This)[a] <= Entered(This)[a]
    BY <1>2
  <2> QED BY <1>2, <2>1 DEF Rises
<1>5. ASSUME NEW num \in [Actions -> Nat], NEW new \in [Actions -> Nat], Rises(num),
             \A a \in Actions : new[a] <= num[a]
      PROVE  Rises(new)
  <2> SUFFICES ASSUME NEW a \in Actions
               PROVE  new[a] <= IF Top("play") THEN Entered(This)[a] ELSE num_running[a]
    BY DEF Rises
  <2>1. new[a] \in Nat /\ num[a] \in Nat /\ num_running[a] \in Nat
        /\ (Top("play") => Entered(This)[a] \in Nat)
    BY <1>1, <1>2
  <2>2. num[a] <= IF Top("play") THEN Entered(This)[a] ELSE num_running[a]
    BY <1>5 DEF Rises
  <2> QED BY <1>5, <2>1, <2>2
<1> QED BY <1>3, <1>4, <1>5

LEMMA CallLimits ==
  ASSUME ShapeInv, LimitsInv, program' = program, stack # << >>, Rises(num_running'), ring' = ring,
         NEW fs, Call(fs), Light(fs)
  PROVE  LimitsInv'
<1>1. stack' = fs \o Below(stack)
  BY DEF Call, Below
<1>2. \A s \in Queued : ring'[s].count \in Nat /\ ring'[s].count <= ring[s].count
  BY DEF ShapeInv, RingInv, Ordered, Rings
<1> QED BY <1>1, <1>2, KeepLimits

LEMMA PlayLimits ==
  ASSUME ShapeInv, LimitsInv,
         PlayExecute \/ PlayDelay \/ PlayWait \/ PlayWaitUntil \/ PlayIf \/ PlayRepeat
         \/ PlayContinuation
  PROVE  LimitsInv'
<1>1. /\ Top("play") /\ num_running' = Entered(This) /\ UNCHANGED << program, ring >>
  BY DEF PlayExecute, PlayDelay, PlayWait, PlayWaitUntil, PlayIf, PlayRepeat, PlayContinuation, Plays
<1>2. stack # << >> /\ stack[1].op = "play" /\ This \in Actions
  BY <1>1, TopFact DEF Top
<1>3. \A op, a, x : Frame(op, a, x).op = op
  BY DEF Frame
<1>4. \E fs : Call(fs) /\ Light(fs)
  <2>1. CASE PlayExecute
    <3>1. PICK f, g : f.op = "execute" /\ Call(<< f, g >>)
      BY <2>1, <1>3 DEF PlayExecute
    <3> QED BY <3>1, LightFact
  <2>2. CASE PlayDelay
    BY <2>2, LightFact DEF PlayDelay, Return
  <2>3. CASE PlayWait
    <3>1. Call(<< >>) \/ Call(<< Frame("next", This, Args) >>)
      BY <2>3 DEF PlayWait, Return
    <3> QED BY <3>1, <1>3, LightFact
  <2>4. CASE PlayWaitUntil
    <3>1. \/ Call(<< Frame("next", This, Args) >>)
          \/ Call(<< Frame("process", This, Args), Frame("enable_if_waiting", This, Args) >>)
      BY <2>4 DEF PlayWaitUntil
    <3>2. PICK f, g : /\ f.op = "process" /\ f = Frame("process", This, Args)
                      /\ g = Frame("enable_if_waiting", This, Args)
      BY <1>3
    <3>3. Light(<< Frame("next", This, Args) >>) /\ Light(<< f, g >>)
      BY <1>3, <3>2, LightFact
    <3> QED BY <3>1, <3>2, <3>3
  <2>5. CASE PlayIf
    BY <2>5, <1>2, PlayIfCalls, LightFact
  <2>6. CASE PlayRepeat
    BY <2>6, <1>2, PlayRepeatCalls, LightFact
  <2>7. CASE PlayContinuation
    <3>1. PICK p : Resumes(p, Parent(This)) /\ Call(p \o << Frame("next", This, Args) >>)
      BY <2>7, PlayContinuationCalls
    <3>2. Parent(This) \in Actions
      BY <2>7, PlayContinuationFact
    <3> QED BY <3>1, <3>2, <1>3, LightFact
  <2> QED BY <2>1, <2>2, <2>3, <2>4, <2>5, <2>6, <2>7
<1>5. Rises(num_running')
  BY <1>1, RisesFact
<1> QED BY <1>1, <1>2, <1>4, <1>5, CallLimits

(* stop() of a list only takes away.                                       *)
LEMMA StopListRises ==
  ASSUME ShapeInv, NEW num, Rises(num), NEW list, Range(list) \subseteq Actions, StopList(list, num)
  PROVE  Rises(num_running') /\ \A a \in Range(list) : num_running'[a] = 0
<1>1. num \in [Actions -> Nat] /\ program \in Programs
  BY KeepFact DEF Rises
<1>2. /\ num_running' \in [Actions -> Nat]
      /\ \A a \in Actions :
           num_running'[a] = IF a \in Range(list) \/ \E P \in Halted(num) : a \in Inside(P)
                             THEN 0 ELSE num[a]
  BY <1>1, StopListFact
<1>3. \A a \in Actions : num_running'[a] <= num[a]
  BY <1>1, <1>2
<1> QED BY <1>1, <1>2, <1>3, RisesFact

LEMMA PlayWhileLimits ==
  ASSUME ShapeInv, LimitsInv, PlayWhile
  PROVE  LimitsInv'
<1>1. /\ Top("play") /\ Plays("while") /\ UNCHANGED << program, ring >>
  BY DEF PlayWhile, Plays
<1>2. stack # << >> /\ This \in Actions /\ This \in OfKind({"while"}) /\ program \in Programs
  BY <1>1, PlaysFact
<1>3. Rises(Entered(This))
  BY <1>1, RisesFact
<1>4. CASE condition
  <2>1. PICK p : Resumes(p, This) /\ Call(p)
    BY <1>4, PlayWhileCalls
  <2>2. num_running' = Entered(This)
    BY <1>4 DEF PlayWhile
  <2> QED BY <1>1, <1>2, <1>3, <2>1, <2>2, LightFact, CallLimits
<1>5. CASE ~ condition
  <2>1. StopList(program.then[This], Entered(This)) /\ Call(<< Frame("next", This, Args) >>)
    BY <1>5 DEF PlayWhile
  <2>2. Range(program.then[This]) \subseteq Actions
    BY <1>2, ProgramFact, ListFact
  <2>3. Rises(num_running')
    BY <1>3, <2>1, <2>2, StopListRises
  <2>4. Light(<< Frame("next", This, Args) >>)
    BY LightFact DEF Frame
  <2> QED BY <1>1, <1>2, <2>1, <2>3, <2>4, CallLimits
<1> QED BY <1>4, <1>5

LEMMA StopScriptLimits ==
  ASSUME ShapeInv, LimitsInv, program' = program, NEW s \in Scripts, NEW num, Rises(num),
         StopScript(s, num), NEW fs, stack' = fs \o Below(stack), Light(fs)
  PROVE  LimitsInv'
<1>1. /\ StopList(program.chain[s], num)
      /\ ring' = [q \in Queued |-> IF q = s THEN EmptyRing(s) ELSE ring[q]]
  BY DEF StopScript
<1>2. Range(program.chain[s]) \subseteq Actions
  BY KeepFact, ListFact
<1>3. Rises(num_running')
  BY <1>1, <1>2, StopListRises
<1>4. \A q \in Queued : ring'[q].count \in Nat /\ ring'[q].count <= ring[q].count
  <2>1. \A q \in Queued : ring[q].count \in Nat
    BY DEF ShapeInv, RingInv, Ordered, Rings
  <2>2. \A q \in Queued : ring'[q].count = 0 \/ ring'[q].count = ring[q].count
    BY <1>1 DEF EmptyRing
  <2> QED BY <2>1, <2>2
<1> QED BY <1>3, <1>4, KeepLimits

LEMMA StopLimits ==
  ASSUME ShapeInv, LimitsInv, PlayStop \/ \E s \in Scripts : Stop(s)
  PROVE  LimitsInv'
<1>1. CASE PlayStop
  <2>1. /\ Plays("stop") /\ StopScript(program.target[This], Entered(This)) /\ Top("play")
        /\ Call(<< Frame("next", This, Args) >>) /\ program' = program
    BY <1>1 DEF PlayStop, Plays
  <2>2. This \in OfKind({"stop"}) /\ program \in Programs /\ Below(stack) = Tail(stack)
    BY <2>1, PlaysFact
  <2>3. program.target[This] \in Scripts
    BY <2>2, ProgramFact DEF OfKind
  <2>4. Rises(Entered(This)) /\ Light(<< Frame("next", This, Args) >>)
    BY <2>1, RisesFact, LightFact DEF Frame
  <2> QED BY <2>1, <2>2, <2>3, <2>4, StopScriptLimits DEF Call
<1>2. CASE \E s \in Scripts : Stop(s)
  <2>1. PICK s \in Scripts : Stop(s)
    BY <1>2
  <2>2. StopScript(s, num_running) /\ stack = << >> /\ stack' = << >> /\ program' = program
    BY <2>1 DEF Stop
  <2>3. stack' = << >> \o Below(stack)
    BY <2>2 DEF Below
  <2>4. Rises(num_running) /\ Light(<< >>)
    BY RisesFact, LightFact
  <2> QED BY <2>2, <2>3, <2>4, StopScriptLimits
<1> QED BY <1>1, <1>2

(* The steps that leave counters and rings alone.                          *)
LEMMA OtherLimits ==
  ASSUME ShapeInv, LimitsInv,
         \/ ScriptLoopEnds \/ Processed \/ WalkIsCancelled \/ PopFront \/ WalkEnds
         \/ ProcessQueue \/ WalkKeeps \/ WalkResumes
  PROVE  LimitsInv'
<1>1. stack # << >> /\ UNCHANGED << program, num_running, ring >>
  BY DEF ScriptLoopEnds, Processed, WalkIsCancelled, PopFront, WalkEnds, ProcessQueue,
         WalkKeeps, WalkResumes, Walks, Top
<1>2. /\ \A op, a, x : Frame(op, a, x).op = op
      /\ \A a, q, p, n : Walk(a, q, p, n).op = "walk"
  BY DEF Frame, Walk
<1>3. \E fs : Call(fs) /\ Light(fs)
  <2>1. CASE ScriptLoopEnds \/ Processed \/ WalkIsCancelled \/ PopFront \/ WalkEnds
    BY <2>1, LightFact DEF ScriptLoopEnds, Processed, WalkIsCancelled, PopFront, WalkEnds, Return
  <2>2. CASE ProcessQueue
    BY <2>2, <1>2, LightFact DEF ProcessQueue
  <2>3. CASE WalkKeeps
    BY <2>3, <1>2, LightFact DEF WalkKeeps
  <2>4. CASE WalkResumes
    BY <2>4, <1>2, LightFact DEF WalkResumes
  <2> QED BY <2>1, <2>2, <2>3, <2>4
<1> QED BY <1>1, <1>3, RisesFact, CallLimits

LEMMA IdleLimits ==
  ASSUME ShapeInv, LimitsInv,
         \/ \E t \in timers : Fire(t)
         \/ \E c \in DOMAIN loops : Setup(c)
         \/ \E a \in Waits : WaitLoop(a) \/ WaitUntilLoop(a)
         \/ \E s \in Queued : QueuedLoop(s)
         \/ \E s \in Scripts : Execute(s)
         \/ ConditionChanges
  PROVE  LimitsInv'
<1>1. stack = << >> /\ UNCHANGED << program, num_running, ring >>
  BY DEF Fire, Setup, WaitLoop, WaitUntilLoop, QueuedLoop, Execute, ConditionChanges
<1>2. \A op, a, x : Frame(op, a, x).op = op
  BY DEF Frame
<1>3. Light(stack')
  <2>1. CASE \E t \in timers : Fire(t)
    BY <2>1, <1>2, LightFact DEF Fire
  <2>2. CASE (\E c \in DOMAIN loops : Setup(c)) \/ ConditionChanges
    BY <2>2, <1>1, LightFact DEF Setup, ConditionChanges
  <2>3. CASE \E a \in Waits : WaitLoop(a)
    <3>1. PICK a \in Waits : WaitLoop(a)
      BY <2>3
    <3>2. CASE waiting[a] # << >>
      <4>1. PICK f, g : f.op = "next" /\ stack' = << f, g >>
        BY <1>2, <3>1, <3>2 DEF WaitLoop
      <4> QED BY <4>1, LightFact
    <3>3. CASE waiting[a] = << >>
      BY <1>1, <3>1, <3>3, LightFact DEF WaitLoop
    <3> QED BY <3>2, <3>3
  <2>4. CASE \E a \in Waits : WaitUntilLoop(a)
    <3>1. PICK f, g : f.op = "process" /\ stack' = << f, g >>
      BY <1>2, <2>4 DEF WaitUntilLoop
    <3> QED BY <3>1, LightFact
  <2>5. CASE \E s \in Queued : QueuedLoop(s)
    BY <2>5, <1>2, LightFact DEF QueuedLoop
  <2>6. CASE \E s \in Scripts : Execute(s)
    BY <2>6, <1>2, LightFact DEF Execute
  <2> QED BY <2>1, <2>2, <2>3, <2>4, <2>5, <2>6
<1>4. PICK fs : fs = stack'
  OBVIOUS
<1>5. stack' = fs \o Below(stack)
  <2>1. PICK S : fs \in Seq(S)
    BY <1>3, <1>4 DEF Light, IsList
  <2> QED BY <1>1, <1>4, <2>1 DEF Below
<1>6. \A s \in Queued : ring'[s].count \in Nat /\ ring'[s].count <= ring[s].count
  BY <1>1 DEF ShapeInv, RingInv, Ordered, Rings
<1> QED BY <1>1, <1>3, <1>4, <1>5, <1>6, RisesFact, KeepLimits
-----------------------------------------------------------------------------
(* An instance that goes on in a script's list is counted there all along. *)
LEMMA PlayNextLimits ==
  ASSUME ShapeInv, LimitsInv, PlayNext
  PROVE  LimitsInv'
<1>1. /\ stack # << >> /\ stack[1].op = "next" /\ ~ Top("play") /\ UNCHANGED << program, ring >>
  BY DEF PlayNext, Top
<1>2. This \in Actions /\ program \in Programs /\ num_running \in [Actions -> Nat]
  BY <1>1, TopFact, KeepFact
<1>3. CASE ~ (num_running[This] > 0)
  <2>1. num_running' = num_running /\ Call(<< >>)
    BY <1>3 DEF PlayNext, Return
  <2> QED BY <1>1, <2>1, RisesFact, LightFact, CallLimits
<1>4. CASE num_running[This] > 0
  <2> DEFINE f == Following(This)
  <2>1. PICK new : new = num_running'
    OBVIOUS
  <2>2. new = [num_running EXCEPT ![This] = @ - 1]
    BY <1>4, <2>1 DEF PlayNext
  <2>3. /\ new \in [Actions -> Nat] /\ num_running[This] = new[This] + 1
        /\ \A a \in Actions : a # This => num_running[a] = new[a]
        /\ \A a \in Actions : new[a] <= num_running[a]
    BY <1>2, <1>4, <2>2
  <2>4. Rises(num_running')
    BY <1>2, <2>1, <2>3, RisesFact
  <2>5. CASE f = None
    <3>1. Call(<< >>)
      BY <1>4, <2>5 DEF PlayNext
    <3> QED BY <1>1, <2>4, <3>1, LightFact, CallLimits
  <2>6. CASE f # None
    <3>1. Call(<< Frame("play", f, Args) >>)
      BY <1>4, <2>6 DEF PlayNext
    <3>2. \A s \in Scripts : This \in Range(program.chain[s]) <=> f \in Range(program.chain[s])
      BY <1>2, <2>6, FollowingFact
    <3> HIDE DEF f
    <3>3. PICK g : g = Frame("play", f, Args)
      OBVIOUS
    <3>4. g.op = "play" /\ g.of = f
      BY <3>3 DEF Frame
    <3>5. \A s \in Scripts : Entering(s)' <=> f \in Range(program.chain[s])
      <4>1. IsList(<< g >>)
        BY LightFact
      <4>2. stack' = << g >> \o Below(stack) /\ << g >> # << >> /\ << g >>[1] = g
        BY <1>1, <3>1, <3>3 DEF Call, Below
      <4>3. stack' # << >> /\ stack'[1] = g
        BY <4>1, <4>2, NewTop
      <4> QED BY <1>1, <3>4, <4>3 DEF Entering, Top, This
    <3>6. IsFiniteSet(Pairs(Actions, new))
      BY <1>2, <2>3, CountLess DEF LimitsInv
    <3>7. \A S \in SUBSET Actions :
            /\ Cardinality(Pairs(S, new)) \in Nat
            /\ Cardinality(Pairs(S, num_running)) = Cardinality(Pairs(S, new)) + One(This \in S)
      BY <1>2, <2>3, <3>6, CountAdd
    <3>8. ASSUME NEW s \in Scripts
          PROVE  Fine(s)'
      <4> DEFINE S == Range(program.chain[s])
      <4>1. /\ NumRunning(s) = Cardinality(Pairs(S, num_running)) /\ NumRunning(s) \in Nat
            /\ S \in SUBSET Actions
        BY RunningFact
      <4>2. NumRunning(s)' = Cardinality(Pairs(S, new))
        BY <1>1, <2>1 DEF NumRunning, Counted, Pairs
      <4>3. Load(s) = NumRunning(s) + 0
        BY <1>1 DEF Load, One, Entering
      <4>4. Load(s)' = NumRunning(s)' + One(This \in S)
        BY <3>2, <3>5 DEF Load, One
      <4> HIDE DEF S
      <4>5. Load(s)' = Load(s) /\ Load(s) \in Nat
        BY <3>7, <4>1, <4>2, <4>3, <4>4
      <4>6. s \in Queued => /\ ring[s].count \in Nat /\ ring'[s].count \in Nat
                            /\ ring'[s].count <= ring[s].count
        BY <1>1 DEF ShapeInv, RingInv, Ordered, Rings
      <4> QED BY <1>1, <4>5, <4>6, FineStays DEF LimitsInv
    <3>9. IsFiniteSet(Pairs(Actions, num_running))'
      <4>1. Pairs(Actions, num_running)' = Pairs(Actions, new)
        BY <1>1, <2>1 DEF Pairs, Actions
      <4> QED BY <3>6, <4>1
    <3>10. Scripts' = Scripts
      BY <1>1 DEF Scripts
    <3> QED BY <3>8, <3>9, <3>10 DEF LimitsInv
  <2> QED BY <2>5, <2>6
<1> QED BY <1>3, <1>4

(* An instance of a script starts: it is the only one of its mode, or one  *)
(* of those that max_runs_ leaves room for.                                *)
LEMMA CountedAfter ==
  ASSUME program' = program, NEW s
  PROVE  /\ num_running' = num_running => NumRunning(s)' = NumRunning(s)
         /\ (\A a \in Range(program.chain[s]) : num_running'[a] = 0) => NumRunning(s)' = 0
<1>1. num_running' = num_running => NumRunning(s)' = NumRunning(s)
  BY DEF NumRunning, Counted
<1>2. ASSUME \A a \in Range(program.chain[s]) : num_running'[a] = 0
      PROVE  NumRunning(s)' = 0
  <2>1. PICK new : new = num_running'
    OBVIOUS
  <2>2. \A a \in Range(program.chain[s]) : ~ (new[a] > 0) /\ new[a] \in Nat
    BY <1>2, <2>1
  <2>3. Cardinality(Pairs(Range(program.chain[s]), new)) = 0
    BY <2>2, CountZero
  <2> QED BY <2>1, <2>3 DEF NumRunning, Counted, Pairs
<1> QED BY <1>1, <1>2

(* What is played of a script's list is its first action.                  *)
LEMMA RunLight ==
  ASSUME NEW l, NEW r, NEW p, AtOnce(p, l, r)
  PROVE  /\ IsList(p)
         /\ \A g : g.op # "play" =>
              /\ IsList(p \o << g >>)
              /\ (p \o << g >>)[1] = IF p = << >> THEN g ELSE p[1]
<1>1. p \in Seq(Frames)
  BY DEF AtOnce
<1>2. IsList(p)
  BY <1>1 DEF IsList
<1>3. ASSUME NEW g
      PROVE  /\ IsList(p \o << g >>)
             /\ (p \o << g >>)[1] = IF p = << >> THEN g ELSE p[1]
  <2> DEFINE S == Frames \cup {g}
  <2>1. p \in Seq(S) /\ << g >> \in Seq(S)
    BY <1>1
  <2> HIDE DEF S
  <2>2. p \o << g >> \in Seq(S)
    BY <2>1
  <2>3. (p \o << g >>)[1] = IF p = << >> THEN g ELSE p[1]
    BY <2>1
  <2> QED BY <2>2, <2>3 DEF IsList
<1> QED BY <1>2, <1>3

LEMMA ExecuteLimits ==
  ASSUME ShapeInv, LimitsInv, ExecuteSingle \/ ExecuteRestart \/ ExecuteParallel
  PROVE  LimitsInv'
<1>1. PICK mode \in {"single", "restart", "parallel"} : Executes(mode)
  BY DEF ExecuteSingle, ExecuteRestart, ExecuteParallel
<1>2. UNCHANGED << program, ring, next_id >> /\ ~ Top("play")
  BY <1>1 DEF ExecuteSingle, ExecuteRestart, ExecuteParallel, Executes, Top
<1>0. PICK s : s = This
  OBVIOUS
<1>3. stack # << >> /\ s \in Scripts /\ program.mode[s] = mode /\ Below(stack) = Tail(stack)
      /\ program \in Programs
  BY <1>0, <1>1, ExecutesFact
<1> DEFINE p == RunActions(This, Args)
<1>4. /\ AtOnce(p, next_id, ring')
      /\ p # << >> => p[1].of \in Range(program.chain[s])
  BY <1>0, <1>1, <1>2, ExecuteCalls
<1>5. IsList(p)
  BY <1>4, RunLight
<1>6. \A q \in Queued \ {s} : ring'[q].count \in Nat /\ ring'[q].count <= ring[q].count
  BY <1>2 DEF ShapeInv, RingInv, Ordered, Rings
<1>7. ASSUME Call(p), Rises(num_running'),
             mode = "parallel" => program.max_runs[s] = 0
                                  \/ NumRunning(s)' + 1 <= program.max_runs[s],
             mode # "parallel" => NumRunning(s)' = 0
      PROVE  LimitsInv'
  <2> HIDE DEF p
  <2>1. stack' = p \o Below(stack)
    BY <1>3, <1>7 DEF Call
  <2> QED BY <1>1, <1>2, <1>3, <1>4, <1>5, <1>6, <1>7, <2>1, EnterLimits
<1>8. ASSUME Call(<< >>), num_running' = num_running
      PROVE  LimitsInv'
  BY <1>2, <1>3, <1>8, RisesFact, LightFact, CallLimits
<1>9. NumRunning(s) \in Nat /\ (~ ActionIsRunning(s) => NumRunning(s) = 0)
  BY <1>3, RunningFact
<1>10. num_running' = num_running => NumRunning(s)' = NumRunning(s) /\ Rises(num_running')
  BY <1>2, CountedAfter, RisesFact
<1>11. CASE ExecuteSingle
  <2>1. /\ num_running' = num_running /\ mode = "single"
        /\ IF ActionIsRunning(s) THEN Call(<< >>) ELSE Call(p)
    BY <1>0, <1>3, <1>11 DEF ExecuteSingle, Executes
  <2> HIDE DEF p
  <2> QED BY <1>7, <1>8, <1>9, <1>10, <2>1
<1>12. CASE ExecuteParallel
  <2>1. /\ num_running' = num_running /\ mode = "parallel"
        /\ IF program.max_runs[s] # 0 /\ NumRunning(s) >= program.max_runs[s]
           THEN Call(<< >>) ELSE Call(p)
    BY <1>0, <1>3, <1>12 DEF ExecuteParallel, Executes
  <2>2. program.max_runs[s] \in Nat
    BY <1>3, ProgramFact
  <2> HIDE DEF p
  <2> QED BY <1>7, <1>8, <1>9, <1>10, <2>1, <2>2
<1>13. CASE ExecuteRestart
  <2>1. /\ mode = "restart" /\ Call(p)
        /\ IF ActionIsRunning(s) THEN StopList(program.chain[s], num_running)
           ELSE num_running' = num_running
    BY <1>0, <1>3, <1>13 DEF ExecuteRestart, Executes
  <2> HIDE DEF p
  <2>2. CASE ActionIsRunning(s)
    <3>1. Range(program.chain[s]) \subseteq Actions
      BY <1>3, ListFact
    <3>2. Rises(num_running') /\ \A a \in Range(program.chain[s]) : num_running'[a] = 0
      BY <2>1, <2>2, <3>1, RisesFact, StopListRises
    <3>3. NumRunning(s)' = 0
      BY <1>2, <3>2, CountedAfter
    <3> QED BY <1>7, <2>1, <3>2, <3>3
  <2>3. CASE ~ ActionIsRunning(s)
    BY <1>7, <1>9, <1>10, <2>1, <2>3
  <2> QED BY <2>2, <2>3
<1> QED BY <1>11, <1>12, <1>13

LEMMA ExecuteQueuedLimits ==
  ASSUME ShapeInv, LimitsInv, ExecuteQueued
  PROVE  LimitsInv'
<1>1. PICK s : s = This
  OBVIOUS
<1>2. Executes("queued") /\ ~ Top("play") /\ UNCHANGED << program, num_running, next_id >>
  BY DEF ExecuteQueued, Executes, Top
<1>3. stack # << >> /\ s \in Scripts /\ program.mode[s] = "queued" /\ Below(stack) = Tail(stack)
      /\ program \in Programs /\ s \in Queued
  BY <1>1, <1>2, ExecutesFact DEF Queued
<1>4. /\ Rises(num_running') /\ NumRunning(s)' = NumRunning(s) /\ NumRunning(s) \in Nat
      /\ ~ ActionIsRunning(s) => NumRunning(s) = 0
  BY <1>2, <1>3, RisesFact, CountedAfter, RunningFact
<1>5. program.max_runs[s] \in Nat /\ program.max_runs[s] > 0
  BY <1>3, ProgramFact
<1>6. \A q \in Queued : ring[q].count \in Nat
  BY DEF ShapeInv, RingInv, Ordered, Rings
<1>7. CASE ~ ActionIsRunning(s) /\ ring[s].count = 0
  <2> DEFINE p == RunActions(This, Args)
             g == Frame("script_loop", This, Args)
  <2>1. Call(p \o << g >>) /\ ring' = ring
    BY <1>1, <1>7 DEF ExecuteQueued
  <2>2. /\ AtOnce(p, next_id, ring')
        /\ p # << >> => p[1].of \in Range(program.chain[s])
    BY <1>1, <1>2, <1>7, <2>1, ExecuteCalls
  <2>3. g.op = "script_loop"
    BY DEF Frame
  <2> HIDE DEF p, g
  <2>4. PICK fs : fs = p \o << g >>
    OBVIOUS
  <2>5. IsList(fs) /\ fs[1] = IF p = << >> THEN g ELSE p[1]
    BY <2>2, <2>3, <2>4, RunLight
  <2>6. stack' = fs \o Below(stack)
    BY <1>3, <2>1, <2>4 DEF Call
  <2>7. NumRunning(s)' = 0 /\ ring'[s].count \in Nat /\ 1 + ring'[s].count <= program.max_runs[s]
    BY <1>3, <1>4, <1>5, <1>7, <2>1
  <2>8. \A q \in Queued \ {s} : ring'[q].count \in Nat /\ ring'[q].count <= ring[q].count
    BY <1>6, <2>1
  <2>9. fs[1].op = "play" => fs[1].of \in Range(program.chain[s])
    BY <2>2, <2>3, <2>5
  <2> QED BY <1>2, <1>3, <1>4, <2>5, <2>6, <2>7, <2>8, <2>9, EnterLimits
<1>8. CASE ~ (~ ActionIsRunning(s) /\ ring[s].count = 0)
  <2>1. Call(<< >>)
    BY <1>1, <1>8 DEF ExecuteQueued, Return
  <2>2. CASE ring' = ring
    BY <1>2, <1>3, <1>4, <2>1, <2>2, LightFact, CallLimits
  <2>3. CASE ~ (ring' = ring)
    <3> DEFINE place == (ring[s].front + ring[s].count) % Capacity(s)
    <3>1. /\ ~ (ring[s].count + 1 >= program.max_runs[s])
          /\ ring' = [ring EXCEPT ![s].slots[place] = Args, ![s].count = @ + 1]
      BY <1>1, <1>8, <2>3 DEF ExecuteQueued
    <3> HIDE DEF place
    <3>2. ring = [q \in Queued |-> ring[q]] /\ ring[s] \in Rings(Capacity(s))
      BY <1>3 DEF ShapeInv, RingInv, Ordered
    <3>3. ring'[s].count = ring[s].count + 1 /\ \A q \in Queued \ {s} : ring'[q] = ring[q]
      BY <1>3, <3>1, <3>2 DEF Rings
    <3>4. NumRunning(s)' <= Load(s) /\ Load(s) \in Nat /\ NumRunning(s)' \in Nat
      BY <1>2, <1>3, <1>4, LoadFact
    <3>5. Load(s) <= 1
      BY <1>3 DEF LimitsInv, Fine
    <3>6. Load(s)' = NumRunning(s)'
      <4>1. stack' = << >> \o Below(stack)
        BY <1>3, <2>1 DEF Call
      <4>2. ~ Entering(s)'
        BY <1>2, <1>3, <4>1, LightFact, NotEntering
      <4> QED BY <3>4, <4>2 DEF Load, One
    <3>7. PICK n, k : n = Load(s)' /\ k = ring[s].count
      OBVIOUS
    <3>8. n \in Nat /\ n <= 1 /\ k \in Nat /\ ~ (k + 1 >= program.max_runs[s])
      BY <1>3, <1>6, <3>1, <3>4, <3>5, <3>6, <3>7
    <3>9. n + (k + 1) <= program.max_runs[s]
      BY <1>5, <3>8
    <3>10. Fine(s)'
      BY <1>2, <1>3, <3>3, <3>7, <3>8, <3>9 DEF Fine
    <3>11. stack' = << >> \o Below(stack) /\ IsList(<< >>)
      BY <1>3, <2>1, LightFact DEF Call, Light
    <3>12. \A q \in Queued \ {s} : ring'[q].count \in Nat /\ ring'[q].count <= ring[q].count
      BY <1>6, <3>3
    <3> QED BY <1>2, <1>3, <1>4, <3>10, <3>11, <3>12, SomeLimits
  <2> QED BY <2>2, <2>3
<1> QED BY <1>7, <1>8

LEMMA ScriptLoopLimits ==
  ASSUME ShapeInv, LimitsInv, ScriptLoop
  PROVE  LimitsInv'
<1>1. PICK s : s = This
  OBVIOUS
<1>2. Top("script_loop") /\ ~ Top("play") /\ UNCHANGED << program, num_running, next_id >>
  BY DEF ScriptLoop, Top
<1>3. stack # << >> /\ s \in Queued /\ s \in Scripts /\ Below(stack) = Tail(stack)
      /\ program \in Programs /\ program.mode[s] = "queued"
  BY <1>1, <1>2, TopFact, KeepFact DEF Queued, Top
<1>4. /\ Rises(num_running') /\ NumRunning(s)' = NumRunning(s)
      /\ ~ ActionIsRunning(s) => NumRunning(s) = 0
  BY <1>2, <1>3, RisesFact, CountedAfter, RunningFact
<1>5. program.max_runs[s] \in Nat /\ program.max_runs[s] > 0
  BY <1>3, ProgramFact
<1>6. \A q \in Queued : ring[q].count \in Nat
  BY DEF ShapeInv, RingInv, Ordered, Rings
<1> DEFINE g == Frame("script_loop_ends", This, Args)
<1>7. g.op = "script_loop_ends"
  BY DEF Frame
<1>8. CASE ring[s].count # 0 /\ ~ ActionIsRunning(s)
  <2> DEFINE p == RunActions(This, ring[This].slots[ring[This].front])
             r == Dequeued(ring[This], Capacity(This))
  <2>1. /\ ring' = [ring EXCEPT ![s] = r] /\ Advance(p \o << g >>) /\ AtOnce(p, Limit', ring')
        /\ p # << >> => p[1].of \in Range(program.chain[s])
    BY <1>1, <1>8, ScriptLoopCalls
  <2>2. r.count = ring[s].count - 1
    <3>1. ring[s] \in Rings(Capacity(s))
      BY <1>3 DEF ShapeInv, RingInv, Ordered
    <3> QED BY <1>1, <3>1 DEF Dequeued, Rings
  <2> HIDE DEF p, g, r
  <2>3. PICK fs : fs = p \o << g >>
    OBVIOUS
  <2>4. stack' = fs \o Below(stack)
    BY <2>1, <2>3 DEF Advance
  <2>5. IsList(fs) /\ fs[1] = IF p = << >> THEN g ELSE p[1]
    BY <1>7, <2>1, <2>3, RunLight
  <2>6. ring = [q \in Queued |-> ring[q]]
    BY DEF ShapeInv, RingInv
  <2>7. ring'[s].count = ring[s].count - 1 /\ \A q \in Queued \ {s} : ring'[q] = ring[q]
    BY <1>3, <2>1, <2>2, <2>6
  <2>8. ring'[s].count \in Nat /\ 1 + ring'[s].count <= program.max_runs[s]
    <3>1. ring[s].count \in 0 .. Capacity(s) /\ Capacity(s) = program.max_runs[s] - 1
      BY <1>3 DEF ShapeInv, RingInv, Ordered, Rings, Capacity
    <3> QED BY <1>5, <1>8, <2>7, <3>1
  <2>9. \A q \in Queued \ {s} : ring'[q].count \in Nat /\ ring'[q].count <= ring[q].count
    BY <1>6, <2>7
  <2>10. fs[1].op = "play" => fs[1].of \in Range(program.chain[s])
    BY <1>7, <2>1, <2>5
  <2>11. NumRunning(s)' = 0
    BY <1>4, <1>8
  <2> QED BY <1>2, <1>3, <1>4, <2>4, <2>5, <2>8, <2>9, <2>10, <2>11, EnterLimits
<1>9. CASE ~ (ring[s].count # 0 /\ ~ ActionIsRunning(s))
  <2>1. Call(<< g >>) /\ ring' = ring
    BY <1>1, <1>9 DEF ScriptLoop
  <2> HIDE DEF g
  <2> QED BY <1>2, <1>3, <1>4, <1>7, <2>1, LightFact, CallLimits
<1> QED BY <1>8, <1>9

LEMMA RestartedLimits == Restarted => LimitsInv
<1> SUFFICES ASSUME Restarted PROVE LimitsInv
  OBVIOUS
<1>1. program \in Programs /\ stack = << >> /\ \A a \in Actions : num_running[a] = 0
  BY DEF Restarted, Fresh
<1>2. \A S \in SUBSET Actions : Pairs(S, num_running) = {}
  <2>1. \A a \in Actions : 1 .. num_running[a] = {}
    BY <1>1
  <2> QED BY <2>1 DEF Pairs
<1>3. ASSUME NEW s \in Scripts
      PROVE  Fine(s)
  <2>1. Range(program.chain[s]) \in SUBSET Actions /\ program.max_runs[s] \in Nat
        /\ (s \in Queued => program.max_runs[s] > 0)
    BY <1>1, ListFact, ProgramFact
  <2>2. NumRunning(s) = 0
    <3>1. Cardinality(Pairs(Range(program.chain[s]), num_running)) = 0
      BY <1>2, <2>1, FS_EmptySet
    <3> QED BY <3>1 DEF NumRunning, Counted, Pairs
  <2>3. Load(s) = 0
    BY <1>1, <2>2 DEF Load, One, Entering, Top
  <2>4. s \in Queued => ring[s].count = 0
    BY DEF Restarted, Fresh, EmptyRing
  <2> QED BY <2>1, <2>3, <2>4 DEF Fine, Queued
<1>4. IsFiniteSet(Pairs(Actions, num_running))
  BY <1>2, FS_EmptySet
<1> QED BY <1>3, <1>4 DEF LimitsInv

LEMMA PopFrontOfNoneLimits == ShapeInv /\ PopFrontOfNone => LimitsInv'
<1>1. ShapeInv /\ PopFrontOfNone => Restarted'
  BY PopFrontOfNoneRestarts
<1>2. Restarted' => LimitsInv'
  BY RestartedLimits, PTL
<1> QED BY <1>1, <1>2

LEMMA NextLimits ==
  ASSUME ShapeInv, LimitsInv, [Next]_vars
  PROVE  LimitsInv'
<1>1. CASE Runs
  <2>1. CASE PlayNext
    BY <2>1, PlayNextLimits
  <2>2. CASE PlayExecute \/ PlayDelay \/ PlayWait \/ PlayWaitUntil \/ PlayIf \/ PlayRepeat
             \/ PlayContinuation
    BY <2>2, PlayLimits
  <2>3. CASE PlayStop \/ PlayWhile
    BY <2>3, StopLimits, PlayWhileLimits
  <2>4. CASE ExecuteSingle \/ ExecuteRestart \/ ExecuteParallel \/ ExecuteQueued
    BY <2>4, ExecuteLimits, ExecuteQueuedLimits
  <2>5. CASE ScriptLoop \/ PopFrontOfNone
    BY <2>5, ScriptLoopLimits, PopFrontOfNoneLimits
  <2>6. CASE \/ ScriptLoopEnds \/ Processed \/ WalkIsCancelled \/ PopFront \/ WalkEnds
             \/ ProcessQueue \/ WalkKeeps \/ WalkResumes
    BY <2>6, OtherLimits
  <2> QED BY <1>1, <2>1, <2>2, <2>3, <2>4, <2>5, <2>6 DEF Runs
<1>2. CASE \/ \E t \in timers : Fire(t)
           \/ \E c \in DOMAIN loops : Setup(c)
           \/ \E a \in Waits : WaitLoop(a) \/ WaitUntilLoop(a)
           \/ \E s \in Queued : QueuedLoop(s)
           \/ \E s \in Scripts : Execute(s)
           \/ ConditionChanges
  BY <1>2, IdleLimits
<1>3. CASE \E s \in Scripts : Stop(s)
  BY <1>3, StopLimits
<1>4. CASE UNCHANGED vars
  <2>1. Rises(num_running')
    BY <1>4, RisesFact DEF vars
  <2>2. /\ Actions' = Actions /\ Scripts' = Scripts /\ program' = program
        /\ num_running' = num_running /\ ring' = ring /\ stack' = stack
    BY <1>4 DEF vars, Actions, Scripts
  <2>3. \A s \in Scripts : Load(s)' = Load(s)
    BY <2>2 DEF Load, NumRunning, Counted, Entering, Top, This, One
  <2>4. \A s \in Scripts : Fine(s) => Fine(s)'
    BY <2>2, <2>3 DEF Fine
  <2> QED BY <2>2, <2>4 DEF LimitsInv, Pairs
<1> QED BY <1>1, <1>2, <1>3, <1>4 DEF Next

(* A script runs no more often than its mode allows: once in modes single, *)
(* restart and queued, max_runs_ times in parallel, and no more than       *)
(* max_runs_ run and are queued, whatever its actions start and stop while *)
(* it is being started.                                                    *)
THEOREM LimitsAreKept == Spec => []RunLimits
<1>1. Init => LimitsInv
  <2>1. Init => Restarted
    BY DEF Init, Restarted
  <2> QED BY <2>1, RestartedLimits
<1>2. ShapeInv /\ LimitsInv /\ [Next]_vars => LimitsInv'
  BY NextLimits
<1>3. ShapeInv /\ LimitsInv => RunLimits
  <2> SUFFICES ASSUME ShapeInv, LimitsInv, NEW s \in Scripts
               PROVE  CASE program.mode[s] = "parallel" ->
                             \/ program.max_runs[s] = 0
                             \/ NumRunning(s) <= program.max_runs[s]
                        [] program.mode[s] = "queued" ->
                             /\ NumRunning(s) <= 1
                             /\ NumRunning(s) + ring[s].count <= program.max_runs[s]
                        [] OTHER -> NumRunning(s) <= 1
    BY DEF RunLimits
  <2>1. NumRunning(s) \in Nat /\ program.max_runs[s] \in Nat /\ program.mode[s] \in Modes
    BY RunningFact, KeepFact, ProgramFact
  <2>2. Load(s) \in Nat /\ NumRunning(s) <= Load(s)
    BY <2>1 DEF Load, One
  <2>3. s \in Queued => ring[s].count \in Nat
    BY DEF ShapeInv, RingInv, Ordered, Rings
  <2>4. Fine(s)
    BY DEF LimitsInv
  <2>5. CASE program.mode[s] = "parallel"
    BY <2>1, <2>2, <2>4, <2>5 DEF Fine
  <2>6. CASE program.mode[s] = "queued"
    BY <2>1, <2>2, <2>3, <2>4, <2>6 DEF Fine, Queued
  <2>7. CASE program.mode[s] \in {"single", "restart"}
    BY <2>1, <2>2, <2>4, <2>7 DEF Fine
  <2> QED BY <2>1, <2>5, <2>6, <2>7 DEF Modes
<1> QED BY <1>1, <1>2, <1>3, ShapeIsKept, PTL DEF Spec
-----------------------------------------------------------------------------
(* The depth of a call stays the same when others come and go on top of it.*)
LEMMA TailGood ==
  ASSUME NEW st, GoodStack(st), st # << >>
  PROVE  /\ GoodStack(Tail(st)) /\ Len(st) \in Nat \ {0} /\ st[1] \in Frames
         /\ Tail(st) \in Seq(Frames) /\ Len(Tail(st)) = Len(st) - 1
         /\ \A i \in 1 .. Len(Tail(st)) : Tail(st)[i] = st[i + 1] /\ Lower(Tail(st)[i])
<1>1. st \in Seq(Frames) /\ Len(st) \in Nat \ {0} /\ st[1] \in Frames
  BY DEF GoodStack
<1>2. /\ Tail(st) \in Seq(Frames) /\ Len(Tail(st)) = Len(st) - 1
      /\ \A i \in 1 .. Len(Tail(st)) : Tail(st)[i] = st[i + 1]
  BY <1>1
<1>3. \A i \in 1 .. Len(Tail(st)) : i + 1 \in 2 .. Len(st) /\ Lower(Tail(st)[i])
  BY <1>1, <1>2 DEF GoodStack
<1>4. \A i \in 1 .. Len(Tail(st)) - 1 : Tail(st)[i].op # "pop_front"
  <2>1. \A i \in 1 .. Len(Tail(st)) - 1 : i + 1 \in 1 .. Len(st) - 1 /\ Tail(st)[i] = st[i + 1]
    BY <1>1, <1>2
  <2> QED BY <2>1 DEF GoodStack
<1> QED BY <1>1, <1>2, <1>3, <1>4 DEF GoodStack

LEMMA DepthFact ==
  ASSUME NEW st, GoodStack(st), st # << >>
  PROVE  /\ At(st, Len(st)) = st[1]
         /\ \A d \in 1 .. Len(Tail(st)) : At(Tail(st), d) = At(st, d)
         /\ \A a : /\ NextsOf(Tail(st), a) = NextsOf(st, a) \ {Len(st)}
                   /\ Len(st) \in NextsOf(st, a) <=> st[1].op = "next" /\ st[1].of = a
         /\ \A a \in Actions : program.kind[a] \notin {"execute"} \cup Continuations =>
              NextsOf(Tail(st), a) = {}
<1> DEFINE n == Len(st)
           low == Tail(st)
<1>1. /\ n \in Nat \ {0} /\ Len(low) = n - 1
      /\ \A i \in 1 .. Len(low) : low[i] = st[i + 1] /\ Lower(low[i])
  BY TailGood
<1> HIDE DEF n, low
<1>2. At(st, n) = st[1]
  <2>1. n + 1 - n = 1
    BY <1>1
  <2> QED BY <2>1 DEF At, n
<1>3. ASSUME NEW d \in 1 .. Len(low)
      PROVE  At(low, d) = At(st, d) /\ Lower(At(low, d))
  <2>1. PICK i : i = Len(low) + 1 - d
    OBVIOUS
  <2>2. i \in 1 .. Len(low) /\ i + 1 = n + 1 - d
    BY <1>1, <2>1
  <2>3. low[i] = st[i + 1] /\ Lower(low[i])
    BY <1>1, <2>2
  <2> QED BY <2>1, <2>2, <2>3 DEF At, n
<1>4. 1 .. Len(low) = (1 .. n) \ {n} /\ n \in 1 .. n
  BY <1>1
<1>5. \A a : /\ NextsOf(low, a) = NextsOf(st, a) \ {n}
             /\ n \in NextsOf(st, a) <=> st[1].op = "next" /\ st[1].of = a
  BY <1>2, <1>3, <1>4 DEF NextsOf, n
<1>6. \A a \in Actions : program.kind[a] \notin {"execute"} \cup Continuations => NextsOf(low, a) = {}
  BY <1>3 DEF NextsOf, Lower
<1> QED BY <1>2, <1>3, <1>5, <1>6 DEF n, low

(* The calls that return into an action are finitely many.                 *)
LEMMA AboveFact ==
  ASSUME NEW st, Len(st) \in Nat, NEW a, NEW d
  PROVE  /\ IsFiniteSet({e \in NextsOf(st, a) : e > d})
         /\ Cardinality({e \in NextsOf(st, a) : e > d}) \in Nat
<1>1. {e \in NextsOf(st, a) : e > d} \in SUBSET (1 .. Len(st))
  BY DEF NextsOf
<1>2. IsFiniteSet(1 .. Len(st))
  BY FS_Interval
<1> QED BY <1>1, <1>2, FS_Subset, FS_CardinalityType

(* A call returns; if it was one into an action, that counts one less.     *)
LEMMA NextsPopped ==
  ASSUME NEW st, GoodStack(st), st # << >>, NEW stp, NEW num \in [Actions -> Nat],
         NEW new \in [Actions -> Nat], NextsOk(st, num, stp),
         \A a \in OfKind({"execute"}) :
           \/ new[a] = 0
           \/ new[a] + One(st[1].op = "next" /\ st[1].of = a) <= num[a]
  PROVE  NextsOk(Tail(st), new, stp)
<1> SUFFICES ASSUME NEW a \in Actions, program.kind[a] \notin Continuations,
                    NEW d \in NextsOf(Tail(st), a),
                    Cardinality({e \in NextsOf(Tail(st), a) : e > d}) < new[a]
             PROVE  Ok(a, At(Tail(st), d).args, stp)
  BY DEF NextsOk
<1> DEFINE n == Len(st)
           K == {e \in NextsOf(st, a) : e > d}
           L == {e \in NextsOf(Tail(st), a) : e > d}
<1>1. n \in Nat \ {0} /\ Len(Tail(st)) = n - 1
  BY TailGood
<1>2. a \in OfKind({"execute"})
  BY DepthFact DEF OfKind
<1>3. /\ NextsOf(Tail(st), a) = NextsOf(st, a) \ {n}
      /\ n \in NextsOf(st, a) <=> st[1].op = "next" /\ st[1].of = a
  BY DepthFact
<1>4. d \in 1 .. n - 1 /\ d \in NextsOf(st, a) /\ At(Tail(st), d) = At(st, d)
  BY <1>1, <1>3, DepthFact DEF NextsOf
<1>5. L = K \ {n} /\ (n \in K <=> st[1].op = "next" /\ st[1].of = a)
  BY <1>1, <1>3, <1>4
<1>6. IsFiniteSet(K) /\ Cardinality(K) \in Nat /\ Cardinality(L) \in Nat
  <2>1. Len(st) \in Nat /\ Len(Tail(st)) \in Nat
    BY <1>1
  <2>2. IsFiniteSet(K) /\ Cardinality(K) \in Nat
    BY <2>1, AboveFact
  <2>3. Cardinality(L) \in Nat
    BY <2>1, AboveFact
  <2> QED BY <2>2, <2>3
<1>7. Cardinality(K \ {n}) = IF n \in K THEN Cardinality(K) - 1 ELSE Cardinality(K)
  BY <1>6, FS_RemoveElement
<1>8. Cardinality(L) < new[a]
  OBVIOUS
<1> HIDE DEF K, L
<1>9. Cardinality(K) = Cardinality(L) + One(n \in K)
  BY <1>5, <1>6, <1>7 DEF One
<1>10. One(n \in K) = One(st[1].op = "next" /\ st[1].of = a)
  BY <1>5 DEF One
<1>11. new[a] \in Nat /\ num[a] \in Nat /\ One(n \in K) \in Nat
  BY DEF One
<1>12. Cardinality(K) < num[a]
  BY <1>2, <1>6, <1>8, <1>9, <1>10, <1>11
<1>13. Ok(a, At(st, d).args, stp)
  BY <1>4, <1>12 DEF NextsOk, K
<1> QED BY <1>4, <1>13

(* A call is made; if it is one into an action, that may count one more.   *)
LEMMA NextsPushed ==
  ASSUME NEW st, GoodStack(st), st # << >>, NEW stp, NEW num \in [Actions -> Nat],
         NEW new \in [Actions -> Nat], NextsOk(Tail(st), num, stp),
         \A a \in OfKind({"execute"}) :
           new[a] <= num[a] + One(st[1].op = "next" /\ st[1].of = a),
         st[1].op = "next" /\ program.kind[st[1].of] \notin Continuations /\ new[st[1].of] > 0 =>
           Ok(st[1].of, st[1].args, stp)
  PROVE  NextsOk(st, new, stp)
<1> SUFFICES ASSUME NEW a \in Actions, program.kind[a] \notin Continuations,
                    NEW d \in NextsOf(st, a),
                    Cardinality({e \in NextsOf(st, a) : e > d}) < new[a]
             PROVE  Ok(a, At(st, d).args, stp)
  BY DEF NextsOk
<1> DEFINE n == Len(st)
           K == {e \in NextsOf(st, a) : e > d}
           L == {e \in NextsOf(Tail(st), a) : e > d}
<1>1. n \in Nat \ {0} /\ Len(Tail(st)) = n - 1
  BY TailGood
<1>2. /\ NextsOf(Tail(st), a) = NextsOf(st, a) \ {n}
      /\ n \in NextsOf(st, a) <=> st[1].op = "next" /\ st[1].of = a
      /\ At(st, n) = st[1]
  BY DepthFact
<1>3. IsFiniteSet(K) /\ Cardinality(K) \in Nat /\ Cardinality(L) \in Nat
  <2>1. Len(st) \in Nat /\ Len(Tail(st)) \in Nat
    BY <1>1
  <2>2. IsFiniteSet(K) /\ Cardinality(K) \in Nat
    BY <2>1, AboveFact
  <2>3. Cardinality(L) \in Nat
    BY <2>1, AboveFact
  <2> QED BY <2>2, <2>3
<1>4. CASE d = n
  BY <1>2, <1>3, <1>4 DEF K
<1>5. CASE d # n
  <2>1. d \in NextsOf(Tail(st), a) /\ d \in 1 .. n - 1
    BY <1>1, <1>2, <1>5 DEF NextsOf
  <2>2. a \in OfKind({"execute"})
    BY <2>1, DepthFact DEF OfKind
  <2>3. L = K \ {n} /\ (n \in K <=> st[1].op = "next" /\ st[1].of = a)
    BY <1>1, <1>2, <2>1
  <2>4. Cardinality(K \ {n}) = IF n \in K THEN Cardinality(K) - 1 ELSE Cardinality(K)
    BY <1>3, FS_RemoveElement
  <2>5. Cardinality(K) < new[a]
    OBVIOUS
  <2> HIDE DEF K, L
  <2>6. Cardinality(K) = Cardinality(L) + One(st[1].op = "next" /\ st[1].of = a)
    BY <1>3, <2>3, <2>4 DEF One
  <2>7. new[a] \in Nat /\ num[a] \in Nat /\ One(st[1].op = "next" /\ st[1].of = a) \in Nat
    BY DEF One
  <2>8. Cardinality(L) < num[a]
    BY <1>3, <2>2, <2>5, <2>6, <2>7
  <2>9. Ok(a, At(Tail(st), d).args, stp)
    BY <2>1, <2>8 DEF NextsOk, L
  <2>10. At(Tail(st), d) = At(st, d)
    BY <1>1, <2>1, DepthFact
  <2> QED BY <2>9, <2>10
<1> QED BY <1>4, <1>5

LEMMA NotNone ==
  ASSUME NEW n, n # 0
  PROVE  \A t : Len(t) = n => t # << >>
<1>1. Len(<< >>) = 0
  OBVIOUS
<1> QED BY ONLY <1>1, n # 0

LEMMA ShortTail ==
  ASSUME NEW S, NEW p \in Seq(S), Len(p) \in {1, 2}
  PROVE  /\ p # << >> /\ Tail(p) \in Seq(S) /\ Len(Tail(p)) = Len(p) - 1
         /\ Len(p) = 1 => Tail(p) = << >>
         /\ Len(p) = 2 => Tail(p) # << >> /\ Tail(p)[1] = p[2] /\ Tail(Tail(p)) = << >>
<1>1. p # << >>
  OBVIOUS
<1>2. /\ Tail(p) \in Seq(S) /\ Len(Tail(p)) = Len(p) - 1
      /\ \A i \in 1 .. Len(p) - 1 : Tail(p)[i] = p[i + 1]
  BY <1>1
<1>3. ASSUME Len(p) = 1 PROVE Tail(p) = << >>
  <2>1. Tail(p) \in Seq(S) /\ Len(Tail(p)) = 0
    BY ONLY <1>2, <1>3
  <2> QED BY ONLY <2>1, EmptySeq
<1>4. ASSUME Len(p) = 2
      PROVE  Tail(p) # << >> /\ Tail(p)[1] = p[2] /\ Tail(Tail(p)) = << >>
  <2>1. Len(Tail(p)) = 1 /\ 1 \in 1 .. Len(p) - 1 /\ 1 + 1 = 2
    BY <1>2, <1>4
  <2>2. Tail(p)[1] = p[2]
    BY <1>2, <2>1
  <2>3. \A t \in Seq(S) : Len(t) = 1 => t # << >> /\ Tail(t) \in Seq(S) /\ Len(Tail(t)) = 0
    <3> SUFFICES ASSUME NEW t \in Seq(S), Len(t) = 1
                 PROVE  t # << >> /\ Tail(t) \in Seq(S) /\ Len(Tail(t)) = 0
      OBVIOUS
    <3>1. t # << >>
      <4>1. 1 # 0 /\ Len(t) = 1
        OBVIOUS
      <4> QED BY ONLY <4>1, NotNone
    <3>2. Tail(t) \in Seq(S) /\ Len(Tail(t)) = Len(t) - 1
      BY <3>1
    <3> QED BY <3>1, <3>2
  <2>4. Tail(p) # << >> /\ Tail(Tail(p)) \in Seq(S) /\ Len(Tail(Tail(p))) = 0
    BY ONLY <1>2, <2>1, <2>3
  <2>5. Tail(Tail(p)) = << >>
    BY ONLY <2>4, EmptySeq
  <2> QED BY <2>2, <2>4, <2>5
<1> QED BY <1>1, <1>2, <1>3, <1>4

LEMMA TailConcat ==
  ASSUME NEW S, NEW p \in Seq(S), NEW q \in Seq(S), p # << >>
  PROVE  Tail(p \o q) = Tail(p) \o q
<1> DEFINE m == Len(p)
           k == Len(q)
           c == p \o q
           t == Tail(p)
<1>1. m \in Nat \ {0} /\ k \in Nat
  OBVIOUS
<1>2. c \in Seq(S) /\ Len(c) = m + k
  OBVIOUS
<1>3. \A i \in 1 .. m + k : c[i] = IF i <= m THEN p[i] ELSE q[i - m]
  OBVIOUS
<1>4. t \in Seq(S) /\ Len(t) = m - 1
  OBVIOUS
<1>5. \A i \in 1 .. m - 1 : t[i] = p[i + 1]
  OBVIOUS
<1> HIDE DEF m, k, c, t
<1> DEFINE a == Tail(c)
           b == t \o q
<1>6. a \in Seq(S) /\ Len(a) = m + k - 1 /\ \A i \in 1 .. m + k - 1 : a[i] = c[i + 1]
  <2>1. Len(c) # 0
    BY ONLY <1>1, <1>2
  <2>2. c # << >>
    BY ONLY <2>1, NotNone
  <2>3. a \in Seq(S) /\ Len(a) = Len(c) - 1 /\ \A i \in 1 .. Len(c) - 1 : a[i] = c[i + 1]
    BY ONLY <1>2, <2>2
  <2> HIDE DEF a
  <2>4. Len(c) - 1 = m + k - 1
    BY ONLY <1>1, <1>2
  <2> QED BY ONLY <2>3, <2>4
<1>7. b \in Seq(S) /\ Len(b) = m - 1 + k
  BY ONLY <1>1, <1>4, q \in Seq(S) DEF k
<1>8. \A i \in 1 .. m - 1 + k : b[i] = IF i <= m - 1 THEN t[i] ELSE q[i - (m - 1)]
  BY ONLY <1>1, <1>4, q \in Seq(S) DEF k
<1> HIDE DEF a, b
<1>9. ASSUME NEW i \in 1 .. Len(a)
      PROVE  a[i] = b[i]
  <2>1. PICK j : j = i + 1
    OBVIOUS
  <2>4. a[i] = c[j] /\ i \in 1 .. m - 1 + k /\ j \in 1 .. m + k
    BY ONLY <1>1, <1>6, <2>1, i \in 1 .. Len(a)
  <2>2. CASE i <= m - 1
    <3>1. j <= m /\ i \in 1 .. m - 1
      BY ONLY <1>1, <2>1, <2>2, <2>4
    <3>2. c[j] = p[j]
      BY ONLY <1>3, <3>1, <2>4
    <3>3. b[i] = t[i] /\ t[i] = p[i + 1]
      BY ONLY <1>5, <1>8, <2>4, <2>2, <3>1
    <3> QED BY ONLY <2>1, <2>4, <3>2, <3>3
  <2>3. CASE ~ (i <= m - 1)
    <3>1. ~ (j <= m) /\ j - m = i - (m - 1)
      BY ONLY <1>1, <2>1, <2>3, <2>4
    <3>2. c[j] = q[j - m]
      BY ONLY <1>3, <3>1, <2>4
    <3>3. b[i] = q[i - (m - 1)]
      BY ONLY <1>8, <2>4, <2>3
    <3> QED BY ONLY <2>4, <3>1, <3>2, <3>3
  <2> QED BY ONLY <2>2, <2>3
<1>10. Len(a) = Len(b)
  BY ONLY <1>1, <1>6, <1>7
<1>11. a = b
  BY ONLY <1>6, <1>7, <1>9, <1>10, SeqEqual
<1> QED BY ONLY <1>11 DEF a, b, c, t

(* The calls that return into actions, when calls have taken the place of  *)
(* the innermost one.                                                      *)
LEMMA NextsAfter ==
  ASSUME NEW st, GoodStack(st), NEW fs, Fits(fs, st), NEW new, new = fs \o Below(st), NEW stp,
         NEW num \in [Actions -> Nat], NEW mid \in [Actions -> Nat], NEW end \in [Actions -> Nat],
         NextsOk(st, num, stp),
         st # << >> => \A a \in OfKind({"execute"}) :
                         \/ mid[a] = 0
                         \/ mid[a] + One(st[1].op = "next" /\ st[1].of = a) <= num[a],
         \A a \in OfKind({"execute"}) :
           end[a] <= mid[a] + One(fs # << >> /\ fs[Len(fs)].op = "next" /\ fs[Len(fs)].of = a),
         \A i \in 1 .. Len(fs) :
           fs[i].op = "next" /\ program.kind[fs[i].of] \notin Continuations /\ end[fs[i].of] > 0 =>
             Ok(fs[i].of, fs[i].args, stp)
  PROVE  NextsOk(new, end, stp)
<1> DEFINE low == Below(st)
<1>1. fs \in Seq(Frames) /\ Len(fs) \in {0, 1, 2} /\ low \in Seq(Frames)
  <2>1. fs \in Seq(Frames) /\ Len(fs) \in Nat /\ Len(fs) <= 2 /\ st \in Seq(Frames)
    BY DEF Fits, GoodStack
  <2>2. \A k \in Nat : k <= 2 => k \in {0, 1, 2}
    OBVIOUS
  <2>3. low \in Seq(Frames)
    BY <2>1 DEF Below
  <2> QED BY <2>1, <2>2, <2>3
<1>0. \A t \in Seq(Frames) : Len(t) > 0 => t # << >>
  OBVIOUS
<1>2. GoodStack(new) /\ (fs # << >> => new # << >> /\ new[1] = fs[1])
  <2>1. Replaces(new, st, fs)
    BY DEF Replaces
  <2> QED BY <2>1, StackFact
<1>3. \A f \in [Actions -> Nat] : NextsOk(<< >>, f, stp)
  BY DEF NextsOk, NextsOf
<1>4. NextsOk(low, mid, stp)
  <2>1. CASE st = << >>
    BY <1>3, <2>1 DEF Below
  <2>2. CASE st # << >>
    BY <2>2, NextsPopped DEF Below
  <2> QED BY <2>1, <2>2
<1>5. CASE fs = << >>
  <2>1. new = low
    BY <1>1, <1>5
  <2>2. CASE st = << >>
    BY <1>3, <2>1, <2>2 DEF Below
  <2>3. CASE st # << >>
    <3>1. \A a \in OfKind({"execute"}) : end[a] <= mid[a]
      <4>1. \A a : One(fs # << >> /\ fs[Len(fs)].op = "next" /\ fs[Len(fs)].of = a) = 0
        BY <1>5 DEF One
      <4>2. \A a \in OfKind({"execute"}) : end[a] \in Nat /\ mid[a] \in Nat
        BY DEF OfKind
      <4> SUFFICES ASSUME NEW a \in OfKind({"execute"}) PROVE end[a] <= mid[a]
        OBVIOUS
      <4>3. end[a] <= mid[a] + One(fs # << >> /\ fs[Len(fs)].op = "next" /\ fs[Len(fs)].of = a)
        OBVIOUS
      <4>4. end[a] <= mid[a] + 0
        BY <4>1, <4>3
      <4> QED BY <4>2, <4>4
    <3>2. ASSUME NEW a \in OfKind({"execute"})
          PROVE  end[a] = 0 \/ end[a] + One(st[1].op = "next" /\ st[1].of = a) <= num[a]
      <4>1. PICK k : k = One(st[1].op = "next" /\ st[1].of = a)
        OBVIOUS
      <4>2. k \in Nat /\ end[a] \in Nat /\ mid[a] \in Nat /\ num[a] \in Nat
        BY <4>1 DEF One, OfKind
      <4>3. mid[a] = 0 \/ mid[a] + k <= num[a]
        BY <2>3, <4>1
      <4>4. end[a] = 0 \/ end[a] + k <= num[a]
        BY <3>1, <4>2, <4>3
      <4> QED BY <4>1, <4>4
    <3> QED BY <2>1, <2>3, <3>2, NextsPopped DEF Below
  <2> QED BY <2>2, <2>3
<1>6. CASE Len(fs) = 1
  <2>1. fs # << >> /\ Tail(new) = low /\ 1 \in 1 .. Len(fs) /\ fs[Len(fs)] = fs[1]
    <3>1. fs # << >> /\ Tail(fs) = << >> /\ 1 \in 1 .. Len(fs)
      BY <1>1, <1>6, ShortTail
    <3>2. Tail(new) = Tail(fs) \o low
      BY <1>1, <3>1, TailConcat
    <3>3. << >> \o low = low
      BY <1>1
    <3> QED BY <1>6, <3>1, <3>2, <3>3
  <2>2. \A a \in OfKind({"execute"}) : end[a] <= mid[a] + One(new[1].op = "next" /\ new[1].of = a)
    BY <1>2, <2>1 DEF One
  <2> HIDE DEF low
  <2> QED BY <1>2, <1>4, <2>1, <2>2, NextsPushed
<1>7. CASE Len(fs) = 2
  <2>1. /\ fs # << >> /\ Tail(new) = Tail(fs) \o low /\ 1 \in 1 .. Len(fs) /\ 2 \in 1 .. Len(fs)
        /\ Tail(fs) # << >> /\ Tail(fs) \in Seq(Frames) /\ Len(Tail(fs)) = 1 /\ Tail(fs)[1] = fs[2]
    <3>1. /\ fs # << >> /\ Tail(fs) \in Seq(Frames) /\ Len(Tail(fs)) = 1
          /\ Tail(fs) # << >> /\ Tail(fs)[1] = fs[2]
      BY <1>1, <1>7, ShortTail
    <3>2. Tail(new) = Tail(fs) \o low
      BY <1>1, <3>1, TailConcat
    <3> QED BY <1>7, <3>1, <3>2
  <2>2. Tail(Tail(new)) = low
    <3>1. Tail(Tail(fs)) = << >>
      BY <1>1, <1>7, ShortTail
    <3>2. Tail(Tail(fs) \o low) = Tail(Tail(fs)) \o low
      BY <1>1, <2>1, TailConcat
    <3>3. << >> \o low = low
      BY <1>1
    <3> QED BY <2>1, <3>1, <3>2, <3>3
  <2>3. GoodStack(Tail(new)) /\ Tail(new) # << >> /\ Tail(new)[1] = fs[2]
    <3>1. GoodStack(Tail(new))
      BY <1>2, <2>1, TailGood
    <3>2. \A t \in Seq(Frames) : t # << >> => t \o low # << >> /\ (t \o low)[1] = t[1]
      BY <1>1
    <3>3. Tail(fs) \o low # << >> /\ (Tail(fs) \o low)[1] = Tail(fs)[1]
      BY <2>1, <3>2
    <3> QED BY <2>1, <3>1, <3>3
  <2>4. fs[Len(fs)] = fs[2]
    BY <1>7
  <2> HIDE DEF low
  <2>5. \A a \in OfKind({"execute"}) :
          end[a] <= mid[a] + One(Tail(new)[1].op = "next" /\ Tail(new)[1].of = a)
    BY <2>1, <2>3, <2>4 DEF One
  <2>6. NextsOk(Tail(new), end, stp)
    BY <1>4, <2>1, <2>2, <2>3, <2>5, NextsPushed
  <2>7. \A a \in OfKind({"execute"}) : end[a] <= end[a] + One(new[1].op = "next" /\ new[1].of = a)
    <3>1. \A a \in OfKind({"execute"}) : end[a] \in Nat
      BY DEF OfKind
    <3> QED BY <3>1 DEF One
  <2> QED BY <1>2, <2>1, <2>6, <2>7, NextsPushed
<1> QED BY <1>1, <1>5, <1>6, <1>7, EmptySeq

(* pop_front is the outermost call, and stays it until it is made.         *)
LEMMA PoppingStays ==
  ASSUME NEW st, GoodStack(st), st # << >>, st[1].op # "pop_front", NEW fs, Fits(fs, st),
         NEW new, new = fs \o Below(st), NEW a
  PROVE  Popping(new, a) <=> Popping(st, a)
<1> DEFINE n == Len(st)
           m == Len(new)
           k == Len(fs)
<1>1. /\ n \in Nat \ {0} /\ k \in Nat /\ m = k + (n - 1) /\ new \in Seq(Frames)
      /\ \A i \in 1 .. m : \/ i <= k /\ new[i] = fs[i]
                           \/ i > k /\ i - k + 1 <= n /\ new[i] = st[i - k + 1]
  <2>1. st \in Seq(Frames) /\ fs \in Seq(Frames)
    BY DEF GoodStack, Fits
  <2>2. n \in Nat \ {0} /\ k \in Nat
    BY <2>1
  <2>3. /\ GoodStack(new) /\ m = k + Len(Below(st)) /\ Len(Below(st)) = n - 1
        /\ \A i \in 1 .. m : \/ i <= k /\ new[i] = fs[i]
                             \/ i > k /\ i - k + 1 <= n /\ new[i] = st[i - k + 1]
    <3>1. Replaces(new, st, fs) /\ st # << >>
      BY DEF Replaces
    <3> QED BY ONLY <3>1, StackFact
  <2> QED BY <2>2, <2>3 DEF GoodStack
<1>2. new # << >> => m \in 1 .. m
  BY <1>1
<1> HIDE DEF n, m, k
<1>3. CASE n = 1
  <2>1. ~ Popping(st, a)
    BY <1>3 DEF Popping, n
  <2>2. ASSUME Popping(new, a) PROVE FALSE
    <3>1. new # << >> /\ new[m].op = "pop_front"
      BY <2>2 DEF Popping, m
    <3>2. m = k /\ m \in 1 .. m
      BY <1>1, <1>2, <1>3, <3>1
    <3>3. m <= k
      BY <1>1, <3>2
    <3>4. new[m] = fs[m]
      <4>1. ~ (m > k)
        BY <1>1, <3>2
      <4> QED BY <1>1, <3>2, <4>1
    <3>5. m \in 1 .. Len(fs) /\ fs[m].op = "pop_front"
      BY <3>1, <3>2, <3>4 DEF k
    <3> QED BY <3>5 DEF Fits
  <2> QED BY <2>1, <2>2
<1>4. CASE n # 1
  <2>1. m \in 1 .. m /\ m > k /\ m - k + 1 = n
    BY <1>1, <1>4
  <2>2. new[m] = st[n]
    <3>1. ~ (m <= k)
      BY <1>1, <2>1
    <3>2. new[m] = st[m - k + 1]
      BY <1>1, <2>1, <3>1
    <3> QED BY <2>1, <3>2
  <2>3. new # << >>
    BY <1>1, <2>1 DEF m
  <2> QED BY <2>2, <2>3 DEF Popping, n, m
<1> QED BY <1>3, <1>4

(* Who carries instances on, and what may become a claim of it.            *)
Nudges(fs, a) ==
  fs # << >> /\ \/ fs[1].op = "play" /\ fs[1].of \in Inside(a)
                \/ fs[1].op = "next" /\ fs[1].of = a

LEMMA HolderFact ==
  ASSUME program \in Programs, NEW a \in Holders
  PROVE  /\ a \in Actions /\ program.kind[a] \notin {"execute"} \cup Continuations
         /\ program.kind[a] \in {"delay", "wait", "if", "while", "repeat"}
         /\ program.kind[a] = "wait" => a \in Waits
         /\ Proper(a) \in SUBSET Actions /\ a \notin Proper(a)
<1>1. /\ a \in Actions /\ program.kind[a] \in {"delay", "wait", "if", "while", "repeat"}
      /\ program.kind[a] = "wait" => a \in Waits
  BY DEF Holders, OfKind, Waits
<1>2. program.kind[a] \notin {"execute"} \cup Continuations
  BY <1>1 DEF Continuations
<1>3. Inside(a) \subseteq Actions /\ a \notin Inside(a)
  BY <1>1, ListFact, NoSelf
<1> QED BY <1>1, <1>2, <1>3 DEF Proper

LEMMA ClaimsAfter ==
  ASSUME program \in Programs, NEW st, NEW fs, NEW new, Replaces(new, st, fs),
         NEW a \in Holders, NEW num, Claims(new, a, num)
  PROVE  Nudges(fs, a)
<1>1. /\ new # << >>
      /\ \/ new[1].op = "play" /\ new[1].of \in Inside(a)
         \/ new[1].op = "next" /\ new[1].of = a
  BY DEF Claims
<1>2. /\ fs # << >> => new[1] = fs[1]
      /\ fs = << >> /\ new # << >> => Lower(new[1])
  BY StackFact
<1>3. program.kind[a] \notin {"execute"} \cup Continuations
  BY HolderFact
<1>4. fs # << >>
  BY <1>1, <1>2, <1>3 DEF Lower
<1> QED BY <1>1, <1>2, <1>4 DEF Nudges

LEMMA SizeFact ==
  ASSUME program \in Programs, NEW a \in Holders, NEW ts, IsFiniteSet(ts),
         NEW w \in [Waits -> Seq(Instances)], NEW num \in [Actions -> Nat],
         IsFiniteSet(Pairs(Actions, num))
  PROVE  /\ Size(a, ts, w, num) \in Nat
         /\ IsFiniteSet({t \in ts : t.of = a})
<1>1. IsFiniteSet({t \in ts : t.of = a}) /\ Cardinality({t \in ts : t.of = a}) \in Nat
  <2>1. {t \in ts : t.of = a} \subseteq ts
    OBVIOUS
  <2> HIDE DEF Holders
  <2>2. IsFiniteSet({t \in ts : t.of = a})
    BY <2>1, FS_Subset
  <2> QED BY <2>2, FS_CardinalityType
<1>2. program.kind[a] = "wait" => Len(w[a]) \in Nat
  BY HolderFact
<1>3. Cardinality(Pairs(Proper(a), num)) \in Nat
  <2>1. \A b \in Actions : num[b] <= num[b]
    OBVIOUS
  <2>2. Proper(a) \in SUBSET Actions
    BY HolderFact
  <2> QED BY <2>1, <2>2, CountLess
<1> QED BY <1>1, <1>2, <1>3 DEF Size

(* What is known before a step.                                            *)
LEMMA HeldFact ==
  ASSUME ShapeInv, LimitsInv, HeldInv
  PROVE  /\ program \in Programs /\ GoodStack(stack)
         /\ IsFiniteSet(timers) /\ waiting \in [Waits -> Seq(Instances)]
         /\ num_running \in [Actions -> Nat] /\ IsFiniteSet(Pairs(Actions, num_running))
         /\ \A a \in Holders :
              /\ Size(a, timers, waiting, num_running) \in Nat
              /\ num_running[a] \in Nat
              /\ Size(a, timers, waiting, num_running) + One(Claims(stack, a, num_running))
                   <= num_running[a] + One(Popping(stack, a))
<1>1. /\ program \in Programs /\ GoodStack(stack) /\ waiting \in [Waits -> Seq(Instances)]
      /\ num_running \in [Actions -> Nat] /\ IsFiniteSet(Pairs(Actions, num_running))
  BY DEF ShapeInv, TypeInv, LimitsInv
<1>2. /\ IsFiniteSet(timers)
      /\ \A a \in Holders :
           Size(a, timers, waiting, num_running) + One(Claims(stack, a, num_running))
             <= num_running[a] + One(Popping(stack, a))
  BY DEF HeldInv, Balanced
<1>3. \A a \in Holders : Size(a, timers, waiting, num_running) \in Nat
  BY <1>1, <1>2, SizeFact
<1>4. \A a \in Holders : num_running[a] \in Nat
  BY <1>1, HolderFact
<1> QED BY <1>1, <1>2, <1>3, <1>4

LEMMA OneFact ==
  /\ \A b : One(b) \in {0, 1} /\ (b => One(b) = 1) /\ (~ b => One(b) = 0)
  /\ \A b, c : (b => c) => One(b) <= One(c)
BY DEF One

(* The steps that leave alone what is counted and held.                    *)
LEMMA StayBalanced ==
  ASSUME ShapeInv, LimitsInv, HeldInv, NEW fs, NEW new, Replaces(new, stack, fs),
         \A a \in Holders : ~ Nudges(fs, a),
         \A a : Popping(stack, a) => Popping(new, a)
  PROVE  Balanced(timers, waiting, num_running, new)
<1> SUFFICES ASSUME NEW a \in Holders
             PROVE  Size(a, timers, waiting, num_running) + One(Claims(new, a, num_running))
                      <= num_running[a] + One(Popping(new, a))
  BY HeldFact DEF Balanced
<1>1. PICK n, k, c, p, q : /\ n = Size(a, timers, waiting, num_running) /\ k = num_running[a]
                           /\ c = One(Claims(stack, a, num_running))
                           /\ p = One(Popping(stack, a)) /\ q = One(Popping(new, a))
  OBVIOUS
<1>2. n \in Nat /\ k \in Nat /\ n + c <= k + p
  BY <1>1, HeldFact
<1>3. c \in {0, 1} /\ p \in {0, 1} /\ q \in {0, 1} /\ p <= q
  BY <1>1, OneFact
<1>4. One(Claims(new, a, num_running)) = 0
  <2>1. ~ Claims(new, a, num_running)
    BY HeldFact, ClaimsAfter
  <2> QED BY <2>1, OneFact
<1>5. n + 0 <= k + q
  BY ONLY <1>2, <1>3
<1> QED BY <1>1, <1>4, <1>5

(* An instance enters an action, which holds it or makes calls with it.    *)
Gains(ts, w, held) ==
  \A a \in Holders :
    /\ program.kind[a] = "delay" =>
         Cardinality({t \in ts : t.of = a})
           <= Cardinality({t \in timers : t.of = a}) + One(held /\ a = This)
    /\ program.kind[a] = "wait" => Len(w[a]) <= Len(waiting[a]) + One(held /\ a = This)

LEMMA EnteredSize ==
  ASSUME ShapeInv, LimitsInv, HeldInv, Top("play"), This \in Actions,
         NEW ts, IsFiniteSet(ts), NEW w \in [Waits -> Seq(Instances)], NEW held,
         Gains(ts, w, held), NEW a \in Holders
  PROVE  /\ Size(a, ts, w, Entered(This)) \in Nat
         /\ Size(a, ts, w, Entered(This))
              <= Size(a, timers, waiting, num_running) + One(held /\ a = This)
                 + One(This \in Proper(a))
<1>1. /\ program \in Programs /\ IsFiniteSet(Pairs(Actions, num_running))
      /\ num_running \in [Actions -> Nat]
      /\ Size(a, timers, waiting, num_running) \in Nat
  BY HeldFact
<1>2. /\ Entered(This) \in [Actions -> Nat]
      /\ Entered(This)[This] = num_running[This] + 1
      /\ \A b \in Actions : b # This => Entered(This)[b] = num_running[b]
  BY <1>1, EnteredFact DEF One, Entered
<1>3. Proper(a) \in SUBSET Actions
  BY <1>1, HolderFact
<1> DEFINE num == Entered(This)
<1>4. /\ IsFiniteSet(Pairs(Actions, num))
      /\ Cardinality(Pairs(Proper(a), num))
           = Cardinality(Pairs(Proper(a), num_running)) + One(This \in Proper(a))
  <2> HIDE DEF num
  <2>1. num \in [Actions -> Nat] /\ num[This] = num_running[This] + 1
        /\ \A b \in Actions : b # This => num[b] = num_running[b]
    BY <1>2 DEF num
  <2>2. PICK b \in Actions : b = This
    OBVIOUS
  <2>3. PICK new \in [Actions -> Nat] : new = num
    BY <2>1
  <2>4. new[b] = num_running[b] + 1 /\ \A c \in Actions : c # b => new[c] = num_running[c]
    BY ONLY <2>1, <2>2, <2>3
  <2>5. /\ IsFiniteSet(Pairs(Actions, new))
        /\ \A S \in SUBSET Actions :
             Cardinality(Pairs(S, new)) = Cardinality(Pairs(S, num_running)) + One(b \in S)
    <3>1. IsFiniteSet(Pairs(Actions, num_running)) /\ num_running \in [Actions -> Nat]
      BY <1>1
    <3> HIDE DEF Actions
    <3> QED BY ONLY <2>4, <3>1, b \in Actions, new \in [Actions -> Nat], CountAdd
  <2> QED BY <1>3, <2>2, <2>3, <2>5
<1> HIDE DEF num
<1>5. Size(a, ts, w, num) \in Nat
  <2>1. num \in [Actions -> Nat]
    BY <1>2 DEF num
  <2> QED BY <1>1, <1>4, <2>1, SizeFact
<1>6. PICK n, m, h, p : /\ n = Size(a, timers, waiting, num_running) /\ m = Size(a, ts, w, num)
                        /\ h = One(held /\ a = This) /\ p = One(This \in Proper(a))
  OBVIOUS
<1>7. n \in Nat /\ m \in Nat /\ h \in {0, 1} /\ p \in {0, 1}
  BY <1>1, <1>5, <1>6, OneFact
<1>8. m <= n + h \/ m = n + p
  <2>1. CASE program.kind[a] \in {"delay", "wait"}
    BY <1>6, <2>1 DEF Size, Gains
  <2>2. CASE program.kind[a] \notin {"delay", "wait"}
    BY <1>4, <1>6, <2>2 DEF Size
  <2> QED BY <2>1, <2>2
<1>9. m <= n + h + p
  BY ONLY <1>7, <1>8
<1> QED BY <1>5, <1>6, <1>9 DEF num

LEMMA EnterBalanced ==
  ASSUME ShapeInv, LimitsInv, HeldInv, Top("play"),
         NEW ts, IsFiniteSet(ts), NEW w \in [Waits -> Seq(Instances)], NEW held, Gains(ts, w, held),
         NEW fs, NEW new, Replaces(new, stack, fs), held => fs = << >>,
         \A a \in Holders : Nudges(fs, a) =>
           \/ a = This
           \/ program.kind[This] \in Continuations /\ This \in Inside(a)
  PROVE  Balanced(ts, w, Entered(This), new)
<1>1. stack # << >> /\ stack[1].op = "play" /\ This \in Actions
  BY TopFact DEF Top
<1>2. program \in Programs /\ GoodStack(stack)
  BY HeldFact
<1> SUFFICES ASSUME NEW a \in Holders
             PROVE  Size(a, ts, w, Entered(This)) + One(Claims(new, a, Entered(This)))
                      <= Entered(This)[a] + One(Popping(new, a))
  BY DEF Balanced
<1>3. PICK n, k, c, p : /\ n = Size(a, timers, waiting, num_running) /\ k = num_running[a]
                        /\ c = One(Claims(stack, a, num_running)) /\ p = One(Popping(stack, a))
  OBVIOUS
<1>4. n \in Nat /\ k \in Nat /\ n + c <= k + p
  BY <1>3, HeldFact
<1>5. PICK m, h, q, d, e : /\ m = Size(a, ts, w, Entered(This)) /\ h = One(held /\ a = This)
                           /\ q = One(This \in Proper(a))
                           /\ d = One(Claims(new, a, Entered(This))) /\ e = One(a = This)
  OBVIOUS
<1>6. m \in Nat /\ m <= n + h + q
  BY <1>1, <1>3, <1>5, EnteredSize
<1>7. Entered(This)[a] = k + e
  BY <1>1, <1>2, <1>3, <1>5, EnteredFact, HolderFact
<1>8. One(Popping(new, a)) = p
  <2>1. Popping(new, a) <=> Popping(stack, a)
    <3>1. Fits(fs, stack) /\ new = fs \o Below(stack) /\ stack[1].op # "pop_front"
      BY <1>1 DEF Replaces
    <3> QED BY <1>1, <1>2, <3>1, PoppingStays
  <2> QED BY <1>3, <2>1, OneFact DEF One
<1>9. c \in {0, 1} /\ p \in {0, 1} /\ h \in {0, 1} /\ q \in {0, 1} /\ d \in {0, 1} /\ e \in {0, 1}
  BY <1>3, <1>5, OneFact
<1>10. d = 1 => Nudges(fs, a)
  <2>1. Claims(new, a, Entered(This)) => Nudges(fs, a)
    BY <1>2, ClaimsAfter
  <2> QED BY <1>5, <2>1 DEF One
<1>11. a = This => q = 0 /\ e = 1
  <2>1. a \notin Proper(a)
    BY <1>2, HolderFact
  <2> QED BY <1>5, <2>1 DEF One
<1>12. h = 1 => d = 0
  <2>1. h = 1 => ~ Nudges(fs, a)
    BY <1>5 DEF One, Nudges
  <2> QED BY <1>9, <1>10, <2>1
<1>13. a # This => h = 0 /\ (q = 1 \/ d = 1 => c = 1) /\ ~ (q = 1 /\ d = 1)
  <2> SUFFICES ASSUME a # This PROVE h = 0 /\ (q = 1 \/ d = 1 => c = 1) /\ ~ (q = 1 /\ d = 1)
    OBVIOUS
  <2>1. h = 0
    BY <1>5 DEF One
  <2>2. q = 1 => This \in Inside(a) /\ program.kind[This] \notin Continuations
    BY <1>5 DEF One, Proper
  <2>3. d = 1 => This \in Inside(a) /\ program.kind[This] \in Continuations
    BY <1>10
  <2>4. This \in Inside(a) => c = 1
    BY <1>1, <1>3 DEF Claims, One, This
  <2> QED BY <2>1, <2>2, <2>3, <2>4
<1>14. m + d <= k + e + p
  BY ONLY <1>4, <1>6, <1>9, <1>11, <1>12, <1>13
<1> QED BY <1>5, <1>7, <1>8, <1>14

(* An instance leaves an action, for the next one of the list if there is. *)
LEMMA LeaveBalanced ==
  ASSUME ShapeInv, LimitsInv, HeldInv, Top("next"),
         NEW num \in [Actions -> Nat], num_running[This] = num[This] + 1,
         \A b \in Actions : b # This => num_running[b] = num[b],
         NEW new, Replaces(new, stack, IF Following(This) = None THEN << >>
                                       ELSE << Frame("play", Following(This), Args) >>)
  PROVE  Balanced(timers, waiting, num, new)
<1> DEFINE fs == IF Following(This) = None THEN << >>
                 ELSE << Frame("play", Following(This), Args) >>
<1>1. stack # << >> /\ stack[1].op = "next" /\ This \in Actions
  BY TopFact DEF Top
<1>2. program \in Programs /\ GoodStack(stack) /\ IsFiniteSet(timers)
  BY HeldFact
<1>3. \A a \in Holders : Nudges(fs, a) => This \in Proper(a)
  <2> SUFFICES ASSUME NEW a \in Holders, Nudges(fs, a) PROVE This \in Proper(a)
    OBVIOUS
  <2>1. Following(This) # None /\ Following(This) \in Inside(a)
    BY DEF Nudges, Frame
  <2>2. a \in Actions
    BY <1>2, HolderFact
  <2>3. This \in Inside(a) /\ program.kind[This] \notin Continuations
    BY <1>1, <1>2, <2>1, <2>2, FollowingFact
  <2> QED BY <2>3 DEF Proper
<1> SUFFICES ASSUME NEW a \in Holders
             PROVE  Size(a, timers, waiting, num) + One(Claims(new, a, num))
                      <= num[a] + One(Popping(new, a))
  BY <1>2 DEF Balanced
<1>4. PICK f : f = fs
  OBVIOUS
<1>5. Replaces(new, stack, f) /\ (Nudges(f, a) => This \in Proper(a))
  BY <1>3, <1>4
<1> HIDE DEF fs
<1>6. One(Popping(new, a)) = One(Popping(stack, a))
  <2>1. Popping(new, a) <=> Popping(stack, a)
    <3>1. Fits(f, stack) /\ new = f \o Below(stack) /\ stack[1].op # "pop_front"
      BY <1>1, <1>5 DEF Replaces
    <3> QED BY <1>1, <1>2, <3>1, PoppingStays
  <2> QED BY <2>1 DEF One
<1>7. /\ IsFiniteSet(Pairs(Actions, num_running)) /\ num_running \in [Actions -> Nat]
      /\ waiting \in [Waits -> Seq(Instances)]
  BY HeldFact
<1>8. IsFiniteSet(Pairs(Actions, num))
  <2>1. \A b \in Actions : num[b] <= num_running[b]
    BY <1>1
  <2> QED BY <1>7, <2>1, CountLess
<1>9. Cardinality(Pairs(Proper(a), num_running))
        = Cardinality(Pairs(Proper(a), num)) + One(This \in Proper(a))
  <2>1. Proper(a) \in SUBSET Actions
    BY <1>2, HolderFact
  <2>2. PICK b \in Actions : b = This
    BY <1>1
  <2>3. num_running[b] = num[b] + 1 /\ \A c \in Actions : c # b => num_running[c] = num[c]
    BY <2>2
  <2>4. PICK A, old : A = Actions /\ old = num_running
    OBVIOUS
  <2>5. /\ num \in [A -> Nat] /\ b \in A /\ old \in [A -> Nat] /\ IsFiniteSet(Pairs(A, num))
        /\ old[b] = num[b] + 1 /\ \A c \in A : c # b => old[c] = num[c]
    BY <1>7, <1>8, <2>3, <2>4
  <2>6. \A S \in SUBSET A : Cardinality(Pairs(S, old)) = Cardinality(Pairs(S, num)) + One(b \in S)
    BY ONLY <2>5, CountAdd
  <2> QED BY <2>1, <2>2, <2>4, <2>6
<1>10. PICK n, k, c, p : /\ n = Size(a, timers, waiting, num_running) /\ k = num_running[a]
                         /\ c = One(Claims(stack, a, num_running)) /\ p = One(Popping(stack, a))
  OBVIOUS
<1>11. n \in Nat /\ k \in Nat /\ n + c <= k + p
  BY <1>10, HeldFact
<1>12. PICK m, q, d, e : /\ m = Size(a, timers, waiting, num) /\ q = One(This \in Proper(a))
                         /\ d = One(Claims(new, a, num)) /\ e = One(a = This)
  OBVIOUS
<1>13. m \in Nat
  BY <1>2, <1>7, <1>8, <1>12, SizeFact
<1>14. c \in {0, 1} /\ p \in {0, 1} /\ q \in {0, 1} /\ d \in {0, 1} /\ e \in {0, 1}
  BY <1>10, <1>12, OneFact
<1>15. num[a] \in Nat /\ k = num[a] + e
  <2>1. a \in Actions
    BY <1>2, HolderFact
  <2> QED BY <1>1, <1>10, <1>12, <2>1 DEF One
<1>16. n = m + q
  <2>1. CASE program.kind[a] \in {"delay", "wait"}
    <3>1. Inside(a) = {}
      BY <2>1 DEF Inside, InsideOf, Branches
    <3>2. q = 0
      BY <1>12, <3>1 DEF Proper, One
    <3>3. n = m
      BY <1>10, <1>12, <2>1 DEF Size
    <3> QED BY ONLY <1>13, <3>2, <3>3
  <2>2. CASE program.kind[a] \notin {"delay", "wait"}
    BY <1>9, <1>10, <1>12, <2>2 DEF Size
  <2> QED BY <2>1, <2>2
<1>17. d <= q
  <2>1. Claims(new, a, num) => This \in Proper(a)
    BY <1>2, <1>5, ClaimsAfter
  <2> QED BY <1>12, <2>1, OneFact
<1>18. e = 1 => c = 1 /\ q = 0
  <2> SUFFICES ASSUME a = This PROVE c = 1 /\ q = 0
    BY <1>12 DEF One
  <2>1. a \notin Proper(a) /\ a \in Actions
    BY <1>2, HolderFact
  <2>2. num_running[a] > 0
    BY <2>1
  <2>3. Claims(stack, a, num_running)
    BY <1>1, <2>2 DEF Claims, This
  <2> QED BY <1>10, <1>12, <2>1, <2>3 DEF One
<1>19. m + d <= num[a] + p
  BY ONLY <1>11, <1>13, <1>14, <1>15, <1>16, <1>17, <1>18
<1> QED BY <1>6, <1>10, <1>12, <1>19

(* stop() of a list takes away what it stops together with the instances.  *)
LEMMA HaltedFact ==
  ASSUME program \in Programs, NEW num \in [Actions -> Nat], NEW list, Range(list) \subseteq Actions,
         StopList(list, num), NEW a \in Actions
  PROVE  /\ num_running' \in [Actions -> Nat]
         /\ num_running'[a] \in {0, num[a]}
         /\ a \notin Halted(num) => num_running'[a] = num[a]
         /\ a \in Halted(num) =>
              /\ num_running'[a] = 0 /\ \A b \in Inside(a) : num_running'[b] = 0
              /\ \A t \in timers' : t.of # a
              /\ a \in Waits => waiting'[a] = << >>
         /\ timers' \subseteq timers
         /\ a \in Waits => waiting'[a] \in {<< >>, waiting[a]}
<1>1. /\ num_running' \in [Actions -> Nat]
      /\ \A b \in Actions :
           num_running'[b] = IF b \in Range(list) \/ \E P \in Halted(num) : b \in Inside(P)
                             THEN 0 ELSE num[b]
      /\ timers' = {t \in timers : t.of \notin Halted(num)}
      /\ waiting' = [b \in Waits |-> IF b \in Halted(num) THEN << >> ELSE waiting[b]]
  BY StopListFact
<1>2. num_running'[a] \in {0, num[a]} /\ num[a] \in Nat
  BY <1>1
<1>3. a \notin Halted(num) => num_running'[a] = num[a]
  BY <1>2 DEF Halted
<1>4. ASSUME a \in Halted(num)
      PROVE  /\ num_running'[a] = 0 /\ \A b \in Inside(a) : num_running'[b] = 0
             /\ \A t \in timers' : t.of # a
             /\ a \in Waits => waiting'[a] = << >>
  <2>1. num_running'[a] = 0
    BY <1>4 DEF Halted
  <2>2. \A b \in Inside(a) : num_running'[b] = 0
    BY <1>1, <1>4, ListFact
  <2> QED BY <1>1, <1>4, <2>1, <2>2
<1>5. timers' \subseteq timers /\ (a \in Waits => waiting'[a] \in {<< >>, waiting[a]})
  BY <1>1
<1> QED BY <1>1, <1>2, <1>3, <1>4, <1>5

LEMMA HaltBalanced ==
  ASSUME program \in Programs, NEW num \in [Actions -> Nat], NEW list, Range(list) \subseteq Actions,
         StopList(list, num), IsFiniteSet(Pairs(Actions, num)),
         waiting \in [Waits -> Seq(Instances)], waiting' \in [Waits -> Seq(Instances)],
         NEW new, Balanced(timers, waiting, num, new),
         \A a \in Holders : new # << >> => ~ (new[1].op = "play" /\ new[1].of \in Inside(a))
  PROVE  Balanced(timers', waiting', num_running', new)
<1>1. IsFiniteSet(timers) /\ IsFiniteSet(timers')
  <2>1. IsFiniteSet(timers)
    BY DEF Balanced
  <2>2. timers' \subseteq timers
    BY StopListFact
  <2> QED BY <2>1, <2>2, FS_Subset
<1>2. num_running' \in [Actions -> Nat]
  BY StopListFact
<1>3. /\ IsFiniteSet(Pairs(Actions, num_running'))
      /\ \A S \in SUBSET Actions : Cardinality(Pairs(S, num_running')) <= Cardinality(Pairs(S, num))
  <2>1. \A b \in Actions : num_running'[b] <= num[b]
    <3> SUFFICES ASSUME NEW b \in Actions PROVE num_running'[b] <= num[b]
      OBVIOUS
    <3>1. num_running'[b] \in {0, num[b]} /\ num[b] \in Nat
      BY HaltedFact
    <3> QED BY <3>1
  <2> HIDE DEF Actions
  <2> QED BY ONLY <1>2, <2>1, num \in [Actions -> Nat], IsFiniteSet(Pairs(Actions, num)), CountLess
<1> SUFFICES ASSUME NEW a \in Holders
             PROVE  Size(a, timers', waiting', num_running') + One(Claims(new, a, num_running'))
                      <= num_running'[a] + One(Popping(new, a))
  BY <1>1 DEF Balanced
<1>4. a \in Actions /\ Proper(a) \in SUBSET Actions /\ (program.kind[a] = "wait" => a \in Waits)
  BY HolderFact
<1>5. PICK n, k, c, p : /\ n = Size(a, timers, waiting, num) /\ k = num[a]
                        /\ c = One(Claims(new, a, num)) /\ p = One(Popping(new, a))
  OBVIOUS
<1>6. n \in Nat /\ k \in Nat /\ n + c <= k + p
  BY <1>1, <1>4, <1>5, SizeFact DEF Balanced
<1>7. PICK m, l, d : /\ m = Size(a, timers', waiting', num_running') /\ l = num_running'[a]
                     /\ d = One(Claims(new, a, num_running'))
  OBVIOUS
<1>8. m \in Nat /\ l \in Nat
  BY <1>1, <1>2, <1>3, <1>4, <1>7, SizeFact
<1>9. c \in {0, 1} /\ p \in {0, 1} /\ d \in {0, 1}
  BY <1>5, <1>7, OneFact
<1>10. CASE a \in Halted(num)
  <2>1. /\ l = 0 /\ (\A b \in Inside(a) : num_running'[b] = 0) /\ (\A t \in timers' : t.of # a)
        /\ (a \in Waits => waiting'[a] = << >>)
    BY <1>4, <1>7, <1>10, HaltedFact
  <2>2. d = 0
    <3>1. ~ Claims(new, a, num_running')
      BY <1>7, <2>1 DEF Claims
    <3> QED BY <1>7, <3>1 DEF One
  <2>3. m = 0
    <3>1. CASE program.kind[a] = "delay"
      <4>1. {t \in timers' : t.of = a} = {}
        BY <2>1
      <4> QED BY <1>7, <3>1, <4>1, FS_EmptySet DEF Size
    <3>2. CASE program.kind[a] = "wait"
      <4>1. waiting'[a] = << >>
        BY <1>4, <2>1, <3>2
      <4> QED BY <1>7, <3>2, <4>1 DEF Size
    <3>3. CASE program.kind[a] \notin {"delay", "wait"}
      <4>1. \A b \in Proper(a) : ~ (num_running'[b] > 0) /\ num_running'[b] \in Nat
        BY <2>1 DEF Proper
      <4>2. Cardinality(Pairs(Proper(a), num_running')) = 0
        BY <4>1, CountZero
      <4> QED BY <1>7, <3>3, <4>2 DEF Size
    <3> QED BY <3>1, <3>2, <3>3
  <2>4. m + d <= l + p
    BY ONLY <1>9, <2>1, <2>2, <2>3
  <2> QED BY <1>5, <1>7, <2>4
<1>11. CASE a \notin Halted(num)
  <2>1. l = k /\ timers' \subseteq timers /\ (a \in Waits => waiting'[a] \in {<< >>, waiting[a]})
    BY <1>4, <1>5, <1>7, <1>11, HaltedFact
  <2>2. d <= c
    <3>1. Claims(new, a, num_running') => Claims(new, a, num)
      BY <1>5, <1>7, <2>1 DEF Claims
    <3> QED BY <1>5, <1>7, <3>1, OneFact
  <2>3. m <= n
    <3>1. CASE program.kind[a] = "delay"
      <4>1. {t \in timers' : t.of = a} \subseteq {t \in timers : t.of = a}
        BY <2>1
      <4>2. IsFiniteSet({t \in timers : t.of = a})
        BY <1>1, SizeFact
      <4>3. Cardinality({t \in timers' : t.of = a}) <= Cardinality({t \in timers : t.of = a})
        BY <4>1, <4>2, FS_Subset
      <4> QED BY <1>5, <1>7, <3>1, <4>3 DEF Size
    <3>2. CASE program.kind[a] = "wait"
      <4>1. Len(<< >>) = 0
        OBVIOUS
      <4>2. waiting'[a] \in {<< >>, waiting[a]} /\ n = Len(waiting[a]) /\ m = Len(waiting'[a])
        BY <1>4, <1>5, <1>7, <2>1, <3>2 DEF Size
      <4> QED BY ONLY <1>6, <4>1, <4>2
    <3>3. CASE program.kind[a] \notin {"delay", "wait"}
      BY <1>3, <1>4, <1>5, <1>7, <3>3 DEF Size
    <3> QED BY <3>1, <3>2, <3>3
  <2>4. m + d <= l + p
    BY ONLY <1>6, <1>8, <1>9, <2>1, <2>2, <2>3
  <2> QED BY <1>5, <1>7, <2>4
<1> QED BY <1>10, <1>11

(* What the main loop resumes is still held, or was just now.              *)
LEMMA FireBalanced ==
  ASSUME ShapeInv, LimitsInv, HeldInv, stack = << >>, NEW t \in timers, NEW new,
         new = << Frame("next", t.of, t.args) >>
  PROVE  Balanced(timers \ {t}, waiting, num_running, new)
<1>1. IsFiniteSet(timers) /\ IsFiniteSet(timers \ {t}) /\ program \in Programs
  BY HeldFact, FS_Subset
<1>2. Len(new) = 1 /\ new # << >> /\ new[1].op = "next" /\ new[1].of = t.of
  BY DEF Frame
<1> SUFFICES ASSUME NEW a \in Holders
             PROVE  Size(a, timers \ {t}, waiting, num_running) + One(Claims(new, a, num_running))
                      <= num_running[a] + One(Popping(new, a))
  BY <1>1 DEF Balanced
<1>3. PICK n, k, d : /\ n = Size(a, timers, waiting, num_running) /\ k = num_running[a]
                     /\ d = One(Claims(new, a, num_running))
  OBVIOUS
<1>4. n \in Nat /\ k \in Nat /\ n <= k
  <2>1. ~ Claims(stack, a, num_running) /\ ~ Popping(stack, a)
    BY DEF Claims, Popping
  <2>2. One(Claims(stack, a, num_running)) = 0 /\ One(Popping(stack, a)) = 0
    BY <2>1 DEF One
  <2>3. n \in Nat /\ k \in Nat /\ n + 0 <= k + 0
    BY <1>3, <2>2, HeldFact
  <2> QED BY ONLY <2>3
<1>5. PICK m : m = Size(a, timers \ {t}, waiting, num_running)
  OBVIOUS
<1>6. m \in Nat
  BY <1>1, <1>5, HeldFact, SizeFact
<1>7. d \in {0, 1}
  BY <1>3, OneFact
<1>8. One(Popping(new, a)) = 0
  <2>1. ~ Popping(new, a)
    BY <1>2 DEF Popping
  <2> QED BY <2>1 DEF One
<1> DEFINE T == {u \in timers : u.of = a}
           U == {u \in timers \ {t} : u.of = a}
<1>9. CASE a = t.of
  <2>1. program.kind[a] = "delay"
    BY <1>9, KeepFact DEF Delays, OfKind
  <2>2. n = Cardinality(T) /\ m = Cardinality(U)
    BY <1>3, <1>5, <2>1 DEF Size
  <2>3. U = T \ {t} /\ t \in T /\ IsFiniteSet(T)
    BY <1>1, <1>9, HeldFact, SizeFact
  <2> HIDE DEF T, U
  <2>4. m = n - 1
    BY <2>2, <2>3, FS_RemoveElement
  <2>5. m + d <= k + 0
    BY ONLY <1>4, <1>6, <1>7, <2>4
  <2> QED BY <1>3, <1>5, <1>8, <2>5
<1>10. CASE a # t.of
  <2>1. U = T
    BY <1>10
  <2>2. m = n
    BY <1>3, <1>5, <2>1 DEF Size
  <2>3. d = 0
    <3>1. ~ Claims(new, a, num_running)
      BY <1>2, <1>10 DEF Claims
    <3> QED BY <1>3, <3>1 DEF One
  <2>4. m + d <= k + 0
    BY ONLY <1>4, <1>6, <2>2, <2>3
  <2> QED BY <1>3, <1>5, <1>8, <2>4
<1> QED BY <1>9, <1>10

LEMMA WaitBalanced ==
  ASSUME ShapeInv, LimitsInv, HeldInv, stack = << >>, NEW b, NEW x, NEW new,
         new = << Frame("next", b, x), Frame("pop_front", b, x) >>
  PROVE  Balanced(timers, waiting, num_running, new)
<1>1. IsFiniteSet(timers) /\ program \in Programs
  BY HeldFact
<1>2. /\ Len(new) = 2 /\ new # << >> /\ new[1].op = "next" /\ new[1].of = b
      /\ new[2].op = "pop_front" /\ new[2].of = b
  BY DEF Frame
<1> SUFFICES ASSUME NEW a \in Holders
             PROVE  Size(a, timers, waiting, num_running) + One(Claims(new, a, num_running))
                      <= num_running[a] + One(Popping(new, a))
  BY <1>1 DEF Balanced
<1>3. PICK n, k, d, q : /\ n = Size(a, timers, waiting, num_running) /\ k = num_running[a]
                        /\ d = One(Claims(new, a, num_running)) /\ q = One(Popping(new, a))
  OBVIOUS
<1>4. n \in Nat /\ k \in Nat /\ n <= k
  <2>1. ~ Claims(stack, a, num_running) /\ ~ Popping(stack, a)
    BY DEF Claims, Popping
  <2>2. One(Claims(stack, a, num_running)) = 0 /\ One(Popping(stack, a)) = 0
    BY <2>1 DEF One
  <2>3. n \in Nat /\ k \in Nat /\ n + 0 <= k + 0
    BY <1>3, <2>2, HeldFact
  <2> QED BY ONLY <2>3
<1>5. d \in {0, 1} /\ q \in {0, 1} /\ d <= q
  <2>1. Claims(new, a, num_running) => Popping(new, a)
    BY <1>2 DEF Claims, Popping
  <2> QED BY <1>3, <2>1, OneFact
<1>6. n + d <= k + q
  BY ONLY <1>4, <1>5
<1> QED BY <1>3, <1>6

LEMMA PopFrontBalanced ==
  ASSUME ShapeInv, LimitsInv, HeldInv, Top("pop_front"), waiting[This] # << >>,
         NEW w, w = [waiting EXCEPT ![This] = Tail(@)]
  PROVE  Balanced(timers, w, num_running, << >>)
<1>1. /\ IsFiniteSet(timers) /\ program \in Programs /\ waiting \in [Waits -> Seq(Instances)]
      /\ IsFiniteSet(Pairs(Actions, num_running)) /\ num_running \in [Actions -> Nat]
  BY HeldFact
<1>2. stack # << >> /\ stack[1].op = "pop_front" /\ This \in Waits /\ Tail(stack) = << >>
  BY TopFact DEF Top, OfKind, Waits
<1>3. Tail(waiting[This]) \in Seq(Instances) /\ Len(Tail(waiting[This])) = Len(waiting[This]) - 1
  BY <1>1, <1>2
<1>4. w \in [Waits -> Seq(Instances)] /\ w[This] = Tail(waiting[This])
      /\ \A a \in Waits : a # This => w[a] = waiting[a]
  BY <1>1, <1>2, <1>3
<1>5. stack[1].of = This /\ (\A a : Popping(stack, a) => a = This)
  <2>1. Len(stack) \in Nat /\ Len(Tail(stack)) = Len(stack) - 1
    <3>1. GoodStack(stack) /\ stack # << >>
      BY <1>2, HeldFact
    <3> QED BY ONLY <3>1, TailGood
  <2>2. Len(Tail(stack)) = 0
    <3>1. Len(<< >>) = 0
      OBVIOUS
    <3> QED BY ONLY <1>2, <3>1
  <2>3. Len(stack) = 1
    BY ONLY <2>1, <2>2
  <2> QED BY <2>3 DEF This, Popping
<1> SUFFICES ASSUME NEW a \in Holders
             PROVE  Size(a, timers, w, num_running) + One(Claims(<< >>, a, num_running))
                      <= num_running[a] + One(Popping(<< >>, a))
  BY <1>1 DEF Balanced
<1>6. PICK n, k, c, p : /\ n = Size(a, timers, waiting, num_running) /\ k = num_running[a]
                        /\ c = One(Claims(stack, a, num_running)) /\ p = One(Popping(stack, a))
  OBVIOUS
<1>7. n \in Nat /\ k \in Nat /\ n + c <= k + p /\ c \in {0, 1} /\ p \in {0, 1}
  BY <1>6, HeldFact, OneFact
<1>8. PICK m : m = Size(a, timers, w, num_running)
  OBVIOUS
<1>9. m \in Nat
  BY <1>1, <1>4, <1>8, SizeFact
<1>10. One(Claims(<< >>, a, num_running)) = 0 /\ One(Popping(<< >>, a)) = 0
  BY DEF One, Claims, Popping
<1>11. m <= n /\ (a = This => m = n - 1)
  <2>1. CASE program.kind[a] = "wait"
    <3>1. n = Len(waiting[a]) /\ m = Len(w[a]) /\ a \in Waits
      BY <1>1, <1>6, <1>8, <2>1, HolderFact DEF Size
    <3>2. a = This => m = n - 1
      BY <1>3, <1>4, <3>1
    <3>3. a # This => m = n
      BY <1>4, <3>1
    <3> QED BY ONLY <1>7, <1>9, <3>2, <3>3
  <2>2. CASE program.kind[a] # "wait"
    <3>1. a # This
      BY <1>2, <2>2, TopFact DEF OfKind
    <3> QED BY <1>6, <1>7, <1>8, <2>2, <3>1 DEF Size
  <2> QED BY <2>1, <2>2
<1>12. a # This => p = 0
  BY <1>5, <1>6 DEF One
<1>13. m + 0 <= k + 0
  BY ONLY <1>7, <1>9, <1>11, <1>12
<1> QED BY <1>6, <1>8, <1>10, <1>13
-----------------------------------------------------------------------------
(* Calls that are made for instances that were not stopped.                *)
AllOk(fs, stp) ==
  \A i \in 1 .. Len(fs) : fs[i].op \in {"play", "next"} => Ok(fs[i].of, fs[i].args, stp)

LEMMA CallsFresh ==
  ASSUME NEW stp, NextsOk(stack, num_running, stp), num_running \in [Actions -> Nat],
         NEW fs, NEW new, Replaces(new, stack, fs), AllOk(fs, stp),
         NEW mid \in [Actions -> Nat], NEW end \in [Actions -> Nat],
         stack # << >> => \A a \in OfKind({"execute"}) :
           \/ mid[a] = 0
           \/ mid[a] + One(stack[1].op = "next" /\ stack[1].of = a) <= num_running[a],
         \A a \in OfKind({"execute"}) :
           end[a] <= mid[a] + One(fs # << >> /\ fs[Len(fs)].op = "next" /\ fs[Len(fs)].of = a)
  PROVE  NextsOk(new, end, stp) /\ PlaysOk(new, stp)
<1>1. GoodStack(stack) /\ Fits(fs, stack) /\ new = fs \o Below(stack)
  BY DEF Replaces
<1>2. \A i \in 1 .. Len(fs) :
        fs[i].op = "next" /\ program.kind[fs[i].of] \notin Continuations /\ end[fs[i].of] > 0 =>
          Ok(fs[i].of, fs[i].args, stp)
  BY DEF AllOk
<1>3. NextsOk(new, end, stp)
  <2>1. PICK st, num : st = stack /\ num = num_running
    OBVIOUS
  <2>2. /\ GoodStack(st) /\ Fits(fs, st) /\ new = fs \o Below(st)
        /\ num \in [Actions -> Nat] /\ NextsOk(st, num, stp)
    BY <1>1, <2>1
  <2>3. st # << >> => \A a \in OfKind({"execute"}) :
                        \/ mid[a] = 0
                        \/ mid[a] + One(st[1].op = "next" /\ st[1].of = a) <= num[a]
    BY <2>1
  <2>4. mid \in [Actions -> Nat] /\ end \in [Actions -> Nat]
    OBVIOUS
  <2>5. \A a \in OfKind({"execute"}) :
          end[a] <= mid[a] + One(fs # << >> /\ fs[Len(fs)].op = "next" /\ fs[Len(fs)].of = a)
    OBVIOUS
  <2> QED BY ONLY <1>2, <2>2, <2>3, <2>4, <2>5, NextsAfter, ZenonT(60)
<1>4. PlaysOk(new, stp)
  <2>1. /\ fs # << >> => new[1] = fs[1]
        /\ fs = << >> /\ new # << >> => Lower(new[1])
    BY StackFact
  <2>2. fs # << >> => 1 \in 1 .. Len(fs)
    BY <1>1 DEF Fits
  <2>3. fs # << >> /\ fs[1].op = "play" => Ok(fs[1].of, fs[1].args, stp)
    BY <2>2 DEF AllOk
  <2> QED BY <2>1, <2>3 DEF PlaysOk, Lower
<1> QED BY <1>3, <1>4

(* What is known before a step.                                            *)
LEMMA FreshFact ==
  ASSUME ShapeInv, FreshInv
  PROVE  /\ program \in Programs /\ GoodStack(stack) /\ num_running \in [Actions -> Nat]
         /\ NextsOk(stack, num_running, stopped) /\ waiting \in [Waits -> Seq(Instances)]
         /\ TimersOk(timers, stopped) /\ WaitsOk(waiting, stack, stopped)
         /\ RingsOk(ring, stopped) /\ \A s \in Scripts : stopped[s] <= Limit
         /\ stopped \in [Scripts -> Nat] /\ next_id \in Nat /\ Limit \in Nat /\ Limit <= next_id
         /\ Top("play") => Ok(This, Args, stopped)
<1>1. ShapeInv /\ TypeInv
  BY DEF ShapeInv
<1>2. Top("play") => Ok(This, Args, stopped)
  BY DEF FreshInv, PlaysOk, Top, This, Args
<1>3. GoodStack(stack)
  BY <1>1 DEF TypeInv
<1>4. Limit \in Nat /\ Limit <= next_id /\ next_id \in Nat
  BY <1>1, LimitFact
<1> QED BY <1>2, <1>3, <1>4, KeepFact DEF FreshInv

LEMMA KeepFresh ==
  ASSUME ShapeInv, FreshInv, program' = program,
         TimersOk(timers', stopped'), WaitsOk(waiting', stack', stopped'), PlaysOk(stack', stopped'),
         NextsOk(stack', num_running', stopped'), RingsOk(ring', stopped'),
         next_id' \in Nat, next_id' >= next_id, Top("execute")' => next_id' > next_id,
         \A s \in Scripts : stopped'[s] <= Limit'
  PROVE  FreshInv'
BY DEF FreshInv, TimersOk, WaitsOk, PlaysOk, NextsOk, NextsOf, At, RingsOk, Ok, Popping,
       OfKind, Actions, Scripts, Queued, Capacity

LEMMA LimitGrows ==
  ASSUME ShapeInv, program' = program, next_id' \in Nat, next_id' >= next_id,
         Top("execute")' => next_id' > next_id
  PROVE  Limit' \in Nat /\ Limit <= Limit'
<1>1. Limit \in Nat /\ Limit <= next_id /\ next_id \in Nat
  BY LimitFact DEF ShapeInv
<1>2. /\ Top("execute")' => Limit' = next_id' - 1
      /\ ~ Top("execute")' => Limit' = next_id'
  BY DEF Limit, Top
<1>3. CASE Top("execute")'
  <2>1. Limit' = next_id' - 1
    BY <1>2, <1>3
  <2>2. next_id' > next_id
    BY <1>3
  <2>3. PICK m : m = next_id'
    OBVIOUS
  <2>4. m \in Nat /\ m > next_id /\ Limit' = m - 1
    BY <2>1, <2>2, <2>3
  <2>5. m - 1 \in Nat /\ Limit <= m - 1
    BY ONLY <1>1, <2>4
  <2> QED BY ONLY <2>4, <2>5
<1>4. CASE ~ Top("execute")'
  <2>1. Limit' = next_id'
    BY <1>2, <1>4
  <2> QED BY ONLY <1>1, <2>1, next_id' \in Nat, next_id' >= next_id
<1> QED BY <1>3, <1>4

(* What an action calls when an instance has entered it.                   *)
Played(fs) ==
  /\ Replaces(stack', stack, fs) /\ AllOk(fs, stopped)
  /\ fs # << >> /\ fs[1].op = "execute" => next_id' > next_id
  /\ program.kind[This] = "execute" =>
       fs # << >> /\ fs[Len(fs)].op = "next" /\ fs[Len(fs)].of = This
  /\ \A a \in Holders : Nudges(fs, a) =>
       \/ a = This
       \/ program.kind[This] \in Continuations /\ This \in Inside(a)

LEMMA CalledFact ==
  ASSUME ShapeInv, stack # << >>, NEW fs, Call(fs), NEW l, NEW r, Calls(fs, l, r)
  PROVE  Replaces(stack', stack, fs)
<1>1. GoodStack(stack)
  BY DEF ShapeInv, TypeInv
<1> QED BY <1>1 DEF Call, Calls, Replaces, Below

LEMMA NextPlayed ==
  ASSUME ShapeInv, FreshInv, Top("play"), program.kind[This] # "execute"
  PROVE  /\ Call(<< Frame("next", This, Args) >>) => Played(<< Frame("next", This, Args) >>)
         /\ Call(<< >>) => Played(<< >>)
<1>1. stack # << >> /\ stack[1].op = "play" /\ Ok(This, Args, stopped)
  BY FreshFact DEF Top
<1>2. ASSUME Call(<< Frame("next", This, Args) >>)
      PROVE  Played(<< Frame("next", This, Args) >>)
  <2> DEFINE f == Frame("next", This, Args)
  <2>1. f.op = "next" /\ f.of = This /\ f.args = Args
    BY DEF Frame
  <2>2. Replaces(stack', stack, << f >>)
    <3>1. Calls(<< f >>, Limit', ring')
      BY <1>1, NextCalls
    <3> QED BY <1>1, <1>2, <3>1, CalledFact
  <2> HIDE DEF f
  <2>3. Len(<< f >>) = 1 /\ << f >>[1] = f
    OBVIOUS
  <2>4. AllOk(<< f >>, stopped)
    BY <1>1, <2>1, <2>3 DEF AllOk
  <2>5. \A a \in Holders : Nudges(<< f >>, a) => a = This
    BY <2>1, <2>3 DEF Nudges
  <2> QED BY <2>1, <2>2, <2>3, <2>4, <2>5 DEF Played, f
<1>3. ASSUME Call(<< >>) PROVE Played(<< >>)
  <2>1. Replaces(stack', stack, << >>)
    <3>1. Calls(<< >>, Limit', ring')
      BY NoCalls
    <3> QED BY <1>1, <1>3, <3>1, CalledFact
  <2>2. AllOk(<< >>, stopped) /\ \A a : ~ Nudges(<< >>, a)
    BY DEF AllOk, Nudges
  <2> QED BY <2>1, <2>2 DEF Played
<1> QED BY <1>2, <1>3

LEMMA ResumesPlayed ==
  ASSUME ShapeInv, FreshInv, Top("play"), program.kind[This] # "execute",
         NEW p, Resumes(p, This), Call(p)
  PROVE  Played(p)
<1>1. /\ stack # << >> /\ stack[1].op = "play" /\ Ok(This, Args, stopped) /\ program \in Programs
      /\ This \in Actions
  BY FreshFact, TopFact DEF Top
<1>2. Calls(p, Limit', ring') /\ ~ Starts(p) /\ Len(p) <= 1
  BY CallsFact DEF Resumes, AtOnce
<1>3. Replaces(stack', stack, p)
  BY <1>1, <1>2, CalledFact
<1>4. p \in Seq(Frames) /\ (\A i \in 1 .. Len(p) : p # << >> /\ i = 1)
  <2>1. p \in Seq(Frames)
    BY DEF Resumes, AtOnce
  <2> QED BY <1>2, <2>1
<1>5. p # << >> => /\ Id(p[1].args) = Id(Args)
                   /\ \/ p[1].op = "play" /\ p[1].of \in Inside(This)
                      \/ p[1].op = "next" /\ p[1].of = This
  BY DEF Resumes
<1>6. AllOk(p, stopped)
  <2>1. p # << >> => Ok(p[1].of, p[1].args, stopped)
    BY <1>1, <1>5, NestFact DEF Ok
  <2> QED BY <1>4, <2>1 DEF AllOk
<1>7. \A a \in Holders : Nudges(p, a) => a = This
  <2> SUFFICES ASSUME NEW a \in Holders, Nudges(p, a) PROVE a = This
    OBVIOUS
  <2>1. a \in Actions
    BY <1>1, HolderFact
  <2> QED BY <1>1, <1>5, <2>1, NestFact DEF Nudges
<1> QED BY <1>2, <1>3, <1>6, <1>7 DEF Played, Starts

LEMMA ContinuationPlayed ==
  ASSUME ShapeInv, FreshInv, PlayContinuation
  PROVE  \E fs : Played(fs)
<1>1. /\ stack # << >> /\ stack[1].op = "play" /\ This \in Actions
      /\ program.kind[This] \in Continuations /\ program \in Programs
      /\ Parent(This) \in Actions /\ This \in Inside(Parent(This))
      /\ program.script[This] = program.script[Parent(This)]
  BY PlayContinuationFact
<1>2. Ok(This, Args, stopped)
  BY <1>1, FreshFact DEF Top
<1>3. PICK p : Resumes(p, Parent(This)) /\ Call(p \o << Frame("next", This, Args) >>)
  BY PlayContinuationCalls
<1>4. PICK P \in Actions : P = Parent(This)
  BY <1>1
<1> DEFINE g == Frame("next", This, Args)
<1>5. Sound(g, Limit', ring') /\ g.op = "next" /\ g.of = This /\ g.args = Args
  BY <1>1, SameArgs DEF Frame
<1>6. Lower(g)
  BY <1>1, <1>5 DEF Lower
<1> HIDE DEF g
<1>7. PICK fs : fs = p \o << g >>
  OBVIOUS
<1>8. Calls(fs, Limit', ring') /\ ~ Starts(fs) /\ AtOnce(p, Limit', ring')
  BY <1>3, <1>5, <1>6, <1>7, CallsFact DEF Resumes
<1>9. Replaces(stack', stack, fs)
  <2>1. Call(fs)
    BY <1>3, <1>7 DEF g
  <2> QED BY <1>1, <1>8, <2>1, CalledFact
<1>10. p # << >> => /\ Id(p[1].args) = Id(Args)
                    /\ \/ p[1].op = "play" /\ p[1].of \in Inside(P)
                       \/ p[1].op = "next" /\ p[1].of = P
  BY <1>3, <1>4 DEF Resumes
<1>11. /\ fs # << >> /\ fs[1] = IF p = << >> THEN g ELSE p[1]
       /\ \A i \in 1 .. Len(fs) : fs[i] = g \/ (p # << >> /\ fs[i] = p[1])
  <2>1. p \in Seq(Frames) /\ Len(p) <= 1 /\ g \in Frames
    BY <1>5, <1>8 DEF AtOnce, Sound
  <2>2. Len(p) \in {0, 1}
    <3>1. Len(p) \in Nat /\ Len(p) <= 1
      BY <2>1
    <3>2. \A n \in Nat : n <= 1 => n \in {0, 1}
      OBVIOUS
    <3> QED BY ONLY <3>1, <3>2
  <2>3. /\ Len(fs) = Len(p) + 1 /\ \A i \in 1 .. Len(p) : fs[i] = p[i]
        /\ fs[Len(p) + 1] = g
    BY <1>7, <2>1, FrameFact
  <2>4. CASE Len(p) = 0
    <3>1. p = << >>
      BY <2>1, <2>4, EmptySeq
    <3>2. Len(fs) = 1 /\ fs[1] = g
      BY <2>3, <2>4
    <3>3. fs # << >>
      <4>1. 1 # 0 /\ Len(fs) = 1
        BY <3>2
      <4> QED BY ONLY <4>1, NotNone
    <3>4. \A i \in 1 .. Len(fs) : i = 1
      BY ONLY <3>2
    <3>5. \A i \in 1 .. Len(fs) : fs[i] = g
      BY <3>2, <3>4
    <3>6. fs[1] = IF p = << >> THEN g ELSE p[1]
      BY <3>1, <3>2
    <3> HIDE DEF g
    <3> QED BY ONLY <3>3, <3>5, <3>6
  <2>5. CASE Len(p) = 1
    <3>1. p # << >>
      BY <2>5
    <3>2. Len(fs) = 2 /\ fs[1] = p[1] /\ fs[2] = g
      BY <2>3, <2>5
    <3>3. fs # << >>
      <4>1. 2 # 0 /\ Len(fs) = 2
        BY <3>2
      <4> QED BY ONLY <4>1, NotNone
    <3>4. \A i \in 1 .. Len(fs) : i = 1 \/ i = 2
      BY ONLY <3>2
    <3>5. \A i \in 1 .. Len(fs) : fs[i] = g \/ fs[i] = p[1]
      BY <3>2, <3>4
    <3>6. fs[1] = IF p = << >> THEN g ELSE p[1]
      BY <3>1, <3>2
    <3> QED BY ONLY <3>1, <3>3, <3>5, <3>6
  <2> QED BY <2>2, <2>4, <2>5
<1>12. AllOk(fs, stopped)
  <2>1. p # << >> => Ok(p[1].of, p[1].args, stopped)
    BY <1>1, <1>2, <1>4, <1>10, NestFact DEF Ok
  <2>2. Ok(g.of, g.args, stopped)
    BY <1>2, <1>5
  <2> QED BY <1>11, <2>1, <2>2 DEF AllOk
<1>13. \A a \in Holders : Nudges(fs, a) =>
         \/ a = This
         \/ program.kind[This] \in Continuations /\ This \in Inside(a)
  <2> SUFFICES ASSUME NEW a \in Holders, Nudges(fs, a), a # This PROVE This \in Inside(a)
    BY <1>1
  <2>1. a \in Actions
    BY <1>1, HolderFact
  <2>2. p # << >> /\ fs[1] = p[1]
    BY <1>5, <1>11 DEF Nudges
  <2>3. a = P
    BY <1>1, <1>10, <2>1, <2>2, NestFact DEF Nudges
  <2> QED BY <1>1, <1>4, <2>3
<1>14. program.kind[This] # "execute"
  BY <1>1 DEF Continuations
<1> QED BY <1>8, <1>9, <1>12, <1>13, <1>14 DEF Played, Starts

LEMMA ExecutePlayed ==
  ASSUME ShapeInv, FreshInv, PlayExecute
  PROVE  \E fs : Played(fs)
<1>1. Plays("execute") /\ next_id' = next_id + 1
  BY DEF PlayExecute
<1>2. /\ stack # << >> /\ stack[1].op = "play" /\ This \in Actions /\ program \in Programs
      /\ This \in OfKind({"execute"}) /\ program.kind[This] = "execute"
  BY <1>1, PlaysFact
<1>3. Ok(This, Args, stopped)
  BY <1>2, FreshFact DEF Top
<1> DEFINE f == Frame("execute", program.target[This], << next_id >>)
           g == Frame("next", This, Args)
<1>4. next_id \in Nat /\ << next_id >> \in Instances /\ program.target[This] \in Scripts
  <2>1. next_id \in Nat /\ << next_id >> \in Instances
    BY KeepFact DEF Instances
  <2>2. program.target[This] \in Scripts
    BY <1>2, ProgramFact DEF OfKind
  <2> QED BY <2>1, <2>2
<1>5. Sound(f, Limit', ring') /\ f.op = "execute"
  BY <1>4, SoundFact DEF Frame
<1>6. Sound(g, Limit', ring') /\ g.op = "next" /\ g.of = This /\ g.args = Args
  BY <1>2, SameArgs DEF Frame
<1>7. Lower(g)
  BY <1>2, <1>6 DEF Lower
<1>8. Call(<< f, g >>)
  BY DEF PlayExecute
<1> HIDE DEF f, g
<1>9. PICK fs : fs = << f, g >>
  OBVIOUS
<1>10. Calls(fs, Limit', ring') /\ fs # << >> /\ Len(fs) = 2 /\ fs[1] = f /\ fs[2] = g
  BY <1>5, <1>6, <1>7, <1>9, CallsFact
<1>11. Replaces(stack', stack, fs)
  BY <1>2, <1>8, <1>9, <1>10, CalledFact
<1>12. AllOk(fs, stopped)
  <2>1. \A i \in 1 .. Len(fs) : fs[i] = f \/ fs[i] = g
    BY <1>10
  <2> QED BY <1>3, <1>5, <1>6, <2>1 DEF AllOk
<1>13. \A a \in Holders : ~ Nudges(fs, a)
  BY <1>5, <1>10 DEF Nudges
<1>14. next_id' > next_id
  BY <1>1, <1>4
<1>15. fs[Len(fs)] = g
  BY <1>10
<1> QED BY <1>6, <1>10, <1>11, <1>12, <1>13, <1>14, <1>15 DEF Played

(* An action that is played leaves the invariants true.                    *)
LEMMA SameBalanced ==
  ASSUME program' = program, Balanced(timers', waiting', num_running', stack')
  PROVE  HeldInv'
<1>1. Holders' = Holders
  BY DEF Holders, OfKind, Actions
<1>2. \A a : Size(a, timers, waiting, num_running)' = Size(a, timers', waiting', num_running')
  BY DEF Size, Proper, Inside, InsideOf, Branches, Pairs
<1>3. \A a : /\ One(Claims(stack, a, num_running))' = One(Claims(stack', a, num_running'))
             /\ One(Popping(stack, a))' = One(Popping(stack', a))
  BY DEF One, Claims, Popping, Inside, InsideOf, Branches
<1> QED BY <1>1, <1>2, <1>3 DEF HeldInv, Balanced

LEMMA SameGains ==
  ASSUME ShapeInv, HeldInv, LimitsInv
  PROVE  Gains(timers, waiting, FALSE)
<1> SUFFICES ASSUME NEW a \in Holders
             PROVE  /\ program.kind[a] = "delay" =>
                         Cardinality({t \in timers : t.of = a})
                           <= Cardinality({t \in timers : t.of = a}) + One(FALSE /\ a = This)
                    /\ program.kind[a] = "wait" =>
                         Len(waiting[a]) <= Len(waiting[a]) + One(FALSE /\ a = This)
  BY DEF Gains
<1>1. One(FALSE /\ a = This) = 0
  BY DEF One
<1>2. Size(a, timers, waiting, num_running) \in Nat
  BY HeldFact
<1>3. program.kind[a] = "delay" => Cardinality({t \in timers : t.of = a}) \in Nat
  BY <1>2 DEF Size
<1>4. program.kind[a] = "wait" => Len(waiting[a]) \in Nat
  BY <1>2 DEF Size
<1> QED BY <1>1, <1>3, <1>4

LEMMA EnterFresh ==
  ASSUME ShapeInv, FreshInv, Top("play"), NEW fs, Played(fs)
  PROVE  /\ NextsOk(stack', Entered(This), stopped) /\ PlaysOk(stack', stopped)
         /\ \A a : Popping(stack', a) <=> Popping(stack, a)
         /\ Top("execute")' => next_id' > next_id
<1>1. stack # << >> /\ stack[1].op = "play" /\ This \in Actions
  BY TopFact DEF Top
<1>2. /\ program \in Programs /\ GoodStack(stack) /\ num_running \in [Actions -> Nat]
      /\ NextsOk(stack, num_running, stopped)
  BY FreshFact
<1>3. Entered(This) \in [Actions -> Nat]
      /\ \A a \in Actions : Entered(This)[a] = num_running[a] + One(a = This)
  BY <1>1, EnteredFact
<1>4. Replaces(stack', stack, fs) /\ AllOk(fs, stopped)
  BY DEF Played
<1>5. \A a \in OfKind({"execute"}) :
        Entered(This)[a]
          <= num_running[a] + One(fs # << >> /\ fs[Len(fs)].op = "next" /\ fs[Len(fs)].of = a)
  <2> SUFFICES ASSUME NEW a \in OfKind({"execute"})
               PROVE  Entered(This)[a]
                        <= num_running[a] + One(fs # << >> /\ fs[Len(fs)].op = "next"
                                                /\ fs[Len(fs)].of = a)
    OBVIOUS
  <2>1. a \in Actions /\ program.kind[a] = "execute"
    BY DEF OfKind
  <2>2. PICK k, m, n : /\ k = num_running[a] /\ m = One(a = This)
                       /\ n = One(fs # << >> /\ fs[Len(fs)].op = "next" /\ fs[Len(fs)].of = a)
    OBVIOUS
  <2>3. k \in Nat /\ m \in {0, 1} /\ n \in {0, 1}
    BY <1>2, <2>1, <2>2, OneFact
  <2>4. m <= n
    <3>1. a = This => fs # << >> /\ fs[Len(fs)].op = "next" /\ fs[Len(fs)].of = a
      BY <2>1 DEF Played
    <3> QED BY <2>2, <3>1, OneFact
  <2>5. Entered(This)[a] = k + m
    BY <1>3, <2>1, <2>2
  <2>6. k + m <= k + n
    BY ONLY <2>3, <2>4
  <2> QED BY <2>2, <2>5, <2>6
<1>6. \A a \in OfKind({"execute"}) :
        num_running[a] + One(stack[1].op = "next" /\ stack[1].of = a) <= num_running[a]
  <2> SUFFICES ASSUME NEW a \in OfKind({"execute"})
               PROVE  num_running[a] + One(stack[1].op = "next" /\ stack[1].of = a)
                        <= num_running[a]
    OBVIOUS
  <2>1. One(stack[1].op = "next" /\ stack[1].of = a) = 0
    BY <1>1 DEF One
  <2>2. num_running[a] \in Nat
    BY <1>2 DEF OfKind
  <2> QED BY <2>1, <2>2
<1>7. NextsOk(stack', Entered(This), stopped) /\ PlaysOk(stack', stopped)
  <2>1. PICK end \in [Actions -> Nat] : end = Entered(This)
    BY <1>3
  <2>2. \A a \in OfKind({"execute"}) :
          end[a] <= num_running[a] + One(fs # << >> /\ fs[Len(fs)].op = "next" /\ fs[Len(fs)].of = a)
    BY <1>5, <2>1
  <2>3. PICK new : new = stack'
    OBVIOUS
  <2>4. Replaces(new, stack, fs)
    BY <1>4, <2>3
  <2>5. NextsOk(new, end, stopped) /\ PlaysOk(new, stopped)
    BY ONLY <1>2, <1>4, <1>6, <2>2, <2>4, end \in [Actions -> Nat], CallsFresh
  <2> QED BY <2>1, <2>3, <2>5
<1>8. \A a : Popping(stack', a) <=> Popping(stack, a)
  <2>1. Fits(fs, stack) /\ stack' = fs \o Below(stack) /\ stack[1].op # "pop_front"
    BY <1>1, <1>4 DEF Replaces
  <2> QED BY <1>1, <1>2, <2>1, PoppingStays
<1>9. Top("execute")' => next_id' > next_id
  <2>1. /\ fs # << >> => stack'[1] = fs[1]
        /\ fs = << >> /\ stack' # << >> => Lower(stack'[1])
    BY <1>4, StackFact
  <2>2. fs # << >> /\ fs[1].op = "execute" => next_id' > next_id
    BY DEF Played
  <2>3. Top("execute")' => stack' # << >> /\ stack'[1].op = "execute"
    BY DEF Top
  <2> QED BY <2>1, <2>2, <2>3 DEF Lower
<1> QED BY <1>7, <1>8, <1>9

LEMMA PlayStep ==
  ASSUME ShapeInv, LimitsInv, HeldInv, FreshInv, Top("play"), num_running' = Entered(This),
         UNCHANGED << program, ring, stopped >>, next_id' \in Nat, next_id' >= next_id,
         NEW fs, Played(fs), NEW held, held => fs = << >>, Gains(timers', waiting', held),
         IsFiniteSet(timers'), waiting' \in [Waits -> Seq(Instances)],
         TimersOk(timers', stopped), WaitsOk(waiting', stack, stopped)
  PROVE  HeldInv' /\ FreshInv'
<1>1. HeldInv'
  <2>1. /\ Replaces(stack', stack, fs)
        /\ \A a \in Holders : Nudges(fs, a) =>
             \/ a = This
             \/ program.kind[This] \in Continuations /\ This \in Inside(a)
    BY DEF Played
  <2>2. PICK ts, w, new : ts = timers' /\ w = waiting' /\ new = stack'
    OBVIOUS
  <2>3. Balanced(ts, w, Entered(This), new)
    BY <2>1, <2>2, EnterBalanced
  <2> QED BY <2>2, <2>3, SameBalanced
<1>2. FreshInv'
  <2>1. /\ NextsOk(stack', Entered(This), stopped) /\ PlaysOk(stack', stopped)
        /\ \A a : Popping(stack', a) <=> Popping(stack, a)
        /\ Top("execute")' => next_id' > next_id
    BY EnterFresh
  <2>2. WaitsOk(waiting', stack', stopped)
    BY <2>1 DEF WaitsOk
  <2>3. RingsOk(ring', stopped) /\ (\A s \in Scripts : stopped[s] <= Limit)
        /\ stopped \in [Scripts -> Nat] /\ Limit \in Nat
    BY FreshFact
  <2>4. \A s \in Scripts : stopped'[s] <= Limit'
    <3>1. Limit' \in Nat /\ Limit <= Limit'
      BY <2>1, LimitGrows
    <3> SUFFICES ASSUME NEW s \in Scripts PROVE stopped[s] <= Limit'
      OBVIOUS
    <3>2. stopped[s] \in Nat /\ stopped[s] <= Limit
      BY <2>3
    <3> QED BY ONLY <2>3, <3>1, <3>2
  <2>5. stopped' = stopped /\ NextsOk(stack', num_running', stopped')
    BY <2>1
  <2> QED BY <2>1, <2>2, <2>3, <2>4, <2>5, KeepFresh
<1> QED BY <1>1, <1>2

LEMMA PlainStep ==
  ASSUME ShapeInv, LimitsInv, HeldInv, FreshInv, Top("play"), num_running' = Entered(This),
         UNCHANGED << program, timers, waiting, ring, stopped >>, next_id' \in Nat, next_id' >= next_id,
         NEW fs, Played(fs)
  PROVE  HeldInv' /\ FreshInv'
<1>1. /\ IsFiniteSet(timers) /\ waiting \in [Waits -> Seq(Instances)]
      /\ TimersOk(timers, stopped) /\ WaitsOk(waiting, stack, stopped)
  BY HeldFact, FreshFact
<1>2. Gains(timers, waiting, FALSE)
  BY SameGains
<1>3. FALSE => fs = << >>
  OBVIOUS
<1>4. /\ IsFiniteSet(timers') /\ waiting' \in [Waits -> Seq(Instances)]
      /\ TimersOk(timers', stopped) /\ WaitsOk(waiting', stack, stopped)
      /\ Gains(timers', waiting', FALSE)
  BY <1>1, <1>2
<1> QED BY <1>3, <1>4, PlayStep

LEMMA PlayDelayStep ==
  ASSUME ShapeInv, LimitsInv, HeldInv, FreshInv, PlayDelay
  PROVE  HeldInv' /\ FreshInv'
<1>1. /\ Top("play") /\ Plays("delay") /\ num_running' = Entered(This) /\ Call(<< >>)
      /\ UNCHANGED << program, waiting, generation, ring, loops, condition, next_id, stopped >>
  BY DEF PlayDelay, Plays, Return
<1>2. This \in Actions /\ program.kind[This] = "delay" /\ Ok(This, Args, stopped)
  BY <1>1, PlaysFact, FreshFact
<1> DEFINE x == [of |-> This, args |-> Args]
<1>3. PICK S : timers' = (timers \ S) \cup {x}
  BY DEF PlayDelay
<1>4. IsFiniteSet(timers) /\ waiting \in [Waits -> Seq(Instances)] /\ next_id \in Nat
  BY HeldFact, FreshFact
<1>5. IsFiniteSet(timers')
  <2>1. IsFiniteSet(timers \ S)
    BY <1>4, FS_Subset
  <2> QED BY <1>3, <2>1, FS_AddElement
<1>6. Gains(timers', waiting, TRUE)
  <2> SUFFICES ASSUME NEW a \in Holders
               PROVE  /\ program.kind[a] = "delay" =>
                           Cardinality({t \in timers' : t.of = a})
                             <= Cardinality({t \in timers : t.of = a}) + One(TRUE /\ a = This)
                      /\ program.kind[a] = "wait" =>
                           Len(waiting[a]) <= Len(waiting[a]) + One(TRUE /\ a = This)
    BY DEF Gains
  <2> DEFINE T == {t \in timers : t.of = a}
             U == {t \in timers' : t.of = a}
  <2>1. IsFiniteSet(T)
    BY HeldFact, SizeFact
  <2>2. Cardinality(T) \in Nat /\ One(TRUE /\ a = This) \in {0, 1}
    BY <2>1, FS_CardinalityType, OneFact
  <2>3. Cardinality(U) <= Cardinality(T) + One(TRUE /\ a = This)
    <3>1. CASE a = This
      <4>1. U \subseteq T \cup {x}
        BY <1>3
      <4>2. One(TRUE /\ a = This) = 1
        BY <3>1 DEF One
      <4> HIDE DEF T, U, x
      <4>3. /\ IsFiniteSet(T \cup {x})
            /\ Cardinality(T \cup {x}) = IF x \in T THEN Cardinality(T) ELSE Cardinality(T) + 1
        BY <2>1, FS_AddElement
      <4>4. Cardinality(U) <= Cardinality(T \cup {x}) /\ Cardinality(U) \in Nat
        BY <4>1, <4>3, FS_Subset, FS_CardinalityType
      <4> QED BY <2>2, <4>2, <4>3, <4>4
    <3>2. CASE a # This
      <4>1. U \subseteq T
        BY <1>3, <3>2
      <4>2. One(TRUE /\ a = This) = 0
        BY <3>2 DEF One
      <4> HIDE DEF T, U
      <4>3. Cardinality(U) <= Cardinality(T) /\ Cardinality(U) \in Nat
        BY <2>1, <4>1, FS_Subset, FS_CardinalityType
      <4> QED BY <2>2, <4>2, <4>3
    <3> QED BY <3>1, <3>2
  <2>4. program.kind[a] = "wait" => Len(waiting[a]) <= Len(waiting[a]) + One(TRUE /\ a = This)
    <3>1. Size(a, timers, waiting, num_running) \in Nat
      BY HeldFact
    <3>2. program.kind[a] = "wait" => Len(waiting[a]) \in Nat
      BY <3>1 DEF Size
    <3> QED BY <2>2, <3>2
  <2> QED BY <2>3, <2>4
<1>7. TimersOk(timers', stopped)
  <2>1. TimersOk(timers, stopped)
    BY FreshFact
  <2> QED BY <1>2, <1>3, <2>1 DEF TimersOk
<1>8. WaitsOk(waiting', stack, stopped)
  BY <1>1, FreshFact
<1>9. Played(<< >>)
  BY <1>1, <1>2, NextPlayed
<1>10. Gains(timers', waiting', TRUE)
  BY <1>1, <1>6
<1>11. next_id' \in Nat /\ next_id' >= next_id
  BY <1>1, <1>4
<1> HIDE DEF x
<1> QED BY <1>1, <1>4, <1>5, <1>7, <1>8, <1>9, <1>10, <1>11, PlayStep

LEMMA PlayWaitStep ==
  ASSUME ShapeInv, LimitsInv, HeldInv, FreshInv, PlayWait
  PROVE  HeldInv' /\ FreshInv'
<1>1. /\ Top("play") /\ Plays("wait") /\ num_running' = Entered(This)
      /\ UNCHANGED << program, timers, generation, ring, condition, next_id, stopped >>
  BY DEF PlayWait, Plays
<1>2. /\ This \in Actions /\ program.kind[This] = "wait" /\ Ok(This, Args, stopped)
      /\ This \in Waits /\ Args \in Instances
  BY <1>1, PlaysFact, FreshFact DEF Waits, OfKind
<1>3. /\ IsFiniteSet(timers) /\ waiting \in [Waits -> Seq(Instances)] /\ next_id \in Nat
      /\ WaitsOk(waiting, stack, stopped) /\ TimersOk(timers, stopped)
  BY HeldFact, FreshFact
<1>4. next_id' \in Nat /\ next_id' >= next_id
  BY <1>1, <1>3
<1>5. CASE ActionIsRunning(program.target[This])
  <2>1. waiting' = [waiting EXCEPT ![This] = Append(@, Args)] /\ Call(<< >>)
    BY <1>5 DEF PlayWait, Return
  <2>2. /\ waiting' \in [Waits -> Seq(Instances)]
        /\ waiting'[This] = Append(waiting[This], Args)
        /\ \A a \in Waits : a # This => waiting'[a] = waiting[a]
    BY <1>2, <1>3, <2>1
  <2>3. /\ Len(waiting[This]) \in Nat /\ Len(waiting'[This]) = Len(waiting[This]) + 1
        /\ \A i \in 1 .. Len(waiting[This]) : waiting'[This][i] = waiting[This][i]
        /\ waiting'[This][Len(waiting[This]) + 1] = Args
        /\ DOMAIN waiting'[This] = 1 .. Len(waiting[This]) + 1
        /\ DOMAIN waiting[This] = 1 .. Len(waiting[This])
    <3>1. PICK q \in Seq(Instances) : q = waiting[This]
      BY <1>2, <1>3
    <3>2. /\ Len(q) \in Nat /\ Len(Append(q, Args)) = Len(q) + 1
          /\ \A i \in 1 .. Len(q) : Append(q, Args)[i] = q[i]
          /\ Append(q, Args)[Len(q) + 1] = Args
          /\ DOMAIN Append(q, Args) = 1 .. Len(q) + 1
          /\ DOMAIN q = 1 .. Len(q)
      BY <1>2
    <3> QED BY <2>2, <3>1, <3>2
  <2>4. Gains(timers, waiting', TRUE)
    <3> SUFFICES ASSUME NEW a \in Holders
                 PROVE  /\ program.kind[a] = "delay" =>
                             Cardinality({t \in timers : t.of = a})
                               <= Cardinality({t \in timers : t.of = a}) + One(TRUE /\ a = This)
                        /\ program.kind[a] = "wait" =>
                             Len(waiting'[a]) <= Len(waiting[a]) + One(TRUE /\ a = This)
      BY DEF Gains
    <3>1. Size(a, timers, waiting, num_running) \in Nat /\ One(TRUE /\ a = This) \in {0, 1}
      BY HeldFact, OneFact
    <3>2. ASSUME program.kind[a] = "delay"
          PROVE  Cardinality({t \in timers : t.of = a})
                   <= Cardinality({t \in timers : t.of = a}) + One(TRUE /\ a = This)
      <4>1. Cardinality({t \in timers : t.of = a}) \in Nat
        BY <3>1, <3>2 DEF Size
      <4> QED BY <3>1, <4>1
    <3>3. ASSUME program.kind[a] = "wait"
          PROVE  Len(waiting'[a]) <= Len(waiting[a]) + One(TRUE /\ a = This)
      <4>1. Len(waiting[a]) \in Nat /\ a \in Waits
        BY <3>1, <3>3, HeldFact, HolderFact DEF Size
      <4>2. CASE a = This
        <5>1. One(TRUE /\ a = This) = 1 /\ Len(waiting'[a]) = Len(waiting[a]) + 1
          BY <2>3, <4>2 DEF One
        <5> QED BY <4>1, <5>1
      <4>3. CASE a # This
        <5>1. Len(waiting'[a]) = Len(waiting[a])
          BY <2>2, <4>1, <4>3
        <5> QED BY <3>1, <4>1, <5>1
      <4> QED BY <4>2, <4>3
    <3> QED BY <3>2, <3>3
  <2>5. WaitsOk(waiting', stack, stopped)
    <3> SUFFICES ASSUME NEW a \in OfKind({"wait"}), NEW i \in DOMAIN waiting'[a],
                        i > 1 \/ ~ Popping(stack, a)
                 PROVE  Ok(a, waiting'[a][i], stopped)
      BY DEF WaitsOk
    <3>1. a \in Waits
      BY DEF Waits, OfKind
    <3>2. CASE a = This
      <4>1. i \in 1 .. Len(waiting[This]) \/ i = Len(waiting[This]) + 1
        BY <2>3, <3>2
      <4>2. CASE i \in 1 .. Len(waiting[This])
        <5>1. i \in DOMAIN waiting[a] /\ waiting'[a][i] = waiting[a][i]
          BY <2>3, <3>2, <4>2
        <5> QED BY <1>3, <5>1 DEF WaitsOk
      <4>3. CASE i = Len(waiting[This]) + 1
        BY <1>2, <2>3, <3>2, <4>3
      <4> QED BY <4>1, <4>2, <4>3
    <3>3. CASE a # This
      BY <1>3, <2>2, <3>1, <3>3 DEF WaitsOk
    <3> QED BY <3>2, <3>3
  <2>6. Played(<< >>)
    BY <1>1, <1>2, <2>1, NextPlayed
  <2>7. Gains(timers', waiting', TRUE) /\ IsFiniteSet(timers') /\ TimersOk(timers', stopped)
    BY <1>1, <1>3, <2>4
  <2> QED BY <1>1, <1>4, <2>2, <2>5, <2>6, <2>7, PlayStep
<1>6. CASE ~ ActionIsRunning(program.target[This])
  <2>1. Call(<< Frame("next", This, Args) >>) /\ UNCHANGED waiting
    BY <1>6 DEF PlayWait
  <2>2. Played(<< Frame("next", This, Args) >>)
    BY <1>1, <1>2, <2>1, NextPlayed
  <2> QED BY <1>1, <1>4, <2>1, <2>2, PlainStep
<1> QED BY <1>5, <1>6

LEMMA PlaySteps ==
  ASSUME ShapeInv, LimitsInv, HeldInv, FreshInv,
         PlayExecute \/ PlayIf \/ PlayRepeat \/ PlayContinuation
  PROVE  HeldInv' /\ FreshInv'
<1>1. /\ Top("play") /\ num_running' = Entered(This)
      /\ UNCHANGED << program, timers, waiting, ring, stopped >>
      /\ next_id' \in {next_id, next_id + 1}
  BY DEF PlayExecute, PlayIf, PlayRepeat, PlayContinuation, Plays
<1>2. next_id' \in Nat /\ next_id' >= next_id
  BY <1>1, FreshFact
<1>3. \E fs : Played(fs)
  <2>1. CASE PlayExecute
    BY <2>1, ExecutePlayed
  <2>2. CASE PlayIf
    <3>1. program.kind[This] = "if"
      BY <2>2 DEF PlayIf, Plays, This
    <3>2. program.kind[This] # "execute"
      BY <3>1
    <3> QED BY <1>1, <2>2, <3>2, PlayIfCalls, ResumesPlayed
  <2>3. CASE PlayRepeat
    <3>1. program.kind[This] = "repeat"
      BY <2>3 DEF PlayRepeat, Plays, This
    <3>2. program.kind[This] # "execute"
      BY <3>1
    <3> QED BY <1>1, <2>3, <3>2, PlayRepeatCalls, ResumesPlayed
  <2>4. CASE PlayContinuation
    BY <2>4, ContinuationPlayed
  <2> QED BY <2>1, <2>2, <2>3, <2>4
<1> QED BY <1>1, <1>2, <1>3, PlainStep
-----------------------------------------------------------------------------
(* stop() of a list leaves what was not stopped as it was.                 *)
LEMMA NextsLess ==
  ASSUME NEW st, GoodStack(st), NEW num \in [Actions -> Nat], NEW new \in [Actions -> Nat],
         \A a \in Actions : new[a] <= num[a], NEW stp, NextsOk(st, num, stp)
  PROVE  NextsOk(st, new, stp)
<1> SUFFICES ASSUME NEW a \in Actions, program.kind[a] \notin Continuations,
                    NEW d \in NextsOf(st, a),
                    Cardinality({e \in NextsOf(st, a) : e > d}) < new[a]
             PROVE  Ok(a, At(st, d).args, stp)
  BY DEF NextsOk
<1>1. PICK c : c = Cardinality({e \in NextsOf(st, a) : e > d})
  OBVIOUS
<1>2. c \in Nat
  <2>1. Len(st) \in Nat
    BY DEF GoodStack
  <2> QED BY <1>1, <2>1, AboveFact
<1>3. c < new[a] /\ new[a] \in Nat /\ num[a] \in Nat /\ new[a] <= num[a]
  BY <1>1
<1>4. c < num[a]
  BY ONLY <1>2, <1>3
<1> QED BY <1>1, <1>4 DEF NextsOk

LEMMA HaltFresh ==
  ASSUME program \in Programs, NEW num \in [Actions -> Nat], NEW list, Range(list) \subseteq Actions,
         StopList(list, num), NEW stp, NEW new, GoodStack(new),
         TimersOk(timers, stp), WaitsOk(waiting, new, stp), NextsOk(new, num, stp)
  PROVE  TimersOk(timers', stp) /\ WaitsOk(waiting', new, stp) /\ NextsOk(new, num_running', stp)
<1>1. num_running' \in [Actions -> Nat] /\ timers' \subseteq timers
  BY StopListFact
<1>2. TimersOk(timers', stp)
  BY <1>1 DEF TimersOk
<1>3. WaitsOk(waiting', new, stp)
  <2> SUFFICES ASSUME NEW a \in OfKind({"wait"}), NEW i \in DOMAIN waiting'[a],
                      i > 1 \/ ~ Popping(new, a)
               PROVE  Ok(a, waiting'[a][i], stp)
    BY DEF WaitsOk
  <2>1. a \in Waits /\ a \in Actions
    BY DEF Waits, OfKind
  <2>2. waiting'[a] \in {<< >>, waiting[a]}
    BY <2>1, HaltedFact
  <2>3. waiting'[a] = waiting[a]
    <3>1. DOMAIN << >> = {}
      OBVIOUS
    <3> QED BY <2>2, <3>1
  <2> QED BY <2>3 DEF WaitsOk
<1>4. NextsOk(new, num_running', stp)
  <2>1. \A a \in Actions : num_running'[a] <= num[a]
    <3> SUFFICES ASSUME NEW a \in Actions PROVE num_running'[a] <= num[a]
      OBVIOUS
    <3>1. num_running'[a] \in {0, num[a]} /\ num[a] \in Nat
      BY HaltedFact
    <3> QED BY <3>1
  <2>2. PICK end \in [Actions -> Nat] : end = num_running'
    BY <1>1
  <2>3. \A a \in Actions : end[a] <= num[a]
    BY <2>1, <2>2
  <2>4. NextsOk(new, end, stp)
    BY <2>3, NextsLess
  <2> QED BY <2>2, <2>4
<1> QED BY <1>2, <1>3, <1>4

(* stop() of a script leaves nothing of it.                                *)
LEMMA NothingLeft ==
  ASSUME program \in Programs, NEW s \in Scripts,
         NEW ts, NEW w \in [Waits -> Seq(Instances)], NEW num \in [Actions -> Nat], NEW new,
         GoodStack(new), Balanced(ts, w, num, new), IsFiniteSet(Pairs(Actions, num)),
         \A a \in Range(program.chain[s]) : num[a] = 0,
         \A t \in ts : program.kind[t.of] = "delay"
  PROVE  \A a \in Actions : program.script[a] = s /\ program.kind[a] \notin Continuations =>
           /\ num[a] = 0
           /\ \A t \in ts : t.of # a
           /\ program.kind[a] = "wait" => Len(w[a]) <= One(Popping(new, a))
<1> DEFINE reached == {a \in Actions : program.kind[a] \in Continuations \/ num[a] = 0}
<1>1. \A a : Popping(new, a) => program.kind[a] = "wait"
  <2> SUFFICES ASSUME NEW a, Popping(new, a) PROVE program.kind[a] = "wait"
    OBVIOUS
  <2>1. new[Len(new)].op = "pop_front" /\ new[Len(new)].of = a /\ new[Len(new)] \in Frames
    BY DEF Popping, GoodStack
  <2> QED BY <2>1 DEF Frames, OfKind
<1>2. IsFiniteSet(ts)
  BY DEF Balanced
<1>3. \A a \in Holders : num[a] = 0 =>
        /\ Size(a, ts, w, num) \in Nat
        /\ Size(a, ts, w, num) <= One(Popping(new, a))
  <2> SUFFICES ASSUME NEW a \in Holders, num[a] = 0
               PROVE  /\ Size(a, ts, w, num) \in Nat
                      /\ Size(a, ts, w, num) <= One(Popping(new, a))
    OBVIOUS
  <2>1. PICK n, c, p : /\ n = Size(a, ts, w, num) /\ c = One(Claims(new, a, num))
                       /\ p = One(Popping(new, a))
    OBVIOUS
  <2>2. n \in Nat /\ c \in {0, 1} /\ p \in {0, 1}
    BY <1>2, <2>1, SizeFact, OneFact
  <2>3. n + c <= 0 + p
    BY <2>1 DEF Balanced
  <2>4. n <= p
    BY ONLY <2>2, <2>3
  <2> QED BY <2>1, <2>2, <2>4
<1>4. \A a \in Holders : num[a] = 0 /\ program.kind[a] # "wait" => Size(a, ts, w, num) = 0
  <2> SUFFICES ASSUME NEW a \in Holders, num[a] = 0, program.kind[a] # "wait"
               PROVE  Size(a, ts, w, num) = 0
    OBVIOUS
  <2>1. One(Popping(new, a)) = 0
    BY <1>1 DEF One
  <2>2. PICK n : n = Size(a, ts, w, num)
    OBVIOUS
  <2>3. n \in Nat /\ n <= 0
    BY <1>3, <2>1, <2>2
  <2>4. n = 0
    BY ONLY <2>3
  <2> QED BY <2>2, <2>4
<1>5. Range(program.chain[s]) \subseteq reached
  BY ListFact
<1>6. \A a \in reached : Inside(a) \subseteq reached
  <2> SUFFICES ASSUME NEW a \in Actions, program.kind[a] \in Continuations \/ num[a] = 0,
                      NEW b \in Inside(a), program.kind[b] \notin Continuations
               PROVE  b \in Actions /\ num[b] = 0
    BY ListFact
  <2>1. b \in Actions /\ program.kind[a] \in {"if", "while", "repeat"}
    BY NestFact
  <2>2. num[a] = 0 /\ a \in Holders /\ program.kind[a] \notin {"delay", "wait"}
    BY <2>1 DEF Continuations, Holders, OfKind
  <2>3. Size(a, ts, w, num) = 0
    BY <1>4, <2>2
  <2>4. Cardinality(Pairs(Proper(a), num)) = 0
    BY <2>2, <2>3 DEF Size
  <2>5. b \in Proper(a) /\ Proper(a) \in SUBSET Actions
    BY <2>2, HolderFact DEF Proper
  <2>6. IsFiniteSet(Pairs(Proper(a), num))
    <3>1. Pairs(Proper(a), num) \subseteq Pairs(Actions, num)
      BY <2>5 DEF Pairs
    <3> QED BY <3>1, FS_Subset
  <2>7. Pairs(Proper(a), num) = {}
    BY <2>4, <2>6, FS_EmptySet
  <2>8. 1 .. num[b] = {}
    <3>1. {b} \X (1 .. num[b]) \subseteq Pairs(Proper(a), num)
      BY <2>5 DEF Pairs
    <3>2. \A i \in 1 .. num[b] : << b, i >> \in {b} \X (1 .. num[b])
      OBVIOUS
    <3> QED BY <2>7, <3>1, <3>2
  <2>9. num[b] \in Nat
    BY <2>1
  <2>10. num[b] = 0
    BY ONLY <2>8, <2>9
  <2> QED BY <2>1, <2>10
<1>7. {a \in Actions : program.script[a] = s} \subseteq reached
  <2>1. reached \in SUBSET Actions
    OBVIOUS
  <2> HIDE DEF reached
  <2> QED BY <1>5, <1>6, <2>1, LinkFact
<1> SUFFICES ASSUME NEW a \in Actions, program.script[a] = s, program.kind[a] \notin Continuations
             PROVE  /\ num[a] = 0
                    /\ \A t \in ts : t.of # a
                    /\ program.kind[a] = "wait" => Len(w[a]) <= One(Popping(new, a))
  OBVIOUS
<1>8. num[a] = 0
  BY <1>7
<1>9. \A t \in ts : t.of # a
  <2> SUFFICES ASSUME NEW t \in ts, t.of = a PROVE FALSE
    OBVIOUS
  <2>1. program.kind[a] = "delay" /\ a \in Holders
    <3>1. program.kind[t.of] = "delay"
      OBVIOUS
    <3> QED BY <3>1 DEF Holders, OfKind
  <2>2. Size(a, ts, w, num) = 0
    BY <1>4, <1>8, <2>1
  <2>3. Cardinality({u \in ts : u.of = a}) = 0
    BY <2>1, <2>2 DEF Size
  <2>4. IsFiniteSet({u \in ts : u.of = a})
    BY <1>2, <2>1, SizeFact
  <2>5. {u \in ts : u.of = a} = {}
    BY <2>3, <2>4, FS_EmptySet
  <2> QED BY <2>5
<1>10. ASSUME program.kind[a] = "wait" PROVE Len(w[a]) <= One(Popping(new, a))
  <2>1. a \in Holders
    BY <1>10 DEF Holders, OfKind
  <2>2. Size(a, ts, w, num) = Len(w[a])
    BY <1>10 DEF Size
  <2> QED BY <1>3, <1>8, <2>1, <2>2
<1> QED BY <1>8, <1>9, <1>10

(* So it may be said to be stopped.                                        *)
LEMMA StoppedFresh ==
  ASSUME program \in Programs, NEW s \in Scripts, NEW stp \in [Scripts -> Nat], NEW k,
         NEW ts, NEW w \in [Waits -> Seq(Instances)], NEW num \in [Actions -> Nat], NEW new,
         GoodStack(new), Balanced(ts, w, num, new), IsFiniteSet(Pairs(Actions, num)),
         \A a \in Range(program.chain[s]) : num[a] = 0,
         \A t \in ts : program.kind[t.of] = "delay" /\ t.of \in Actions,
         TimersOk(ts, stp), WaitsOk(w, new, stp), NextsOk(new, num, stp),
         NEW end, end = [stp EXCEPT ![s] = k]
  PROVE  TimersOk(ts, end) /\ WaitsOk(w, new, end) /\ NextsOk(new, num, end)
<1>1. \A a \in Actions : program.script[a] = s /\ program.kind[a] \notin Continuations =>
        /\ num[a] = 0
        /\ \A t \in ts : t.of # a
        /\ program.kind[a] = "wait" => Len(w[a]) <= One(Popping(new, a))
  <2>1. \A t \in ts : program.kind[t.of] = "delay"
    OBVIOUS
  <2> QED BY <2>1, NothingLeft
<1>2. \A a \in Actions : program.script[a] # s =>
        \A x : Ok(a, x, stp) => Ok(a, x, end)
  <2>1. \A a \in Actions : program.script[a] \in Scripts
    BY ProgramFact
  <2>2. \A z \in Scripts : z # s => end[z] = stp[z]
    OBVIOUS
  <2> QED BY <2>1, <2>2 DEF Ok
<1>3. TimersOk(ts, end)
  <2> SUFFICES ASSUME NEW t \in ts PROVE Ok(t.of, t.args, end)
    BY DEF TimersOk
  <2>1. Ok(t.of, t.args, stp) /\ t.of \in Actions /\ program.kind[t.of] = "delay"
    BY DEF TimersOk
  <2>2. program.script[t.of] # s
    BY <1>1, <2>1 DEF Continuations
  <2> QED BY <1>2, <2>1, <2>2
<1>4. WaitsOk(w, new, end)
  <2> SUFFICES ASSUME NEW a \in OfKind({"wait"}), NEW i \in DOMAIN w[a],
                      i > 1 \/ ~ Popping(new, a)
               PROVE  Ok(a, w[a][i], end)
    BY DEF WaitsOk
  <2>1. a \in Actions /\ program.kind[a] = "wait" /\ a \in Waits /\ Ok(a, w[a][i], stp)
    BY DEF Waits, OfKind, WaitsOk
  <2>2. program.script[a] # s
    <3> SUFFICES ASSUME program.script[a] = s PROVE FALSE
      OBVIOUS
    <3>1. Len(w[a]) <= One(Popping(new, a))
      BY <1>1, <2>1 DEF Continuations
    <3>2. PICK n \in Nat : n = Len(w[a]) /\ i \in 1 .. n
      <4>1. w[a] \in Seq(Instances)
        BY <2>1
      <4> QED BY <4>1
    <3>3. PICK c : c = One(Popping(new, a))
      OBVIOUS
    <3>4. c \in {0, 1} /\ (~ Popping(new, a) => c = 0)
      BY <3>3, OneFact
    <3>5. n <= c
      BY <3>1, <3>2, <3>3
    <3> QED BY ONLY <3>2, <3>4, <3>5, n \in Nat, i > 1 \/ ~ Popping(new, a)
  <2> QED BY <1>2, <2>1, <2>2
<1>5. NextsOk(new, num, end)
  <2> SUFFICES ASSUME NEW a \in Actions, program.kind[a] \notin Continuations,
                      NEW d \in NextsOf(new, a),
                      Cardinality({e \in NextsOf(new, a) : e > d}) < num[a]
               PROVE  Ok(a, At(new, d).args, end)
    BY DEF NextsOk
  <2>1. Ok(a, At(new, d).args, stp)
    BY DEF NextsOk
  <2>2. program.script[a] # s
    <3> SUFFICES ASSUME program.script[a] = s PROVE FALSE
      OBVIOUS
    <3>1. num[a] = 0
      BY <1>1
    <3>2. Len(new) \in Nat
      BY DEF GoodStack
    <3>3. PICK c : c = Cardinality({e \in NextsOf(new, a) : e > d})
      OBVIOUS
    <3>4. c \in Nat
      BY ONLY <3>2, <3>3, AboveFact
    <3>5. c < num[a]
      BY <3>3
    <3> QED BY ONLY <3>1, <3>4, <3>5
  <2> QED BY <1>2, <2>1, <2>2
<1> QED BY <1>3, <1>4, <1>5
-----------------------------------------------------------------------------
(* What stop() of a list leaves.                                           *)
LEMMA HaltStep ==
  ASSUME ShapeInv, FreshInv, program' = program,
         NEW num \in [Actions -> Nat], IsFiniteSet(Pairs(Actions, num)),
         NEW list, Range(list) \subseteq Actions, StopList(list, num),
         NEW new, GoodStack(new), Balanced(timers, waiting, num, new),
         \A a \in Holders : new # << >> => ~ (new[1].op = "play" /\ new[1].of \in Inside(a)),
         NextsOk(new, num, stopped), \A a : Popping(new, a) <=> Popping(stack, a)
  PROVE  /\ Balanced(timers', waiting', num_running', new)
         /\ num_running' \in [Actions -> Nat] /\ IsFiniteSet(Pairs(Actions, num_running'))
         /\ waiting' \in [Waits -> Seq(Instances)] /\ timers' \subseteq timers
         /\ TimersOk(timers', stopped) /\ WaitsOk(waiting', new, stopped)
         /\ NextsOk(new, num_running', stopped)
<1>1. /\ program \in Programs /\ waiting \in [Waits -> Seq(Instances)]
      /\ TimersOk(timers, stopped) /\ WaitsOk(waiting, stack, stopped)
  BY FreshFact
<1>2. TypeInv
  BY DEF ShapeInv
<1>3. /\ num_running' \in [Actions -> Nat] /\ timers' \subseteq timers
      /\ waiting' \in [Waits -> Seq(Instances)]
  BY <1>2, StopListTypes
<1>4. Balanced(timers', waiting', num_running', new)
  BY <1>1, <1>3, HaltBalanced
<1>5. WaitsOk(waiting, new, stopped)
  BY <1>1 DEF WaitsOk
<1>6. TimersOk(timers', stopped) /\ WaitsOk(waiting', new, stopped) /\ NextsOk(new, num_running', stopped)
  BY <1>1, <1>5, HaltFresh
<1>7. IsFiniteSet(Pairs(Actions, num_running'))
  <2>1. PICK end \in [Actions -> Nat] : end = num_running'
    BY <1>3
  <2>2. \A a \in Actions : end[a] <= num[a]
    <3> SUFFICES ASSUME NEW a \in Actions PROVE end[a] <= num[a]
      OBVIOUS
    <3>1. end[a] \in {0, num[a]}
      BY <1>1, <2>1, HaltedFact
    <3>2. num[a] \in Nat
      OBVIOUS
    <3> QED BY <3>1, <3>2
  <2>3. IsFiniteSet(Pairs(Actions, end))
    BY <2>2, CountLess
  <2> QED BY <2>1, <2>3
<1> QED BY <1>3, <1>4, <1>6, <1>7

(* An action that stops a list and goes on.                                *)
LEMMA EnterHalt ==
  ASSUME ShapeInv, LimitsInv, HeldInv, FreshInv, Top("play"), program.kind[This] # "execute",
         program' = program, Call(<< Frame("next", This, Args) >>),
         NEW list, Range(list) \subseteq Actions, StopList(list, Entered(This))
  PROVE  /\ GoodStack(stack') /\ stack' # << >> /\ stack'[1].op = "next"
         /\ Balanced(timers', waiting', num_running', stack')
         /\ num_running' \in [Actions -> Nat] /\ IsFiniteSet(Pairs(Actions, num_running'))
         /\ waiting' \in [Waits -> Seq(Instances)] /\ timers' \subseteq timers
         /\ TimersOk(timers', stopped) /\ WaitsOk(waiting', stack', stopped)
         /\ NextsOk(stack', num_running', stopped)
<1> DEFINE fs == << Frame("next", This, Args) >>
<1>1. Played(fs)
  BY NextPlayed
<1>2. This \in Actions /\ num_running \in [Actions -> Nat] /\ IsFiniteSet(Pairs(Actions, num_running))
      /\ IsFiniteSet(timers) /\ waiting \in [Waits -> Seq(Instances)]
  BY TopFact, HeldFact DEF Top
<1>3. Len(fs) = 1 /\ fs # << >> /\ fs[1].op = "next"
  BY DEF Frame
<1> HIDE DEF fs
<1>4. /\ Replaces(stack', stack, fs)
      /\ \A a \in Holders : Nudges(fs, a) =>
           \/ a = This
           \/ program.kind[This] \in Continuations /\ This \in Inside(a)
  BY <1>1 DEF Played
<1>5. GoodStack(stack') /\ stack' # << >> /\ stack'[1].op = "next"
  BY <1>3, <1>4, StackFact
<1>6. Balanced(timers, waiting, Entered(This), stack')
  <2>1. Gains(timers, waiting, FALSE)
    BY SameGains
  <2>2. FALSE => fs = << >>
    OBVIOUS
  <2> QED BY <1>2, <1>4, <2>1, <2>2, EnterBalanced
<1>7. NextsOk(stack', Entered(This), stopped) /\ \A a : Popping(stack', a) <=> Popping(stack, a)
  BY <1>1, EnterFresh
<1>8. Entered(This) \in [Actions -> Nat] /\ IsFiniteSet(Pairs(Actions, Entered(This)))
  <2>1. Entered(This) \in [Actions -> Nat]
        /\ \A a \in Actions : Entered(This)[a] = num_running[a] + One(a = This)
    BY <1>2, EnteredFact
  <2>2. PICK new \in [Actions -> Nat] : new = Entered(This)
    BY <2>1
  <2>3. \A a \in Actions : a # This => new[a] = num_running[a]
    <3> SUFFICES ASSUME NEW a \in Actions, a # This PROVE new[a] = num_running[a]
      OBVIOUS
    <3>1. One(a = This) = 0 /\ num_running[a] \in Nat
      BY <1>2 DEF One
    <3> QED BY <2>1, <2>2, <3>1
  <2>4. new[This] = num_running[This] + 1
    <3>1. One(This = This) = 1
      BY DEF One
    <3> QED BY <1>2, <2>1, <2>2, <3>1
  <2>5. IsFiniteSet(Pairs(Actions, new))
    BY <1>2, <2>3, <2>4, CountAdd
  <2> QED BY <2>1, <2>2, <2>5
<1>9. \A a \in Holders : stack' # << >> => ~ (stack'[1].op = "play" /\ stack'[1].of \in Inside(a))
  BY <1>5
<1>10. PICK new : new = stack'
  OBVIOUS
<1>11. /\ GoodStack(new) /\ Balanced(timers, waiting, Entered(This), new)
       /\ \A a \in Holders : new # << >> => ~ (new[1].op = "play" /\ new[1].of \in Inside(a))
       /\ NextsOk(new, Entered(This), stopped) /\ \A a : Popping(new, a) <=> Popping(stack, a)
  BY <1>5, <1>6, <1>7, <1>9, <1>10
<1>12. /\ Balanced(timers', waiting', num_running', new)
       /\ num_running' \in [Actions -> Nat] /\ IsFiniteSet(Pairs(Actions, num_running'))
       /\ waiting' \in [Waits -> Seq(Instances)] /\ timers' \subseteq timers
       /\ TimersOk(timers', stopped) /\ WaitsOk(waiting', new, stopped)
       /\ NextsOk(new, num_running', stopped)
  BY <1>8, <1>11, HaltStep
<1> QED BY <1>5, <1>10, <1>12

LEMMA PlayWhileStep ==
  ASSUME ShapeInv, LimitsInv, HeldInv, FreshInv, PlayWhile
  PROVE  HeldInv' /\ FreshInv'
<1>1. Top("play") /\ Plays("while") /\ UNCHANGED << program, ring, condition, next_id, stopped >>
  BY DEF PlayWhile, Plays
<1>2. This \in Actions /\ program.kind[This] = "while" /\ program \in Programs
  BY <1>1, PlaysFact
<1>3. program.kind[This] # "execute"
  BY <1>2
<1>4. next_id' \in Nat /\ next_id' >= next_id
  BY <1>1, FreshFact
<1>5. CASE condition
  <2>1. num_running' = Entered(This) /\ UNCHANGED << timers, waiting >>
    BY <1>5 DEF PlayWhile
  <2>2. PICK p : Resumes(p, This) /\ Call(p)
    BY <1>5, PlayWhileCalls
  <2>3. Played(p)
    BY <1>1, <1>3, <2>2, ResumesPlayed
  <2> QED BY <1>1, <1>4, <2>1, <2>3, PlainStep
<1>6. CASE ~ condition
  <2>1. StopList(program.then[This], Entered(This)) /\ Call(<< Frame("next", This, Args) >>)
    BY <1>6 DEF PlayWhile
  <2>2. Range(program.then[This]) \subseteq Actions
    BY <1>2, ProgramFact, ListFact
  <2>3. /\ GoodStack(stack') /\ stack' # << >> /\ stack'[1].op = "next"
        /\ Balanced(timers', waiting', num_running', stack')
        /\ TimersOk(timers', stopped) /\ WaitsOk(waiting', stack', stopped)
        /\ NextsOk(stack', num_running', stopped)
    BY <1>1, <1>3, <2>1, <2>2, EnterHalt
  <2>4. HeldInv'
    BY <1>1, <2>3, SameBalanced
  <2>5. FreshInv'
    <3>1. PlaysOk(stack', stopped) /\ ~ Top("execute")'
      BY <2>3 DEF PlaysOk, Top
    <3>2. RingsOk(ring, stopped) /\ (\A s \in Scripts : stopped[s] <= Limit)
          /\ stopped \in [Scripts -> Nat] /\ Limit \in Nat
      BY FreshFact
    <3>3. \A s \in Scripts : stopped[s] <= Limit'
      <4>1. Limit' \in Nat /\ Limit <= Limit'
        BY <1>1, <1>4, <3>1, LimitGrows
      <4> SUFFICES ASSUME NEW s \in Scripts PROVE stopped[s] <= Limit'
        OBVIOUS
      <4>2. stopped[s] \in Nat /\ stopped[s] <= Limit
        BY <3>2
      <4> QED BY ONLY <3>2, <4>1, <4>2
    <3>4. /\ TimersOk(timers', stopped') /\ WaitsOk(waiting', stack', stopped')
          /\ PlaysOk(stack', stopped') /\ NextsOk(stack', num_running', stopped')
          /\ RingsOk(ring', stopped') /\ \A s \in Scripts : stopped'[s] <= Limit'
      BY <1>1, <2>3, <3>1, <3>2, <3>3
    <3> QED BY <1>1, <1>4, <3>1, <3>4, KeepFresh
  <2> QED BY <2>4, <2>5
<1> QED BY <1>5, <1>6

(* What stop() of a script leaves.                                         *)
LEMMA AfterStop ==
  ASSUME ShapeInv, FreshInv, program' = program, NEW s \in Scripts, NEW k \in Nat,
         stopped' = [stopped EXCEPT ![s] = k], next_id' = next_id, k <= next_id,
         ~ Top("execute")', GoodStack(stack'), PlaysOk(stack', stopped'),
         Balanced(timers', waiting', num_running', stack'),
         num_running' \in [Actions -> Nat], IsFiniteSet(Pairs(Actions, num_running')),
         waiting' \in [Waits -> Seq(Instances)], timers' \subseteq timers,
         TimersOk(timers', stopped), WaitsOk(waiting', stack', stopped),
         NextsOk(stack', num_running', stopped),
         \A a \in Range(program.chain[s]) : num_running'[a] = 0,
         \A q \in Queued : IF q = s THEN \A i \in 0 .. Capacity(q) - 1 : ring'[q].slots[i] = << >>
                           ELSE ring'[q] = ring[q]
  PROVE  FreshInv'
<1>1. /\ program \in Programs /\ stopped \in [Scripts -> Nat] /\ RingsOk(ring, stopped)
      /\ next_id \in Nat /\ Limit \in Nat /\ Limit <= next_id
      /\ \A z \in Scripts : stopped[z] <= Limit
  BY FreshFact
<1>2. stopped'[s] = k /\ \A z \in Scripts : z # s => stopped'[z] = stopped[z]
  BY <1>1
<1>3. TimersOk(timers', stopped') /\ WaitsOk(waiting', stack', stopped')
      /\ NextsOk(stack', num_running', stopped')
  <2>1. \A t \in timers' : program.kind[t.of] = "delay" /\ t.of \in Actions
    <3>1. timers \subseteq [of : Delays, args : Instances]
      BY DEF ShapeInv, TypeInv
    <3> QED BY <3>1 DEF Delays, OfKind
  <2>2. PICK ts, w, num, new, end : /\ ts = timers' /\ w = waiting' /\ num = num_running'
                                    /\ new = stack' /\ end = stopped'
    OBVIOUS
  <2>3. /\ GoodStack(new) /\ Balanced(ts, w, num, new) /\ num \in [Actions -> Nat]
        /\ IsFiniteSet(Pairs(Actions, num)) /\ w \in [Waits -> Seq(Instances)]
        /\ TimersOk(ts, stopped) /\ WaitsOk(w, new, stopped) /\ NextsOk(new, num, stopped)
        /\ (\A a \in Range(program.chain[s]) : num[a] = 0)
        /\ (\A t \in ts : program.kind[t.of] = "delay" /\ t.of \in Actions)
        /\ end = [stopped EXCEPT ![s] = k]
    BY <2>1, <2>2
  <2>4. TimersOk(ts, end) /\ WaitsOk(w, new, end) /\ NextsOk(new, num, end)
    BY ONLY <1>1, <2>3, s \in Scripts, k \in Nat, StoppedFresh
  <2> QED BY <2>2, <2>4
<1>4. RingsOk(ring', stopped')
  <2> SUFFICES ASSUME NEW q \in Queued, NEW i \in 0 .. Capacity(q) - 1, ring'[q].slots[i] # << >>
               PROVE  Id(ring'[q].slots[i]) >= stopped'[q]
    BY DEF RingsOk
  <2>1. q # s /\ ring'[q] = ring[q]
    OBVIOUS
  <2>2. Id(ring[q].slots[i]) >= stopped[q] /\ q \in Scripts
    BY <1>1, <2>1 DEF RingsOk, Queued
  <2> QED BY <1>2, <2>1, <2>2
<1>5. \A z \in Scripts : stopped'[z] <= Limit'
  <2>1. Limit' = next_id
    BY DEF Limit, Top
  <2> SUFFICES ASSUME NEW z \in Scripts PROVE stopped'[z] <= next_id
    BY <2>1
  <2>2. CASE z = s
    BY <1>2, <2>2
  <2>3. CASE z # s
    <3>1. stopped'[z] = stopped[z] /\ stopped[z] \in Nat /\ stopped[z] <= Limit
      BY <1>1, <1>2, <2>3
    <3> QED BY ONLY <1>1, <3>1
  <2> QED BY <2>2, <2>3
<1>6. next_id' \in Nat /\ next_id' >= next_id
  BY <1>1
<1> QED BY <1>3, <1>4, <1>5, <1>6, KeepFresh

LEMMA StopScriptFact ==
  ASSUME program \in Programs, NEW num \in [Actions -> Nat], NEW s \in Scripts, StopScript(s, num)
  PROVE  /\ Range(program.chain[s]) \subseteq Actions /\ StopList(program.chain[s], num)
         /\ stopped' = [stopped EXCEPT ![s] = next_id]
         /\ \A a \in Range(program.chain[s]) : num_running'[a] = 0
         /\ \A q \in Queued : IF q = s THEN \A i \in 0 .. Capacity(q) - 1 : ring'[q].slots[i] = << >>
                              ELSE ring'[q] = ring[q]
<1>1. Range(program.chain[s]) \subseteq Actions /\ StopList(program.chain[s], num)
  BY ProgramFact, ListFact DEF StopScript
<1>2. \A a \in Range(program.chain[s]) : num_running'[a] = 0
  BY <1>1, StopListFact
<1>3. stopped' = [stopped EXCEPT ![s] = next_id]
      /\ ring' = [q \in Queued |-> IF q = s THEN EmptyRing(s) ELSE ring[q]]
  BY DEF StopScript
<1>4. \A i \in 0 .. Capacity(s) - 1 : EmptyRing(s).slots[i] = << >>
  BY DEF EmptyRing
<1> QED BY <1>1, <1>2, <1>3, <1>4

LEMMA PlayStopStep ==
  ASSUME ShapeInv, LimitsInv, HeldInv, FreshInv, PlayStop
  PROVE  HeldInv' /\ FreshInv'
<1>1. /\ Top("play") /\ Plays("stop") /\ Call(<< Frame("next", This, Args) >>)
      /\ StopScript(program.target[This], Entered(This)) /\ program' = program /\ next_id' = next_id
  BY DEF PlayStop, Plays
<1>2. This \in Actions /\ program.kind[This] = "stop" /\ This \in OfKind({"stop"}) /\ program \in Programs
  BY <1>1, PlaysFact
<1>3. program.kind[This] # "execute"
  BY <1>2
<1>4. PICK s \in Scripts : s = program.target[This]
  BY <1>2, ProgramFact DEF OfKind
<1>5. Entered(This) \in [Actions -> Nat] /\ StopScript(s, Entered(This))
  BY <1>1, <1>2, <1>4, EnteredFact
<1>6. /\ Range(program.chain[s]) \subseteq Actions /\ StopList(program.chain[s], Entered(This))
      /\ stopped' = [stopped EXCEPT ![s] = next_id]
      /\ \A a \in Range(program.chain[s]) : num_running'[a] = 0
      /\ \A q \in Queued : IF q = s THEN \A i \in 0 .. Capacity(q) - 1 : ring'[q].slots[i] = << >>
                           ELSE ring'[q] = ring[q]
  BY <1>2, <1>5, StopScriptFact
<1>7. /\ GoodStack(stack') /\ stack' # << >> /\ stack'[1].op = "next"
      /\ Balanced(timers', waiting', num_running', stack')
      /\ num_running' \in [Actions -> Nat] /\ IsFiniteSet(Pairs(Actions, num_running'))
      /\ waiting' \in [Waits -> Seq(Instances)] /\ timers' \subseteq timers
      /\ TimersOk(timers', stopped) /\ WaitsOk(waiting', stack', stopped)
      /\ NextsOk(stack', num_running', stopped)
  BY <1>1, <1>3, <1>6, EnterHalt
<1>8. PlaysOk(stack', stopped') /\ ~ Top("execute")'
  BY <1>7 DEF PlaysOk, Top
<1>9. next_id \in Nat /\ next_id <= next_id
  BY FreshFact
<1>10. FreshInv'
  BY <1>1, <1>6, <1>7, <1>8, <1>9, AfterStop
<1> QED BY <1>1, <1>7, <1>10, SameBalanced

LEMMA StopStep ==
  ASSUME ShapeInv, LimitsInv, HeldInv, FreshInv, NEW s \in Scripts, Stop(s)
  PROVE  HeldInv' /\ FreshInv'
<1>1. /\ stack = << >> /\ StopScript(s, num_running)
      /\ UNCHANGED << program, stack, condition, next_id >>
  BY DEF Stop
<1>2. /\ program \in Programs /\ GoodStack(stack) /\ num_running \in [Actions -> Nat]
      /\ NextsOk(stack, num_running, stopped) /\ next_id \in Nat /\ next_id <= next_id
      /\ IsFiniteSet(Pairs(Actions, num_running))
  BY FreshFact, HeldFact
<1>3. /\ Range(program.chain[s]) \subseteq Actions /\ StopList(program.chain[s], num_running)
      /\ stopped' = [stopped EXCEPT ![s] = next_id]
      /\ \A a \in Range(program.chain[s]) : num_running'[a] = 0
      /\ \A q \in Queued : IF q = s THEN \A i \in 0 .. Capacity(q) - 1 : ring'[q].slots[i] = << >>
                           ELSE ring'[q] = ring[q]
  BY <1>1, <1>2, StopScriptFact
<1>4. PICK new : new = stack /\ new = stack'
  BY <1>1
<1>5. /\ GoodStack(new) /\ Balanced(timers, waiting, num_running, new)
      /\ \A a \in Holders : new # << >> => ~ (new[1].op = "play" /\ new[1].of \in Inside(a))
      /\ NextsOk(new, num_running, stopped) /\ \A a : Popping(new, a) <=> Popping(stack, a)
  BY <1>1, <1>2, <1>4 DEF HeldInv
<1>6. /\ Balanced(timers', waiting', num_running', new)
      /\ num_running' \in [Actions -> Nat] /\ IsFiniteSet(Pairs(Actions, num_running'))
      /\ waiting' \in [Waits -> Seq(Instances)] /\ timers' \subseteq timers
      /\ TimersOk(timers', stopped) /\ WaitsOk(waiting', new, stopped)
      /\ NextsOk(new, num_running', stopped)
  BY <1>1, <1>2, <1>3, <1>5, HaltStep
<1>7. GoodStack(stack') /\ Balanced(timers', waiting', num_running', stack')
      /\ WaitsOk(waiting', stack', stopped) /\ NextsOk(stack', num_running', stopped)
  BY <1>4, <1>5, <1>6
<1>8. PlaysOk(stack', stopped') /\ ~ Top("execute")'
  BY <1>1 DEF PlaysOk, Top
<1>9. FreshInv'
  BY <1>1, <1>2, <1>3, <1>6, <1>7, <1>8, AfterStop
<1> QED BY <1>1, <1>7, <1>9, SameBalanced
-----------------------------------------------------------------------------
(* The steps that leave the counters alone.                                *)
LEMMA StayNexts ==
  ASSUME ShapeInv, FreshInv, NEW fs, NEW new, Replaces(new, stack, fs), AllOk(fs, stopped),
         stack # << >> => stack[1].op \notin {"pop_front", "next"}
  PROVE  /\ NextsOk(new, num_running, stopped) /\ PlaysOk(new, stopped)
         /\ \A a : Popping(stack, a) => Popping(new, a)
         /\ stack # << >> => \A a : Popping(new, a) <=> Popping(stack, a)
<1>1. /\ program \in Programs /\ GoodStack(stack) /\ num_running \in [Actions -> Nat]
      /\ NextsOk(stack, num_running, stopped)
  BY FreshFact
<1>2. stack # << >> => \A a : Popping(new, a) <=> Popping(stack, a)
  <2> SUFFICES ASSUME stack # << >> PROVE \A a : Popping(new, a) <=> Popping(stack, a)
    OBVIOUS
  <2>1. Fits(fs, stack) /\ new = fs \o Below(stack) /\ stack[1].op # "pop_front"
    BY DEF Replaces
  <2> QED BY <1>1, <2>1, PoppingStays
<1>3. stack = << >> => \A a : ~ Popping(stack, a)
  BY DEF Popping
<1>4. NextsOk(new, num_running, stopped) /\ PlaysOk(new, stopped)
  <2>1. stack # << >> => \A a \in OfKind({"execute"}) :
          num_running[a] + One(stack[1].op = "next" /\ stack[1].of = a) <= num_running[a]
    <3> SUFFICES ASSUME stack # << >>, NEW a \in OfKind({"execute"})
                 PROVE  num_running[a] + One(stack[1].op = "next" /\ stack[1].of = a)
                          <= num_running[a]
      OBVIOUS
    <3>1. One(stack[1].op = "next" /\ stack[1].of = a) = 0
      BY DEF One
    <3>2. num_running[a] \in Nat
      BY <1>1 DEF OfKind
    <3> QED BY <3>1, <3>2
  <2>2. \A a \in OfKind({"execute"}) :
          num_running[a]
            <= num_running[a] + One(fs # << >> /\ fs[Len(fs)].op = "next" /\ fs[Len(fs)].of = a)
    <3> SUFFICES ASSUME NEW a \in OfKind({"execute"})
                 PROVE  num_running[a] <= num_running[a]
                          + One(fs # << >> /\ fs[Len(fs)].op = "next" /\ fs[Len(fs)].of = a)
      OBVIOUS
    <3>1. PICK c : c = One(fs # << >> /\ fs[Len(fs)].op = "next" /\ fs[Len(fs)].of = a)
      OBVIOUS
    <3>2. c \in {0, 1} /\ num_running[a] \in Nat
      BY <1>1, <3>1, OneFact DEF OfKind
    <3>3. num_running[a] <= num_running[a] + c
      BY ONLY <3>2
    <3> QED BY <3>1, <3>3
  <2> QED BY ONLY <1>1, <2>1, <2>2, Replaces(new, stack, fs), AllOk(fs, stopped), CallsFresh
<1> QED BY <1>2, <1>3, <1>4

LEMMA StayFresh ==
  ASSUME ShapeInv, FreshInv, UNCHANGED << program, num_running, stopped >>,
         NEW fs, Replaces(stack', stack, fs), AllOk(fs, stopped),
         stack # << >> => stack[1].op \notin {"pop_front", "next"},
         TimersOk(timers', stopped), WaitsOk(waiting', stack, stopped), RingsOk(ring', stopped),
         next_id' \in Nat, next_id' >= next_id,
         fs # << >> /\ fs[1].op = "execute" => next_id' > next_id
  PROVE  FreshInv' /\ \A a : Popping(stack, a) => Popping(stack', a)
<1>1. /\ stopped \in [Scripts -> Nat] /\ Limit \in Nat
      /\ \A s \in Scripts : stopped[s] <= Limit
  BY FreshFact
<1>2. PICK new : new = stack'
  OBVIOUS
<1>3. /\ NextsOk(new, num_running, stopped) /\ PlaysOk(new, stopped)
      /\ \A a : Popping(stack, a) => Popping(new, a)
  <2>1. Replaces(new, stack, fs)
    BY <1>2
  <2> QED BY <2>1, StayNexts
<1>4. Top("execute")' => next_id' > next_id
  <2>1. /\ fs # << >> => stack'[1] = fs[1]
        /\ fs = << >> /\ stack' # << >> => Lower(stack'[1])
    BY StackFact
  <2>2. Top("execute")' => stack' # << >> /\ stack'[1].op = "execute"
    BY DEF Top
  <2> QED BY <2>1, <2>2 DEF Lower
<1>5. \A s \in Scripts : stopped[s] <= Limit'
  <2>1. Limit' \in Nat /\ Limit <= Limit'
    BY <1>4, LimitGrows
  <2> SUFFICES ASSUME NEW s \in Scripts PROVE stopped[s] <= Limit'
    OBVIOUS
  <2>2. stopped[s] \in Nat /\ stopped[s] <= Limit
    BY <1>1
  <2> QED BY ONLY <1>1, <2>1, <2>2
<1>6. WaitsOk(waiting', stack', stopped)
  BY <1>2, <1>3 DEF WaitsOk
<1>7. /\ TimersOk(timers', stopped') /\ WaitsOk(waiting', stack', stopped')
      /\ PlaysOk(stack', stopped') /\ NextsOk(stack', num_running', stopped')
      /\ RingsOk(ring', stopped') /\ \A s \in Scripts : stopped'[s] <= Limit'
  BY <1>2, <1>3, <1>5, <1>6
<1>8. FreshInv'
  BY <1>4, <1>7, KeepFresh
<1> QED BY <1>2, <1>3, <1>8

LEMMA StayStep ==
  ASSUME ShapeInv, LimitsInv, HeldInv, FreshInv,
         UNCHANGED << program, num_running, timers, waiting, stopped >>,
         NEW fs, Replaces(stack', stack, fs), AllOk(fs, stopped),
         stack # << >> => stack[1].op \notin {"pop_front", "next"},
         \A a \in Holders : ~ Nudges(fs, a), RingsOk(ring', stopped),
         next_id' \in Nat, next_id' >= next_id,
         fs # << >> /\ fs[1].op = "execute" => next_id' > next_id
  PROVE  HeldInv' /\ FreshInv'
<1>1. TimersOk(timers', stopped) /\ WaitsOk(waiting', stack, stopped)
  BY FreshFact
<1>2. FreshInv' /\ \A a : Popping(stack, a) => Popping(stack', a)
  BY <1>1, StayFresh
<1>3. Balanced(timers, waiting, num_running, stack')
  <2>1. PICK new : new = stack'
    OBVIOUS
  <2>2. Replaces(new, stack, fs) /\ \A a : Popping(stack, a) => Popping(new, a)
    BY <1>2, <2>1
  <2>3. Balanced(timers, waiting, num_running, new)
    BY <2>2, StayBalanced
  <2> QED BY <2>1, <2>3
<1>4. HeldInv'
  BY <1>3, SameBalanced
<1> QED BY <1>2, <1>4

LEMMA OneMore ==
  ASSUME NEW S, NEW p \in Seq(S), Len(p) <= 1, p # << >>, NEW f
  PROVE  /\ Len(p) = 1 /\ Len(p \o << f >>) = 2
         /\ (p \o << f >>)[1] = p[1] /\ (p \o << f >>)[2] = f
<1>1. Len(p) \in Nat \ {0}
  BY EmptySeq
<1>2. PICK n : n = Len(p)
  OBVIOUS
<1>3. n = 1
  <2>1. n \in Nat \ {0} /\ n <= 1
    BY <1>1, <1>2
  <2> QED BY ONLY <2>1
<1>4. PICK T : T = S \cup {f}
  OBVIOUS
<1>5. p \in Seq(T) /\ f \in T
  BY <1>4
<1>6. PICK q \in Seq(T) : q = << f >> /\ Len(q) = 1 /\ q[1] = f
  <2>1. << f >> \in Seq(T) /\ Len(<< f >>) = 1 /\ << f >>[1] = f
    BY ONLY <1>5
  <2> QED BY <2>1, Zenon
<1>7. Len(p) = 1
  BY ONLY <1>2, <1>3
<1>8. Len(p \o q) = 2 /\ (p \o q)[1] = p[1] /\ (p \o q)[2] = q[1]
  <2>1. /\ Len(p \o q) = Len(p) + Len(q)
        /\ \A i \in 1 .. Len(p) + Len(q) :
             (p \o q)[i] = IF i <= Len(p) THEN p[i] ELSE q[i - Len(p)]
    BY <1>5, ConcatProperties
  <2>2. /\ Len(p \o q) = 2
        /\ \A i \in 1 .. 2 : (p \o q)[i] = IF i <= 1 THEN p[i] ELSE q[i - 1]
    BY ONLY <2>1, <1>6, <1>7
  <2>3. (p \o q)[1] = p[1]
    BY ONLY <2>2
  <2>4. (p \o q)[2] = q[2 - 1]
    BY ONLY <2>2
  <2>5. 2 - 1 = 1
    OBVIOUS
  <2> QED BY <2>2, <2>3, <2>4, <2>5
<1> QED BY <1>6, <1>7, <1>8

(* The calls that execute() and the loop of a queued script make.          *)
LEMMA RunFact ==
  ASSUME ShapeInv, FreshInv, NEW s \in Scripts, NEW x, Id(x) >= stopped[s], NEW p, NEW l, NEW r,
         AtOnce(p, l, r),
         p # << >> => p[1].op = "play" /\ p[1].args = x /\ p[1].of \in Range(program.chain[s]),
         NEW f, f.op \in {"script_loop", "script_loop_ends"}
  PROVE  /\ AllOk(p, stopped) /\ AllOk(p \o << f >>, stopped)
         /\ \A a \in Holders : ~ Nudges(p, a) /\ ~ Nudges(p \o << f >>, a)
         /\ p # << >> => p[1].op # "execute"
         /\ (p \o << f >>)[1].op # "execute"
<1>1. program \in Programs
  BY FreshFact
<1>2. p = << >> => /\ Len(p) = 0 /\ Len(p \o << f >>) = 1
                   /\ (p \o << f >>)[1] = f
  OBVIOUS
<1>3. p # << >> => /\ Len(p) = 1 /\ Len(p \o << f >>) = 2
                   /\ (p \o << f >>)[1] = p[1] /\ (p \o << f >>)[2] = f
  <2>1. p \in Seq(Frames) /\ Len(p) <= 1
    BY DEF AtOnce
  <2> QED BY ONLY <2>1, OneMore
<1>4. p # << >> => Ok(p[1].of, p[1].args, stopped)
  <2> SUFFICES ASSUME p # << >> PROVE Ok(p[1].of, p[1].args, stopped)
    OBVIOUS
  <2>1. program.script[p[1].of] = s
    BY <1>1, LinkFact
  <2> QED BY <2>1 DEF Ok
<1>5. p # << >> => \A a \in Holders : p[1].of \notin Inside(a)
  <2> SUFFICES ASSUME p # << >>, NEW a \in Holders PROVE p[1].of \notin Inside(a)
    OBVIOUS
  <2>1. a \in Actions
    BY <1>1, HolderFact
  <2> QED BY <1>1, <2>1, LinkFact
<1>6. CASE p = << >>
  BY <1>2, <1>6 DEF AllOk, Nudges
<1>7. CASE p # << >>
  BY <1>3, <1>4, <1>5, <1>7 DEF AllOk, Nudges
<1> QED BY <1>6, <1>7

(* A call that is followed by others, or by none.                          *)
LEMMA CallStep ==
  ASSUME ShapeInv, LimitsInv, HeldInv, FreshInv, stack # << >>,
         stack[1].op \notin {"pop_front", "next"},
         UNCHANGED << program, num_running, timers, waiting, next_id, stopped >>,
         NEW fs, Call(fs), NEW l, NEW r, Calls(fs, l, r), AllOk(fs, stopped),
         \A a \in Holders : ~ Nudges(fs, a), fs # << >> => fs[1].op # "execute",
         RingsOk(ring', stopped)
  PROVE  HeldInv' /\ FreshInv'
<1>1. Replaces(stack', stack, fs)
  BY CalledFact
<1>2. next_id' \in Nat /\ next_id' >= next_id
  BY FreshFact
<1> QED BY <1>1, <1>2, StayStep

LEMMA QuietFact ==
  /\ \A stp : AllOk(<< >>, stp) /\ \A a : ~ Nudges(<< >>, a)
  /\ \A f : f.op \notin {"play", "next"} =>
       \A stp : AllOk(<< f >>, stp) /\ \A a : ~ Nudges(<< f >>, a)
<1>1. \A stp : AllOk(<< >>, stp) /\ \A a : ~ Nudges(<< >>, a)
  BY DEF AllOk, Nudges
<1>2. ASSUME NEW f, f.op \notin {"play", "next"}, NEW stp
      PROVE  AllOk(<< f >>, stp) /\ \A a : ~ Nudges(<< f >>, a)
  <2>1. Len(<< f >>) = 1 /\ << f >>[1] = f
    OBVIOUS
  <2> QED BY <1>2, <2>1 DEF AllOk, Nudges
<1> QED BY <1>1, <1>2

LEMMA ReturnStep ==
  ASSUME ShapeInv, LimitsInv, HeldInv, FreshInv, stack # << >>,
         stack[1].op \notin {"pop_front", "next"},
         UNCHANGED << program, num_running, timers, waiting, next_id, stopped >>,
         Call(<< >>), RingsOk(ring', stopped)
  PROVE  HeldInv' /\ FreshInv'
<1>1. AllOk(<< >>, stopped) /\ \A a : ~ Nudges(<< >>, a)
  BY QuietFact
<1>2. Calls(<< >>, Limit', ring')
  BY NoCalls
<1> QED BY <1>1, <1>2, CallStep

(* The instance that execute() may start is the newest.                    *)
LEMMA ExecuteFact ==
  ASSUME ShapeInv, FreshInv, NEW mode, Executes(mode), program' = program, next_id' = next_id,
         mode = "queued" => ring'[This] = ring[This] /\ ring[This].count = 0,
         NEW f, f.op \in {"script_loop", "script_loop_ends"}
  PROVE  LET p == RunActions(This, Args)
         IN  /\ stack # << >> /\ stack[1].op = "execute" /\ This \in Scripts
             /\ AtOnce(p, next_id, ring')
             /\ AllOk(p, stopped) /\ AllOk(p \o << f >>, stopped)
             /\ \A a \in Holders : ~ Nudges(p, a) /\ ~ Nudges(p \o << f >>, a)
             /\ p # << >> => p[1].op # "execute"
             /\ (p \o << f >>)[1].op # "execute"
<1> DEFINE p == RunActions(This, Args)
<1>1. stack # << >> /\ stack[1].op = "execute" /\ This \in Scripts /\ Id(Args) = Limit
  BY ExecutesFact
<1>2. /\ AtOnce(p, next_id, ring')
      /\ p # << >> => /\ p[1].op = "play" /\ p[1].args = Args
                      /\ p[1].of \in Range(program.chain[This])
  BY ExecuteCalls
<1> HIDE DEF p
<1>3. Id(Args) >= stopped[This]
  <2>1. Limit \in Nat /\ stopped[This] \in Nat /\ stopped[This] <= Limit
    BY <1>1, FreshFact
  <2> QED BY <1>1, <2>1
<1>4. /\ AllOk(p, stopped) /\ AllOk(p \o << f >>, stopped)
      /\ \A a \in Holders : ~ Nudges(p, a) /\ ~ Nudges(p \o << f >>, a)
      /\ p # << >> => p[1].op # "execute"
      /\ (p \o << f >>)[1].op # "execute"
  BY <1>1, <1>2, <1>3, RunFact
<1> QED BY <1>1, <1>2, <1>4 DEF p

LEMMA ExecuteStep ==
  ASSUME ShapeInv, LimitsInv, HeldInv, FreshInv, ExecuteSingle \/ ExecuteParallel
  PROVE  HeldInv' /\ FreshInv'
<1>1. PICK mode \in {"single", "parallel"} : Executes(mode)
  BY DEF ExecuteSingle, ExecuteParallel
<1>2. /\ UNCHANGED << program, num_running, timers, waiting, ring, next_id, stopped >>
      /\ Call(<< >>) \/ Call(RunActions(This, Args))
  BY DEF ExecuteSingle, ExecuteParallel
<1>3. RingsOk(ring', stopped)
  BY <1>2, FreshFact
<1>4. stack # << >> /\ stack[1].op \notin {"pop_front", "next"}
  BY <1>1 DEF Executes, Top
<1> DEFINE p == RunActions(This, Args)
<1>5. AtOnce(p, next_id, ring') /\ AllOk(p, stopped) /\ (\A a \in Holders : ~ Nudges(p, a))
      /\ (p # << >> => p[1].op # "execute")
  <2>1. PICK f : f = Frame("script_loop", This, Args)
    OBVIOUS
  <2>2. f.op \in {"script_loop", "script_loop_ends"}
    BY <2>1 DEF Frame
  <2>3. program' = program /\ next_id' = next_id
        /\ (mode = "queued" => ring'[This] = ring[This] /\ ring[This].count = 0)
    BY <1>2
  <2>4. /\ AtOnce(p, next_id, ring')
        /\ AllOk(p, stopped) /\ AllOk(p \o << f >>, stopped)
        /\ \A a \in Holders : ~ Nudges(p, a) /\ ~ Nudges(p \o << f >>, a)
        /\ p # << >> => p[1].op # "execute"
    BY <1>1, <2>2, <2>3, ExecuteFact
  <2> HIDE DEF p
  <2> QED BY <2>4
<1>6. Call(<< >>) \/ Call(p)
  BY <1>2
<1> HIDE DEF p
<1>7. Calls(p, next_id, ring')
  BY <1>5, CallsFact
<1>8. CASE Call(<< >>)
  BY <1>2, <1>3, <1>4, <1>8, ReturnStep
<1>9. CASE Call(p)
  BY <1>2, <1>3, <1>4, <1>5, <1>7, <1>9, CallStep
<1> QED BY <1>6, <1>8, <1>9

LEMMA ExecuteQueuedStep ==
  ASSUME ShapeInv, LimitsInv, HeldInv, FreshInv, ExecuteQueued
  PROVE  HeldInv' /\ FreshInv'
<1> DEFINE r == ring[This]
           c == Capacity(This)
<1>1. /\ Executes("queued")
      /\ UNCHANGED << program, num_running, timers, waiting, next_id, stopped >>
  BY DEF ExecuteQueued
<1>2. /\ stack # << >> /\ stack[1].op \notin {"pop_front", "next"}
      /\ This \in Queued /\ This \in Scripts /\ program \in Programs
      /\ Id(Args) = Limit /\ Limit \in Nat /\ stopped[This] \in Nat /\ stopped[This] <= Limit
      /\ Args \in Instances /\ Len(Args) = 1
  <2>1. /\ stack # << >> /\ stack[1].op = "execute" /\ This \in Scripts
        /\ program.mode[This] = "queued" /\ Id(Args) = Limit /\ program \in Programs
        /\ Args \in Instances /\ Len(Args) = 1
    BY <1>1, ExecutesFact
  <2> QED BY <2>1, FreshFact DEF Queued
<1>3. RingsOk(ring, stopped)
  BY FreshFact
<1>4. CASE ~ ActionIsRunning(This) /\ r.count = 0
  <2> DEFINE g == Frame("script_loop", This, Args)
             p == RunActions(This, Args)
  <2>1. Call(p \o << g >>) /\ UNCHANGED ring
    BY <1>4 DEF ExecuteQueued
  <2>2. g.op \in {"script_loop", "script_loop_ends"} /\ Sound(g, next_id, ring') /\ Lower(g)
    BY <1>2, ScriptFrames
  <2>3. /\ AtOnce(p, next_id, ring') /\ AllOk(p \o << g >>, stopped)
        /\ \A a \in Holders : ~ Nudges(p \o << g >>, a)
        /\ (p \o << g >>)[1].op # "execute"
    BY <1>1, <1>4, <2>1, <2>2, ExecuteFact
  <2> HIDE DEF g, p
  <2>4. Calls(p \o << g >>, next_id, ring')
    BY <2>2, <2>3, CallsFact
  <2> QED BY <1>1, <1>2, <1>3, <2>1, <2>3, <2>4, CallStep
<1>5. CASE ~ (~ ActionIsRunning(This) /\ r.count = 0)
  <2>1. Call(<< >>)
    BY <1>5 DEF ExecuteQueued, Return
  <2>2. RingsOk(ring', stopped)
    <3>1. CASE r.count + 1 >= program.max_runs[This]
      <4>1. UNCHANGED ring
        BY <1>5, <3>1 DEF ExecuteQueued
      <4> QED BY <1>3, <4>1
    <3>2. CASE ~ (r.count + 1 >= program.max_runs[This])
      <4>1. ring' = [ring EXCEPT ![This].slots[(r.front + r.count) % c] = Args,
                                 ![This].count = @ + 1]
        BY <1>5, <3>2 DEF ExecuteQueued
      <4>2. ring = [s \in Queued |-> ring[s]]
        BY DEF ShapeInv, RingInv
      <4>3. \A q \in Queued : q # This => ring'[q] = ring[q]
        BY <4>1, <4>2
      <4>4. ring'[This].slots = [r.slots EXCEPT ![(r.front + r.count) % c] = Args]
        <5>1. c \in Nat /\ Ordered(r, c, Limit)
          BY <1>2, EmptyOrdered DEF ShapeInv, RingInv
        <5>2. ring' = [ring EXCEPT ![This] = Appended(r, c, Args)]
          BY <1>2, <4>1, <4>2, <5>1 DEF Appended
        <5>3. ring'[This] = Appended(r, c, Args)
          BY <1>2, <4>2, <5>2
        <5> QED BY <5>1, <5>3 DEF Appended, Ordered, Rings
      <4>5. r.slots \in [0 .. c - 1 -> Instances]
        BY <1>2 DEF ShapeInv, RingInv, Ordered, Rings
      <4>6. \A k \in 0 .. c - 1 : ring'[This].slots[k] \in {Args, r.slots[k]}
        BY <4>4, <4>5
      <4> SUFFICES ASSUME NEW q \in Queued, NEW k \in 0 .. Capacity(q) - 1, ring'[q].slots[k] # << >>
                   PROVE  Id(ring'[q].slots[k]) >= stopped[q]
        BY DEF RingsOk
      <4>7. CASE q # This
        BY <1>3, <4>3, <4>7 DEF RingsOk
      <4>8. CASE q = This
        <5>1. CASE ring'[q].slots[k] = Args
          BY <1>2, <4>8, <5>1
        <5>2. CASE ring'[q].slots[k] = ring[q].slots[k]
          BY <1>3, <5>2 DEF RingsOk
        <5> QED BY <4>6, <4>8, <5>1, <5>2
      <4> QED BY <4>7, <4>8
    <3> QED BY <3>1, <3>2
  <2> QED BY <1>1, <1>2, <2>1, <2>2, ReturnStep
<1> QED BY <1>4, <1>5

(* A restart stops the script before it starts the new instance.           *)
LEMMA ExecuteRestartStep ==
  ASSUME ShapeInv, LimitsInv, HeldInv, FreshInv, ExecuteRestart
  PROVE  HeldInv' /\ FreshInv'
<1> DEFINE p == RunActions(This, Args)
<1>1. Executes("restart") /\ Call(p) /\ UNCHANGED << program, ring, next_id >>
  BY DEF ExecuteRestart
<1>2. /\ stack # << >> /\ stack[1].op = "execute" /\ This \in Scripts /\ Id(Args) = Limit
      /\ program.mode[This] = "restart"
  BY <1>1, ExecutesFact
<1>3. /\ AtOnce(p, next_id, ring') /\ AllOk(p, stopped) /\ (\A a \in Holders : ~ Nudges(p, a))
      /\ (p # << >> => p[1].op # "execute")
  <2>1. PICK f : f = Frame("script_loop", This, Args)
    OBVIOUS
  <2>2. f.op \in {"script_loop", "script_loop_ends"}
    BY <2>1 DEF Frame
  <2>3. /\ AtOnce(p, next_id, ring')
        /\ AllOk(p, stopped) /\ AllOk(p \o << f >>, stopped)
        /\ \A a \in Holders : ~ Nudges(p, a) /\ ~ Nudges(p \o << f >>, a)
        /\ p # << >> => p[1].op # "execute"
    BY <1>1, <2>2, ExecuteFact
  <2> HIDE DEF p
  <2> QED BY <2>3
<1>4. p # << >> => /\ p[1].op = "play" /\ p[1].args = Args
                   /\ p[1].of \in Range(program.chain[This])
  BY <1>1, ExecuteCalls
<1> HIDE DEF p
<1>5. Calls(p, next_id, ring')
  BY <1>3, CallsFact
<1>6. RingsOk(ring', stopped)
  BY <1>1, FreshFact
<1>7. CASE ~ ActionIsRunning(This)
  <2>1. UNCHANGED << num_running, timers, waiting, stopped >>
    BY <1>7 DEF ExecuteRestart
  <2>2. stack[1].op \notin {"pop_front", "next"}
    BY <1>2
  <2> QED BY <1>1, <1>2, <1>3, <1>5, <1>6, <2>1, <2>2, CallStep
<1>8. CASE ActionIsRunning(This)
  <2>1. PICK s \in Scripts : s = This
    BY <1>2
  <2>2. StopList(program.chain[s], num_running) /\ stopped' = [stopped EXCEPT ![s] = Limit]
    BY <1>2, <1>8, <2>1 DEF ExecuteRestart
  <2>3. /\ program \in Programs /\ num_running \in [Actions -> Nat] /\ stopped \in [Scripts -> Nat]
        /\ IsFiniteSet(Pairs(Actions, num_running))
        /\ next_id \in Nat /\ Limit \in Nat /\ Limit <= next_id
    BY FreshFact, HeldFact
  <2>4. PICK new : new = stack'
    OBVIOUS
  <2>5. Replaces(new, stack, p)
    BY <1>1, <1>2, <1>5, <2>4, CalledFact
  <2>6. /\ GoodStack(new)
        /\ p # << >> => new[1] = p[1]
        /\ p = << >> /\ new # << >> => Lower(new[1])
    BY <2>5, StackFact
  <2>7. NextsOk(new, num_running, stopped) /\ \A a : Popping(new, a) <=> Popping(stack, a)
    <3>1. stack[1].op \notin {"pop_front", "next"}
      BY <1>2
    <3> QED BY <1>2, <1>3, <2>5, <3>1, StayNexts
  <2>8. Balanced(timers, waiting, num_running, new)
    BY <1>3, <2>5, <2>7, StayBalanced
  <2>9. new # << >> /\ new[1].op = "play" =>
          new[1].of \in Range(program.chain[s]) /\ new[1].args = Args
    BY <1>4, <2>1, <2>6 DEF Lower
  <2>10. \A a \in Holders : new # << >> => ~ (new[1].op = "play" /\ new[1].of \in Inside(a))
    <3> SUFFICES ASSUME NEW a \in Holders, new # << >>, new[1].op = "play", new[1].of \in Inside(a)
                 PROVE  FALSE
      OBVIOUS
    <3>1. a \in Actions
      BY <2>3, HolderFact
    <3> QED BY <2>3, <2>9, <3>1, LinkFact
  <2>11. Range(program.chain[s]) \subseteq Actions
    BY <2>3, ListFact
  <2>12. /\ Balanced(timers', waiting', num_running', new)
         /\ num_running' \in [Actions -> Nat] /\ IsFiniteSet(Pairs(Actions, num_running'))
         /\ waiting' \in [Waits -> Seq(Instances)] /\ timers' \subseteq timers
         /\ TimersOk(timers', stopped) /\ WaitsOk(waiting', new, stopped)
         /\ NextsOk(new, num_running', stopped)
    BY <1>1, <2>2, <2>3, <2>6, <2>7, <2>8, <2>10, <2>11, HaltStep
  <2>13. \A a \in Range(program.chain[s]) : num_running'[a] = 0
    BY <2>2, <2>3, <2>11, StopListFact
  <2>14. PlaysOk(stack', stopped')
    <3> SUFFICES ASSUME new # << >>, new[1].op = "play"
                 PROVE  Ok(new[1].of, new[1].args, stopped')
      BY <2>4 DEF PlaysOk
    <3>1. program.script[new[1].of] = s
      BY <2>3, <2>9, LinkFact
    <3>2. stopped'[s] = Limit
      BY <2>2, <2>3
    <3>3. Id(new[1].args) = Limit
      BY <1>2, <2>9
    <3>4. Limit >= Limit
      BY ONLY <2>3
    <3> QED BY <3>1, <3>2, <3>3, <3>4 DEF Ok
  <2>15. ~ Top("execute")'
    <3>1. new # << >> => new[1].op # "execute"
      BY <1>3, <2>6 DEF Lower
    <3> QED BY <2>4, <3>1 DEF Top
  <2>16. \A q \in Queued : IF q = s THEN \A i \in 0 .. Capacity(q) - 1 : ring'[q].slots[i] = << >>
                           ELSE ring'[q] = ring[q]
    <3>1. s \notin Queued
      BY <1>2, <2>1 DEF Queued
    <3> QED BY <1>1, <3>1
  <2>17. FreshInv'
    <3>1. /\ GoodStack(stack') /\ Balanced(timers', waiting', num_running', stack')
          /\ WaitsOk(waiting', stack', stopped) /\ NextsOk(stack', num_running', stopped)
      BY <2>4, <2>6, <2>12
    <3>2. program' = program /\ next_id' = next_id
      BY <1>1
    <3> QED BY <2>2, <2>3, <2>12, <2>13, <2>14, <2>15, <2>16, <3>1, <3>2, AfterStop
  <2>18. HeldInv'
    BY <1>1, <2>4, <2>12, SameBalanced
  <2> QED BY <2>17, <2>18
<1> QED BY <1>7, <1>8

LEMMA ScriptLoopStep ==
  ASSUME ShapeInv, LimitsInv, HeldInv, FreshInv, ScriptLoop
  PROVE  HeldInv' /\ FreshInv'
<1>1. /\ stack # << >> /\ stack[1].op = "script_loop"
      /\ UNCHANGED << program, num_running, timers, waiting, next_id, stopped >>
  BY DEF ScriptLoop, Top
<1>2. This \in Queued /\ This \in Scripts /\ Args \in Instances /\ program \in Programs
      /\ RingsOk(ring, stopped)
  BY <1>1, TopFact, FreshFact DEF Queued
<1>3. stack[1].op \notin {"pop_front", "next"}
  BY <1>1
<1> DEFINE g == Frame("script_loop_ends", This, Args)
<1>4. g.op \in {"script_loop", "script_loop_ends"} /\ Sound(g, Limit', ring') /\ g.op # "execute"
      /\ g.op \notin {"play", "next"}
  BY <1>2, ScriptFrames
<1>5. CASE ring[This].count # 0 /\ ~ ActionIsRunning(This)
  <2> DEFINE x == ring[This].slots[ring[This].front]
             p == RunActions(This, x)
  <2>1. /\ ring' = [ring EXCEPT ![This] = Dequeued(ring[This], Capacity(This))]
        /\ Calls(p \o << g >>, Limit', ring') /\ AtOnce(p, Limit', ring')
        /\ p # << >> => /\ p[1].op = "play" /\ p[1].args = x
                        /\ p[1].of \in Range(program.chain[This])
        /\ ring[This].front \in 0 .. Capacity(This) - 1 /\ x # << >>
    BY <1>5, ScriptLoopCalls
  <2>2. Call(p \o << g >>)
    BY <1>5 DEF ScriptLoop
  <2>3. Id(x) >= stopped[This]
    BY <1>2, <2>1 DEF RingsOk
  <2> HIDE DEF g, p, x
  <2>4. /\ AllOk(p \o << g >>, stopped) /\ (\A a \in Holders : ~ Nudges(p \o << g >>, a))
        /\ (p \o << g >>)[1].op # "execute"
    BY <1>2, <1>4, <2>1, <2>3, RunFact
  <2>5. RingsOk(ring', stopped)
    <3>1. ring = [s \in Queued |-> ring[s]] /\ Capacity(This) \in Nat
          /\ Ordered(ring[This], Capacity(This), Limit) /\ Limit \in Nat /\ ring[This].count # 0
      BY <1>2, <1>5, EmptyOrdered, FreshFact DEF ShapeInv, RingInv
    <3>2. \A q \in Queued : q # This => ring'[q] = ring[q]
      BY <2>1, <3>1
    <3>3. PICK r : r = Dequeued(ring[This], Capacity(This))
      OBVIOUS
    <3>4. ring'[This] = r
      BY <1>2, <2>1, <3>1, <3>3
    <3>5. \A k \in 0 .. Capacity(This) - 1 : r.slots[k] \in {<< >>, ring[This].slots[k]}
      BY <3>1, <3>3, DequeueOrdered
    <3> SUFFICES ASSUME NEW q \in Queued, NEW k \in 0 .. Capacity(q) - 1, ring'[q].slots[k] # << >>
                 PROVE  Id(ring'[q].slots[k]) >= stopped[q]
      BY DEF RingsOk
    <3>6. ring'[q].slots[k] = ring[q].slots[k]
      BY <3>2, <3>4, <3>5
    <3> QED BY <1>2, <3>6 DEF RingsOk
  <2> QED BY <1>1, <1>3, <2>1, <2>2, <2>4, <2>5, CallStep
<1>6. CASE ~ (ring[This].count # 0 /\ ~ ActionIsRunning(This))
  <2>1. Call(<< g >>) /\ UNCHANGED ring
    BY <1>6 DEF ScriptLoop
  <2> HIDE DEF g
  <2>2. AtOnce(<< g >>, Limit', ring')
    BY <1>4, CallsFact
  <2>3. Calls(<< g >>, Limit', ring')
    BY <2>2, CallsFact
  <2>4. AllOk(<< g >>, stopped) /\ \A a : ~ Nudges(<< g >>, a)
    BY <1>4, QuietFact
  <2>5. << g >>[1].op # "execute"
    BY <1>4
  <2> QED BY <1>1, <1>2, <1>3, <2>1, <2>3, <2>4, <2>5, CallStep
<1> QED BY <1>5, <1>6

LEMMA ScriptLoopEndsStep ==
  ASSUME ShapeInv, LimitsInv, HeldInv, FreshInv, ScriptLoopEnds
  PROVE  HeldInv' /\ FreshInv'
<1>1. /\ stack # << >> /\ stack[1].op = "script_loop_ends" /\ Call(<< >>)
      /\ UNCHANGED << program, num_running, timers, waiting, ring, next_id, stopped >>
  BY DEF ScriptLoopEnds, Top, Return
<1>2. stack[1].op \notin {"pop_front", "next"}
  BY <1>1
<1>3. RingsOk(ring', stopped)
  BY <1>1, FreshFact
<1> QED BY <1>1, <1>2, <1>3, ReturnStep
-----------------------------------------------------------------------------
(* play_next_ with an instance that is still counted goes on with it.      *)
LEMMA NextOk ==
  ASSUME ShapeInv, FreshInv, Top("next"), num_running[This] > 0,
         program.kind[This] \notin Continuations
  PROVE  Ok(This, Args, stopped)
<1>1. /\ GoodStack(stack) /\ stack # << >> /\ stack[1].op = "next" /\ stack[1].of = This
      /\ NextsOk(stack, num_running, stopped)
  BY FreshFact DEF Top, This
<1>2. This \in Actions
  BY <1>1, TopFact
<1>3. At(stack, Len(stack)) = stack[1] /\ Len(stack) \in NextsOf(stack, This)
  BY <1>1, DepthFact
<1>4. {e \in NextsOf(stack, This) : e > Len(stack)} = {}
  <2> SUFFICES ASSUME NEW e \in NextsOf(stack, This), e > Len(stack) PROVE FALSE
    OBVIOUS
  <2>1. PICK n \in Nat : n = Len(stack)
    BY <1>1, TailGood
  <2>2. e \in 1 .. n
    BY <2>1 DEF NextsOf
  <2>3. e > n
    BY <2>1
  <2> QED BY ONLY <2>1, <2>2, <2>3
<1>5. Cardinality({e \in NextsOf(stack, This) : e > Len(stack)}) = 0
  BY <1>4, FS_EmptySet
<1>6. Cardinality({e \in NextsOf(stack, This) : e > Len(stack)}) < num_running[This]
  BY <1>5
<1>7. Ok(This, At(stack, Len(stack)).args, stopped)
  BY <1>1, <1>2, <1>3, <1>6 DEF NextsOk
<1> QED BY <1>3, <1>7 DEF Args

LEMMA LeaveStep ==
  ASSUME ShapeInv, LimitsInv, HeldInv, FreshInv, Top("next"),
         UNCHANGED << program, timers, waiting, ring, next_id, stopped >>,
         NEW fs, Replaces(stack', stack, fs), AllOk(fs, stopped),
         fs # << >> => fs[1].op = "play" /\ Len(fs) = 1,
         NEW num \in [Actions -> Nat], num_running' = num,
         num[This] = 0 \/ num[This] + 1 <= num_running[This],
         \A b \in Actions : b # This => num[b] = num_running[b],
         Balanced(timers, waiting, num, stack')
  PROVE  HeldInv' /\ FreshInv'
<1>1. /\ GoodStack(stack) /\ num_running \in [Actions -> Nat] /\ next_id \in Nat
      /\ NextsOk(stack, num_running, stopped)
      /\ TimersOk(timers, stopped) /\ WaitsOk(waiting, stack, stopped) /\ RingsOk(ring, stopped)
      /\ stopped \in [Scripts -> Nat] /\ Limit \in Nat /\ \A s \in Scripts : stopped[s] <= Limit
  BY FreshFact
<1>2. stack # << >> /\ stack[1].op = "next" /\ stack[1].of = This
  BY DEF Top, This
<1>3. HeldInv'
  BY SameBalanced
<1>4. PICK new : new = stack'
  OBVIOUS
<1>5. Replaces(new, stack, fs)
  BY <1>4
<1>6. \A a \in OfKind({"execute"}) :
        \/ num[a] = 0
        \/ num[a] + One(stack[1].op = "next" /\ stack[1].of = a) <= num_running[a]
  <2> SUFFICES ASSUME NEW a \in OfKind({"execute"}), num[a] # 0
               PROVE  num[a] + One(stack[1].op = "next" /\ stack[1].of = a) <= num_running[a]
    OBVIOUS
  <2>1. a \in Actions /\ num[a] \in Nat /\ num_running[a] \in Nat
    BY <1>1 DEF OfKind
  <2>2. CASE a = This
    <3>1. One(stack[1].op = "next" /\ stack[1].of = a) = 1
      BY <1>2, <2>2 DEF One
    <3> QED BY <2>2, <3>1
  <2>3. CASE a # This
    <3>1. One(stack[1].op = "next" /\ stack[1].of = a) = 0
      BY <1>2, <2>3 DEF One
    <3> QED BY <2>1, <2>3, <3>1
  <2> QED BY <2>2, <2>3
<1>7. \A a \in OfKind({"execute"}) :
        num[a] <= num[a] + One(fs # << >> /\ fs[Len(fs)].op = "next" /\ fs[Len(fs)].of = a)
  <2> SUFFICES ASSUME NEW a \in OfKind({"execute"})
               PROVE  num[a] <= num[a]
                        + One(fs # << >> /\ fs[Len(fs)].op = "next" /\ fs[Len(fs)].of = a)
    OBVIOUS
  <2>1. PICK c : c = One(fs # << >> /\ fs[Len(fs)].op = "next" /\ fs[Len(fs)].of = a)
    OBVIOUS
  <2>2. c \in {0, 1} /\ num[a] \in Nat
    BY <2>1, OneFact DEF OfKind
  <2>3. num[a] <= num[a] + c
    BY ONLY <2>2
  <2> QED BY <2>1, <2>3
<1>8. NextsOk(new, num, stopped) /\ PlaysOk(new, stopped)
  BY ONLY <1>1, <1>5, <1>6, <1>7, AllOk(fs, stopped), num \in [Actions -> Nat], CallsFresh
<1>9. \A a : Popping(new, a) <=> Popping(stack, a)
  <2>1. Fits(fs, stack) /\ new = fs \o Below(stack) /\ stack[1].op # "pop_front"
    BY <1>2, <1>5 DEF Replaces
  <2> QED BY <1>1, <1>2, <2>1, PoppingStays
<1>10. ~ Top("execute")'
  <2>1. /\ fs # << >> => new[1] = fs[1]
        /\ fs = << >> /\ new # << >> => Lower(new[1])
    BY <1>5, StackFact
  <2>2. new # << >> => new[1].op # "execute"
    BY <2>1 DEF Lower
  <2> QED BY <1>4, <2>2 DEF Top
<1>11. \A s \in Scripts : stopped[s] <= Limit'
  <2>1. Limit' \in Nat /\ Limit <= Limit'
    BY <1>1, <1>10, LimitGrows
  <2> SUFFICES ASSUME NEW s \in Scripts PROVE stopped[s] <= Limit'
    OBVIOUS
  <2>2. stopped[s] \in Nat /\ stopped[s] <= Limit
    BY <1>1
  <2> QED BY ONLY <1>1, <2>1, <2>2
<1>12. WaitsOk(waiting, stack', stopped)
  BY <1>1, <1>4, <1>9 DEF WaitsOk
<1>13. /\ TimersOk(timers', stopped') /\ WaitsOk(waiting', stack', stopped')
       /\ PlaysOk(stack', stopped') /\ NextsOk(stack', num_running', stopped')
       /\ RingsOk(ring', stopped') /\ \A s \in Scripts : stopped'[s] <= Limit'
  BY <1>1, <1>4, <1>8, <1>11, <1>12
<1>14. next_id' \in Nat /\ next_id' >= next_id
  BY <1>1
<1>15. FreshInv'
  BY <1>10, <1>13, <1>14, KeepFresh
<1> QED BY <1>3, <1>15

LEMMA PlayNextStep ==
  ASSUME ShapeInv, LimitsInv, HeldInv, FreshInv, PlayNext
  PROVE  HeldInv' /\ FreshInv'
<1>1. /\ Top("next") /\ stack # << >> /\ stack[1].op = "next"
      /\ UNCHANGED << program, timers, waiting, ring, next_id, stopped >>
  BY DEF PlayNext, Top
<1>2. /\ This \in Actions /\ num_running \in [Actions -> Nat] /\ program \in Programs
      /\ GoodStack(stack) /\ Args \in Instances
  BY <1>1, TopFact, FreshFact
<1>3. CASE num_running[This] > 0
  <2> DEFINE f == Frame("play", Following(This), Args)
  <2>1. PICK fs : fs = IF Following(This) = None THEN << >> ELSE << f >>
    OBVIOUS
  <2>2. Call(fs)
    BY <1>3, <2>1 DEF PlayNext
  <2>3. PICK num : num = [num_running EXCEPT ![This] = @ - 1]
    OBVIOUS
  <2>4. num_running' = num
    BY <1>3, <2>3 DEF PlayNext
  <2>5. /\ num \in [Actions -> Nat] /\ num_running[This] = num[This] + 1
        /\ \A b \in Actions : b # This => num_running[b] = num[b]
    <3>1. PICK k \in Nat : k = num_running[This]
      BY <1>2
    <3>2. k - 1 \in Nat /\ k = (k - 1) + 1
      BY ONLY <1>3, <3>1
    <3> QED BY <1>2, <2>3, <3>1, <3>2
  <2>6. f.op = "play" /\ f.of = Following(This) /\ f.args = Args
    BY DEF Frame
  <2>7. Following(This) # None => f \in Frames /\ Ok(f.of, f.args, stopped)
    <3> SUFFICES ASSUME Following(This) # None PROVE f \in Frames /\ Ok(f.of, f.args, stopped)
      OBVIOUS
    <3>1. /\ Following(This) \in Actions
          /\ program.script[Following(This)] = program.script[This]
          /\ program.kind[This] \notin Continuations
      BY <1>2, FollowingFact
    <3>2. Ok(This, Args, stopped)
      BY <1>1, <1>3, <3>1, NextOk
    <3>3. f \in Frames
      BY <1>2, <3>1 DEF Frames, Frame
    <3>4. Ok(f.of, f.args, stopped)
      BY <2>6, <3>1, <3>2 DEF Ok
    <3> QED BY <3>3, <3>4
  <2> HIDE DEF f
  <2>8. Replaces(stack', stack, fs) /\ AllOk(fs, stopped)
        /\ (fs # << >> => fs[1].op = "play" /\ Len(fs) = 1)
    <3>1. CASE Following(This) = None
      <4>1. fs = << >>
        BY <2>1, <3>1
      <4>2. Calls(<< >>, Limit', ring')
        BY NoCalls
      <4> QED BY <1>1, <2>2, <4>1, <4>2, CalledFact, QuietFact
    <3>2. CASE Following(This) # None
      <4>1. fs = << f >> /\ fs \in Seq(Frames) /\ Len(fs) = 1 /\ fs[1] = f
        BY <2>1, <2>7, <3>2
      <4>2. Fits(fs, stack)
        <5>1. \A i \in 1 .. Len(fs) : fs[i].op # "pop_front"
          BY <2>6, <4>1
        <5> QED BY <4>1, <5>1 DEF Fits
      <4>3. Replaces(stack', stack, fs)
        BY <1>1, <1>2, <2>2, <4>2 DEF Replaces, Call, Below
      <4>4. AllOk(fs, stopped)
        BY <2>6, <2>7, <3>2, <4>1 DEF AllOk
      <4> QED BY <2>6, <4>1, <4>3, <4>4
    <3> QED BY <3>1, <3>2
  <2>9. Balanced(timers, waiting, num, stack')
    <3>1. PICK new : new = stack'
      OBVIOUS
    <3>2. Replaces(new, stack, IF Following(This) = None THEN << >> ELSE << f >>)
      BY <2>1, <2>8, <3>1
    <3>3. Balanced(timers, waiting, num, new)
      BY <1>1, <2>5, <3>2, LeaveBalanced DEF f
    <3> QED BY <3>1, <3>3
  <2>10. num[This] + 1 <= num_running[This]
    <3>1. num_running[This] \in Nat
      BY <1>2
    <3> QED BY <2>5, <3>1
  <2> QED BY <1>1, <2>4, <2>5, <2>8, <2>9, <2>10, LeaveStep
<1>4. CASE ~ (num_running[This] > 0)
  <2>1. Call(<< >>) /\ num_running' = num_running
    BY <1>4 DEF PlayNext, Return
  <2>2. num_running[This] = 0
    <3>1. num_running[This] \in Nat
      BY <1>2
    <3> QED BY <1>4, <3>1
  <2>3. Calls(<< >>, Limit', ring')
    BY NoCalls
  <2>4. Replaces(stack', stack, << >>)
    BY <1>1, <2>1, <2>3, CalledFact
  <2>5. AllOk(<< >>, stopped) /\ \A a : ~ Nudges(<< >>, a)
    BY QuietFact
  <2>6. PICK new : new = stack'
    OBVIOUS
  <2>7. \A a : Popping(new, a) <=> Popping(stack, a)
    <3>1. Fits(<< >>, stack) /\ new = << >> \o Below(stack) /\ stack[1].op # "pop_front"
      BY <1>1, <2>4, <2>6 DEF Replaces
    <3> QED BY <1>1, <1>2, <3>1, PoppingStays
  <2>8. Balanced(timers, waiting, num_running, new)
    <3>1. Replaces(new, stack, << >>)
      BY <2>4, <2>6
    <3> QED BY <2>5, <2>7, <3>1, StayBalanced
  <2>9. Balanced(timers, waiting, num_running, stack')
    BY <2>6, <2>8
  <2> QED BY <1>1, <1>2, <2>1, <2>2, <2>4, <2>5, <2>9, LeaveStep
<1> QED BY <1>3, <1>4
-----------------------------------------------------------------------------
(* What the main loop begins.                                              *)
LEMMA BeginFact ==
  ASSUME ShapeInv, stack = << >>, NEW fs, stack' = fs, NEW l, NEW r, Calls(fs, l, r)
  PROVE  Replaces(stack', stack, fs)
<1>1. GoodStack(stack) /\ Fits(fs, stack)
  BY DEF ShapeInv, TypeInv, Calls
<1>2. fs \o Below(stack) = fs
  BY <1>1 DEF Fits, Below
<1> QED BY <1>1, <1>2 DEF Replaces

LEMMA BeginStep ==
  ASSUME ShapeInv, LimitsInv, HeldInv, FreshInv, stack = << >>,
         UNCHANGED << program, num_running, timers, waiting, ring, stopped >>,
         NEW fs, stack' = fs, NEW l, NEW r, Calls(fs, l, r), AllOk(fs, stopped),
         \A a \in Holders : ~ Nudges(fs, a),
         next_id' \in Nat, next_id' >= next_id,
         fs # << >> /\ fs[1].op = "execute" => next_id' > next_id
  PROVE  HeldInv' /\ FreshInv'
<1>1. Replaces(stack', stack, fs)
  BY BeginFact
<1>2. RingsOk(ring', stopped)
  BY FreshFact
<1> QED BY <1>1, <1>2, StayStep

LEMMA RestStep ==
  ASSUME ShapeInv, LimitsInv, HeldInv, FreshInv, stack = << >>, stack' = << >>,
         UNCHANGED << program, num_running, timers, waiting, ring, next_id, stopped >>
  PROVE  HeldInv' /\ FreshInv'
<1>1. Calls(<< >>, Limit', ring')
  BY NoCalls
<1>2. AllOk(<< >>, stopped) /\ \A a : ~ Nudges(<< >>, a)
  BY QuietFact
<1>3. next_id' \in Nat /\ next_id' >= next_id
  BY FreshFact
<1> QED BY <1>1, <1>2, <1>3, BeginStep

LEMMA IdleStep ==
  ASSUME ShapeInv, LimitsInv, HeldInv, FreshInv,
         (\E c \in DOMAIN loops : Setup(c)) \/ ConditionChanges
  PROVE  HeldInv' /\ FreshInv'
<1>1. /\ stack = << >> /\ stack' = << >>
      /\ UNCHANGED << program, num_running, timers, waiting, ring, next_id, stopped >>
  BY DEF Setup, ConditionChanges
<1> QED BY <1>1, RestStep

LEMMA QueuedLoopStep ==
  ASSUME ShapeInv, LimitsInv, HeldInv, FreshInv, NEW s \in Queued, QueuedLoop(s)
  PROVE  HeldInv' /\ FreshInv'
<1> DEFINE f == Frame("script_loop", s, << >>)
<1>1. /\ stack = << >> /\ stack' = << f >>
      /\ UNCHANGED << program, num_running, timers, waiting, ring, next_id, stopped >>
  BY DEF QueuedLoop
<1>2. << >> \in Instances
  BY DEF Instances
<1>3. Sound(f, Limit', ring') /\ f.op = "script_loop"
  BY <1>2, ScriptFrames
<1> HIDE DEF f
<1>4. AtOnce(<< f >>, Limit', ring')
  BY <1>3, CallsFact
<1>5. Calls(<< f >>, Limit', ring')
  BY <1>4, CallsFact
<1>6. AllOk(<< f >>, stopped) /\ \A a : ~ Nudges(<< f >>, a)
  BY <1>3, QuietFact
<1>7. next_id' \in Nat /\ next_id' >= next_id /\ << f >>[1].op # "execute"
  BY <1>1, <1>3, FreshFact
<1> QED BY <1>1, <1>5, <1>6, <1>7, BeginStep

LEMMA StartStep ==
  ASSUME ShapeInv, LimitsInv, HeldInv, FreshInv, NEW s \in Scripts, Execute(s)
  PROVE  HeldInv' /\ FreshInv'
<1> DEFINE f == Frame("execute", s, << next_id >>)
<1>1. /\ stack = << >> /\ stack' = << f >> /\ next_id' = next_id + 1
      /\ UNCHANGED << program, num_running, timers, waiting, ring, stopped >>
  BY DEF Execute
<1>2. next_id \in Nat /\ << next_id >> \in Instances
  BY KeepFact DEF Instances
<1>3. Sound(f, Limit', ring') /\ f.op = "execute"
  BY <1>2, SoundFact DEF Frame
<1> HIDE DEF f
<1>4. f \in Frames /\ f.op # "pop_front" /\ AllStem(f, Limit', ring')
  BY <1>3 DEF Sound
<1>5. << f >> \in Seq(Frames) /\ Len(<< f >>) = 1 /\ << f >>[1] = f
  BY <1>4, FrameFact
<1>6. \A i \in 1 .. Len(<< f >>) : << f >>[i] = f
  BY <1>5
<1>7. Calls(<< f >>, Limit', ring')
  <2>1. Fits(<< f >>, stack)
    BY <1>4, <1>5, <1>6 DEF Fits
  <2> QED BY <1>4, <1>6, <2>1 DEF Calls
<1>8. AllOk(<< f >>, stopped) /\ \A a : ~ Nudges(<< f >>, a)
  <2>1. f.op \notin {"play", "next"}
    BY <1>3
  <2> QED BY <2>1, QuietFact
<1>9. next_id' \in Nat /\ next_id' >= next_id /\ next_id' > next_id
  BY <1>1, <1>2
<1> QED BY <1>1, <1>7, <1>8, <1>9, BeginStep

LEMMA FireStep ==
  ASSUME ShapeInv, LimitsInv, HeldInv, FreshInv, NEW t \in timers, Fire(t)
  PROVE  HeldInv' /\ FreshInv'
<1> DEFINE f == Frame("next", t.of, t.args)
<1>1. /\ stack = << >> /\ timers' = timers \ {t} /\ stack' = << f >>
      /\ UNCHANGED << program, num_running, waiting, ring, next_id, stopped >>
  BY DEF Fire
<1>2. t.of \in Actions /\ t.args \in Instances /\ Stems(t.of, t.args, Limit', ring')
  <2>1. t.of \in Delays /\ t.args \in Instances
    BY KeepFact
  <2> QED BY <2>1, KeepFact DEF Delays, OfKind
<1>3. Sound(f, Limit', ring') /\ f.op = "next" /\ f.of = t.of /\ f.args = t.args
  BY <1>2, SoundFact DEF Frame
<1>4. HeldInv'
  <2>1. PICK new : new = << f >> /\ new = stack'
    BY <1>1
  <2>2. Balanced(timers \ {t}, waiting, num_running, new)
    BY <1>1, <2>1, FireBalanced
  <2> QED BY <1>1, <2>1, <2>2, SameBalanced
<1> HIDE DEF f
<1>5. AtOnce(<< f >>, Limit', ring')
  BY <1>3, CallsFact
<1>6. Calls(<< f >>, Limit', ring')
  BY <1>5, CallsFact
<1>7. Replaces(stack', stack, << f >>)
  BY <1>1, <1>6, BeginFact
<1>8. TimersOk(timers, stopped) /\ WaitsOk(waiting', stack, stopped) /\ RingsOk(ring', stopped)
  BY <1>1, FreshFact
<1>9. TimersOk(timers', stopped) /\ Ok(t.of, t.args, stopped)
  BY <1>1, <1>8 DEF TimersOk
<1>10. AllOk(<< f >>, stopped)
  <2>1. \A i \in 1 .. Len(<< f >>) : << f >>[i] = f
    OBVIOUS
  <2> QED BY <1>3, <1>9, <2>1 DEF AllOk
<1>11. next_id' \in Nat /\ next_id' >= next_id /\ << f >>[1].op # "execute"
  BY <1>1, <1>3, FreshFact
<1>12. FreshInv'
  BY <1>1, <1>7, <1>8, <1>9, <1>10, <1>11, StayFresh
<1> QED BY <1>4, <1>12

LEMMA WaitLoopStep ==
  ASSUME ShapeInv, LimitsInv, HeldInv, FreshInv, NEW a \in Waits, WaitLoop(a)
  PROVE  HeldInv' /\ FreshInv'
<1>1. /\ stack = << >> /\ a \in Actions /\ a \in OfKind({"wait"})
      /\ UNCHANGED << program, num_running, timers, waiting, ring, next_id, stopped >>
  BY DEF WaitLoop, Waits, OfKind
<1>2. CASE waiting[a] # << >>
  <2> DEFINE x == Head(waiting[a])
             f == Frame("next", a, x)
             g == Frame("pop_front", a, x)
             fs == << f, g >>
  <2>1. stack' = fs
    BY <1>2 DEF WaitLoop
  <2>2. x \in Instances /\ Stems(a, x, Limit', ring') /\ Ok(a, x, stopped)
    <3>1. waiting[a] \in Seq(Instances) /\ \A y \in Range(waiting[a]) : Stems(a, y, Limit', ring')
      BY KeepFact
    <3>2. 1 \in DOMAIN waiting[a] /\ x = waiting[a][1]
      BY <1>2, <3>1
    <3>3. x \in Range(waiting[a])
      BY <3>2 DEF Range
    <3>4. WaitsOk(waiting, stack, stopped) /\ ~ Popping(stack, a)
      BY <1>1, FreshFact DEF Popping
    <3>5. Ok(a, waiting[a][1], stopped)
      BY <1>1, <3>2, <3>4 DEF WaitsOk
    <3>6. x \in Instances /\ Stems(a, x, Limit', ring')
      BY <3>1, <3>2, <3>3
    <3> QED BY <3>2, <3>5, <3>6
  <2> HIDE DEF x
  <2>3. HeldInv'
    <3>1. PICK new : new = fs /\ new = stack'
      BY <2>1
    <3>2. Balanced(timers, waiting, num_running, new)
      BY <1>1, <3>1, WaitBalanced
    <3> QED BY <1>1, <3>1, <3>2, SameBalanced
  <2>4. Sound(f, Limit', ring') /\ f.op = "next" /\ f.of = a /\ f.args = x
    BY <1>1, <2>2, SoundFact DEF Frame
  <2>5. g \in Frames /\ g.op = "pop_front"
    BY <1>1, <2>2 DEF Frame, Frames
  <2>6. AllStem(g, Limit', ring') /\ Lower(g)
    BY <2>5 DEF AllStem, CarriedBy, Lower
  <2> HIDE DEF f, g
  <2>7. fs \in Seq(Frames) /\ Len(fs) = 2 /\ fs[1] = f /\ fs[2] = g
    <3>1. f \in Frames
      BY <2>4 DEF Sound
    <3> QED BY <2>5, <3>1, FrameFact
  <2> HIDE DEF fs
  <2>8. \A i \in 1 .. Len(fs) : i = 1 \/ i = 2
    BY <2>7
  <2>9. Fits(fs, stack)
    BY <1>1, <2>4, <2>5, <2>6, <2>7, <2>8 DEF Fits
  <2>10. Calls(fs, Limit', ring')
    BY <2>4, <2>6, <2>7, <2>8, <2>9 DEF Calls, Sound
  <2>11. Replaces(stack', stack, fs)
    BY <1>1, <2>1, <2>10, BeginFact
  <2>12. AllOk(fs, stopped)
    BY <2>2, <2>4, <2>5, <2>7, <2>8 DEF AllOk
  <2>13. TimersOk(timers', stopped) /\ WaitsOk(waiting', stack, stopped) /\ RingsOk(ring', stopped)
    BY <1>1, FreshFact
  <2>14. next_id' \in Nat /\ next_id' >= next_id /\ fs[1].op # "execute"
    BY <1>1, <2>4, <2>7, FreshFact
  <2>15. FreshInv'
    BY <1>1, <2>11, <2>12, <2>13, <2>14, StayFresh
  <2> QED BY <2>3, <2>15
<1>3. CASE waiting[a] = << >>
  <2>1. stack' = << >>
    BY <1>1, <1>3 DEF WaitLoop
  <2> QED BY <1>1, <2>1, RestStep
<1> QED BY <1>2, <1>3

LEMMA PopFrontStep ==
  ASSUME ShapeInv, LimitsInv, HeldInv, FreshInv, PopFront
  PROVE  HeldInv' /\ FreshInv'
<1>1. /\ Top("pop_front") /\ stack # << >> /\ stack[1].op = "pop_front" /\ waiting[This] # << >>
      /\ waiting' = [waiting EXCEPT ![This] = Tail(@)] /\ Call(<< >>)
      /\ UNCHANGED << program, num_running, timers, ring, next_id, stopped >>
  BY DEF PopFront, Top, Return
<1>2. This \in OfKind({"wait"}) /\ Tail(stack) = << >> /\ This \in Waits
  <2>1. This \in OfKind({"wait"}) /\ Tail(stack) = << >>
    BY <1>1, TopFact
  <2> QED BY <2>1 DEF OfKind, Waits
<1>3. stack' = << >>
  BY <1>1, <1>2 DEF Call
<1>4. /\ waiting \in [Waits -> Seq(Instances)] /\ TimersOk(timers, stopped)
      /\ WaitsOk(waiting, stack, stopped) /\ RingsOk(ring, stopped)
      /\ stopped \in [Scripts -> Nat] /\ next_id \in Nat /\ Limit \in Nat
      /\ \A s \in Scripts : stopped[s] <= Limit
  BY FreshFact
<1>5. HeldInv'
  <2>1. PICK w : w = [waiting EXCEPT ![This] = Tail(@)] /\ w = waiting'
    BY <1>1
  <2>2. Balanced(timers, w, num_running, << >>)
    BY <1>1, <2>1, PopFrontBalanced
  <2> QED BY <1>1, <1>3, <2>1, <2>2, SameBalanced
<1>6. WaitsOk(waiting', stack', stopped)
  <2> SUFFICES ASSUME NEW a \in OfKind({"wait"}), NEW i \in DOMAIN waiting'[a]
               PROVE  Ok(a, waiting'[a][i], stopped)
    BY DEF WaitsOk
  <2>1. a \in Waits
    BY DEF OfKind, Waits
  <2>2. CASE a = This
    <3>1. PICK q \in Seq(Instances) : q = waiting[a] /\ q # << >>
      BY <1>1, <1>4, <2>1, <2>2
    <3>2. waiting'[a] = Tail(q)
      BY <1>1, <1>4, <2>1, <2>2, <3>1
    <3>3. i + 1 \in DOMAIN q /\ i + 1 > 1 /\ Tail(q)[i] = q[i + 1]
      <4>1. i \in DOMAIN Tail(q)
        BY <3>2
      <4> QED BY ONLY <3>1, q \in Seq(Instances), <4>1
    <3> QED BY <1>4, <3>1, <3>2, <3>3 DEF WaitsOk
  <2>3. CASE a # This
    <3>1. waiting'[a] = waiting[a]
      BY <1>1, <1>4, <2>1, <2>3
    <3>2. ~ Popping(stack, a)
      <4>1. Len(stack) = 1
        <5>1. GoodStack(stack)
          BY FreshFact
        <5>2. Len(Tail(stack)) = Len(stack) - 1 /\ Len(stack) \in Nat
          BY <1>1, <5>1, TailGood
        <5>3. Len(<< >>) = 0
          OBVIOUS
        <5>4. Len(Tail(stack)) = 0
          BY <1>2, <5>3
        <5> QED BY ONLY <5>2, <5>4
      <4> QED BY <2>3, <4>1 DEF Popping, This
    <3> QED BY <1>4, <3>1, <3>2 DEF WaitsOk
  <2> QED BY <2>2, <2>3
<1>7. PlaysOk(stack', stopped) /\ NextsOk(stack', num_running', stopped) /\ ~ Top("execute")'
  <2>1. PlaysOk(stack', stopped) /\ ~ Top("execute")'
    BY <1>3 DEF PlaysOk, Top
  <2>2. \A a : NextsOf(<< >>, a) = {}
    <3> SUFFICES ASSUME NEW a, NEW d \in NextsOf(<< >>, a) PROVE FALSE
      OBVIOUS
    <3>1. d \in 1 .. Len(<< >>)
      BY DEF NextsOf
    <3>2. Len(<< >>) = 0
      OBVIOUS
    <3> QED BY ONLY <3>1, <3>2
  <2>3. NextsOk(<< >>, num_running', stopped)
    BY <2>2 DEF NextsOk
  <2> QED BY <1>3, <2>1, <2>3
<1>8. \A s \in Scripts : stopped[s] <= Limit'
  <2>1. Limit' \in Nat /\ Limit <= Limit'
    BY <1>1, <1>4, <1>7, LimitGrows
  <2> SUFFICES ASSUME NEW s \in Scripts PROVE stopped[s] <= Limit'
    OBVIOUS
  <2>2. stopped[s] \in Nat /\ stopped[s] <= Limit
    BY <1>4
  <2> QED BY ONLY <1>4, <2>1, <2>2
<1>9. /\ TimersOk(timers', stopped') /\ WaitsOk(waiting', stack', stopped')
      /\ PlaysOk(stack', stopped') /\ NextsOk(stack', num_running', stopped')
      /\ RingsOk(ring', stopped') /\ \A s \in Scripts : stopped'[s] <= Limit'
  BY <1>1, <1>4, <1>6, <1>7, <1>8
<1>10. next_id' \in Nat /\ next_id' >= next_id
  BY <1>1, <1>4
<1>11. FreshInv'
  BY <1>1, <1>7, <1>9, <1>10, KeepFresh
<1> QED BY <1>5, <1>11

(* The state the device starts in holds nothing.                           *)
LEMMA RestartedFresh == Restarted => HeldInv /\ FreshInv
<1> SUFFICES ASSUME Restarted PROVE HeldInv /\ FreshInv
  OBVIOUS
<1>1. /\ program \in Programs /\ stack = << >> /\ timers = {} /\ next_id = 1
      /\ \A a \in Actions : num_running[a] = 0
      /\ \A a \in OfKind({"wait"}) : waiting[a] = << >>
      /\ \A s \in Queued : \A k \in 0 .. Capacity(s) - 1 : ring[s].slots[k] = << >>
      /\ \A s \in Scripts : stopped[s] = 1
  BY DEF Restarted, Fresh, EmptyRing, Waits, OfKind
<1>2. Balanced(timers, waiting, num_running, stack)
  <2>1. IsFiniteSet(timers)
    BY <1>1, FS_EmptySet
  <2> SUFFICES ASSUME NEW a \in Holders
               PROVE  Size(a, timers, waiting, num_running) + One(Claims(stack, a, num_running))
                        <= num_running[a] + One(Popping(stack, a))
    BY <2>1 DEF Balanced
  <2>2. a \in Actions
    BY DEF Holders, OfKind
  <2>3. One(Claims(stack, a, num_running)) = 0 /\ One(Popping(stack, a)) = 0
    BY <1>1 DEF One, Claims, Popping
  <2>4. Cardinality({t \in timers : t.of = a}) = 0
    <3>1. {t \in timers : t.of = a} = {}
      BY <1>1
    <3> QED BY <3>1, FS_EmptySet
  <2>5. program.kind[a] = "wait" => Len(waiting[a]) = 0
    <3>1. Len(<< >>) = 0
      OBVIOUS
    <3> QED BY <1>1, <2>2, <3>1 DEF OfKind
  <2>6. Cardinality(Pairs(Proper(a), num_running)) = 0
    <3>1. \A b \in Proper(a) : ~ (num_running[b] > 0) /\ num_running[b] \in Nat
      BY <1>1, <2>2, ListFact DEF Proper
    <3> QED BY <3>1, CountZero
  <2>7. Size(a, timers, waiting, num_running) = 0
    BY <2>4, <2>5, <2>6 DEF Size
  <2>8. num_running[a] = 0
    BY <1>1, <2>2
  <2> QED BY <2>3, <2>7, <2>8
<1>3. TimersOk(timers, stopped) /\ PlaysOk(stack, stopped) /\ RingsOk(ring, stopped)
  BY <1>1 DEF TimersOk, PlaysOk, RingsOk
<1>4. WaitsOk(waiting, stack, stopped)
  <2>1. DOMAIN << >> = {}
    OBVIOUS
  <2> QED BY <1>1, <2>1 DEF WaitsOk
<1>5. NextsOk(stack, num_running, stopped)
  <2> SUFFICES ASSUME NEW a, NEW d \in NextsOf(<< >>, a) PROVE FALSE
    BY <1>1 DEF NextsOk
  <2>1. d \in 1 .. Len(<< >>)
    BY DEF NextsOf
  <2>2. Len(<< >>) = 0
    OBVIOUS
  <2> QED BY ONLY <2>1, <2>2
<1>6. Limit = 1
  BY <1>1 DEF Limit, Top
<1> QED BY <1>1, <1>2, <1>3, <1>4, <1>5, <1>6 DEF HeldInv, FreshInv

LEMMA PopFrontOfNoneStep == ShapeInv /\ PopFrontOfNone => (HeldInv /\ FreshInv)'
<1>1. ShapeInv /\ PopFrontOfNone => Restarted'
  BY PopFrontOfNoneRestarts
<1>2. Restarted' => (HeldInv /\ FreshInv)'
  BY RestartedFresh, PTL
<1> QED BY <1>1, <1>2

LEMMA SameStep ==
  ASSUME ShapeInv, HeldInv, FreshInv, UNCHANGED vars
  PROVE  HeldInv' /\ FreshInv'
<1> USE DEF vars
<1>1. HeldInv'
  <2>1. Balanced(timers', waiting', num_running', stack')
    BY DEF HeldInv
  <2> QED BY <2>1, SameBalanced
<1>2. Limit' = Limit
  BY DEF Limit, Top
<1>3. FreshInv'
  <2>1. /\ TimersOk(timers, stopped)' /\ WaitsOk(waiting, stack, stopped)'
        /\ PlaysOk(stack, stopped)' /\ NextsOk(stack, num_running, stopped)'
        /\ RingsOk(ring, stopped)'
    BY DEF FreshInv, TimersOk, WaitsOk, PlaysOk, NextsOk, NextsOf, At, RingsOk, Ok, Popping,
           OfKind, Actions, Scripts, Queued, Capacity
  <2>2. \A s \in Scripts' : stopped'[s] <= Limit'
    BY <1>2 DEF FreshInv, Scripts
  <2> QED BY <2>1, <2>2 DEF FreshInv
<1> QED BY <1>1, <1>3

(* A program without wait_until has no lists of it to walk.                *)
LEMMA NoUntils ==
  ASSUME ShapeInv, Untils = {}
  PROVE  /\ ~ PlayWaitUntil /\ ~ ProcessQueue /\ ~ WalkKeeps /\ ~ WalkResumes /\ ~ WalkEnds
         /\ ~ WalkIsCancelled /\ ~ Processed /\ \A a \in Waits : ~ WaitUntilLoop(a)
<1>1. ~ PlayWaitUntil
  <2> SUFFICES ASSUME Plays("wait_until") PROVE FALSE
    BY DEF PlayWaitUntil
  <2> QED BY PlaysFact DEF Untils
<1>2. \A op \in {"process", "enable_if_waiting", "disable_unless_waiting", "walk"} : ~ Top(op)
  <2> SUFFICES ASSUME NEW op \in {"process", "enable_if_waiting", "disable_unless_waiting",
                                  "walk"}, Top(op)
               PROVE  FALSE
    OBVIOUS
  <2> QED BY TopFact DEF Top
<1>3. ~ ProcessQueue /\ ~ WalkIsCancelled /\ ~ Processed
  BY <1>2 DEF ProcessQueue, WalkIsCancelled, Processed
<1>4. ~ WalkKeeps /\ ~ WalkResumes /\ ~ WalkEnds
  BY <1>2 DEF WalkKeeps, WalkResumes, WalkEnds, Walks
<1>5. \A a \in Waits : ~ WaitUntilLoop(a)
  BY DEF WaitUntilLoop, Untils, Waits, OfKind
<1> QED BY <1>1, <1>3, <1>4, <1>5

LEMMA NextStep ==
  ASSUME ShapeInv, LimitsInv, HeldInv, FreshInv, Untils = {}, [Next]_vars
  PROVE  HeldInv' /\ FreshInv'
<1>1. CASE Runs
  <2>1. CASE PlayNext
    BY <2>1, PlayNextStep
  <2>2. CASE PlayExecute \/ PlayDelay \/ PlayWait \/ PlayIf \/ PlayRepeat \/ PlayContinuation
    BY <2>2, PlaySteps, PlayDelayStep, PlayWaitStep
  <2>3. CASE PlayStop \/ PlayWhile
    BY <2>3, PlayStopStep, PlayWhileStep
  <2>4. CASE ExecuteSingle \/ ExecuteRestart \/ ExecuteParallel \/ ExecuteQueued
    BY <2>4, ExecuteStep, ExecuteRestartStep, ExecuteQueuedStep
  <2>5. CASE ScriptLoop \/ ScriptLoopEnds
    BY <2>5, ScriptLoopStep, ScriptLoopEndsStep
  <2>6. CASE PopFront \/ PopFrontOfNone
    BY <2>6, PopFrontStep, PopFrontOfNoneStep
  <2> QED BY <1>1, <2>1, <2>2, <2>3, <2>4, <2>5, <2>6, NoUntils DEF Runs
<1>2. CASE \E t \in timers : Fire(t)
  BY <1>2, FireStep
<1>3. CASE (\E c \in DOMAIN loops : Setup(c)) \/ ConditionChanges
  BY <1>3, IdleStep
<1>4. CASE \E a \in Waits : WaitLoop(a) \/ WaitUntilLoop(a)
  BY <1>4, WaitLoopStep, NoUntils
<1>5. CASE \E s \in Queued : QueuedLoop(s)
  BY <1>5, QueuedLoopStep
<1>6. CASE \E s \in Scripts : Execute(s) \/ Stop(s)
  BY <1>6, StartStep, StopStep
<1>7. CASE UNCHANGED vars
  BY <1>7, SameStep
<1> QED BY <1>1, <1>2, <1>3, <1>4, <1>5, <1>6, <1>7 DEF Next

LEMMA FreshIsKept ==
  ASSUME \A p \in Programs : \A a \in DOMAIN p.kind : p.kind[a] # "wait_until"
  PROVE  Spec => [](ShapeInv /\ LimitsInv /\ HeldInv /\ FreshInv)
<1> DEFINE Inv == ShapeInv /\ LimitsInv /\ HeldInv /\ FreshInv
<1>1. Init => Inv
  <2>1. Init => Restarted
    BY DEF Init, Restarted
  <2> QED BY <2>1, RestartedShape, RestartedLimits, RestartedFresh
<1>2. Inv /\ [Next]_vars => Inv'
  <2> SUFFICES ASSUME ShapeInv, LimitsInv, HeldInv, FreshInv, [Next]_vars
               PROVE  ShapeInv' /\ LimitsInv' /\ HeldInv' /\ FreshInv'
    OBVIOUS
  <2>1. Untils = {}
    BY DEF ShapeInv, TypeInv, Untils, OfKind, Actions
  <2> QED BY <2>1, NextShape, NextLimits, NextStep
<1>3. Spec => []Inv
  <2> HIDE DEF Inv
  <2> QED BY <1>1, <1>2, PTL DEF Spec
<1> QED BY <1>3

(* What stop(), or a restart, has ended stays ended: no action of the      *)
(* script is played again for such an instance, whatever of it was under   *)
(* way - the calls that still return into its chain (play_next_ finds      *)
(* nothing to count down), its timeouts, its places in lists, its queue.   *)
(* wait_until is excepted: it notices a stop during its walk by            *)
(* stop_generation_, a byte, which 256 stops bring back to where it was.   *)
THEOREM StoppedStaysStopped ==
  ASSUME \A p \in Programs : \A a \in DOMAIN p.kind : p.kind[a] # "wait_until"
  PROVE  Spec => []StoppedNeverPlays
<1>1. ShapeInv /\ LimitsInv /\ HeldInv /\ FreshInv => StoppedNeverPlays
  BY FreshFact DEF StoppedNeverPlays, Ok
<1> QED BY <1>1, FreshIsKept, PTL

Emptied(s, ts, w, num, st) ==
  \A a \in Actions : program.script[a] = s /\ program.kind[a] \notin Continuations =>
    /\ \A t \in ts : t.of # a
    /\ program.kind[a] = "wait" => Len(w[a]) <= One(Popping(st, a))

LEMMA EmptiedFact ==
  ASSUME program \in Programs, NEW s \in Scripts,
         NEW ts, NEW w \in [Waits -> Seq(Instances)], NEW num \in [Actions -> Nat], NEW new,
         GoodStack(new), Balanced(ts, w, num, new), IsFiniteSet(Pairs(Actions, num)),
         \A a \in Range(program.chain[s]) : num[a] = 0,
         \A t \in ts : program.kind[t.of] = "delay" /\ t.of \in Actions
  PROVE  Emptied(s, ts, w, num, new)
<1>1. \A a \in Actions : program.script[a] = s /\ program.kind[a] \notin Continuations =>
        /\ num[a] = 0
        /\ \A t \in ts : t.of # a
        /\ program.kind[a] = "wait" => Len(w[a]) <= One(Popping(new, a))
  <2>1. \A t \in ts : program.kind[t.of] = "delay"
    OBVIOUS
  <2> QED BY <2>1, NothingLeft
<1> QED BY <1>1 DEF Emptied

(* When no call is under way, a script of which is_running() says that it  *)
(* does not run is really at rest, down to its nested lists: none of its   *)
(* actions has a timeout pending or an instance that waits, so it may be   *)
(* started again.  Nothing is held that is not counted.                    *)
THEOREM IdleScriptsHoldNothing ==
  ASSUME \A p \in Programs : \A a \in DOMAIN p.kind : p.kind[a] # "wait_until"
  PROVE  Spec => [](stack = << >> =>
           \A s \in Scripts : ~ ActionIsRunning(s) =>
             \A a \in Actions : program.script[a] = s =>
               /\ \A t \in timers : t.of # a
               /\ program.kind[a] = "wait" => waiting[a] = << >>)
<1> DEFINE AtRest ==
      stack = << >> =>
        \A s \in Scripts : ~ ActionIsRunning(s) =>
          \A a \in Actions : program.script[a] = s =>
            /\ \A t \in timers : t.of # a
            /\ program.kind[a] = "wait" => waiting[a] = << >>
<1>1. ShapeInv /\ LimitsInv /\ HeldInv /\ FreshInv => AtRest
  <2> SUFFICES ASSUME ShapeInv, LimitsInv, HeldInv, FreshInv, stack = << >>,
                      NEW s \in Scripts, ~ ActionIsRunning(s),
                      NEW a \in Actions, program.script[a] = s
               PROVE  /\ \A t \in timers : t.of # a
                      /\ program.kind[a] = "wait" => waiting[a] = << >>
    OBVIOUS
  <2>1. /\ program \in Programs /\ GoodStack(stack) /\ num_running \in [Actions -> Nat]
        /\ waiting \in [Waits -> Seq(Instances)] /\ timers \subseteq [of : Delays, args : Instances]
    BY FreshFact, KeepFact
  <2>2. \A b \in Range(program.chain[s]) : num_running[b] = 0
    BY <2>1, ListFact DEF ActionIsRunning
  <2>3. \A t \in timers : program.kind[t.of] = "delay" /\ t.of \in Actions
    BY <2>1 DEF Delays, OfKind
  <2>4. Balanced(timers, waiting, num_running, stack) /\ IsFiniteSet(Pairs(Actions, num_running))
    BY DEF HeldInv, LimitsInv
  <2>5. program.kind[a] \notin Continuations =>
          /\ \A t \in timers : t.of # a
          /\ program.kind[a] = "wait" => Len(waiting[a]) <= One(Popping(stack, a))
    <3>1. PICK w \in [Waits -> Seq(Instances)] : w = waiting
      BY <2>1
    <3>2. PICK num \in [Actions -> Nat] : num = num_running
      BY <2>1
    <3>3. PICK ts, st : ts = timers /\ st = stack
      OBVIOUS
    <3>4. GoodStack(st)
      BY <2>1, <3>3
    <3>5. Balanced(ts, w, num, st)
      BY <2>4, <3>1, <3>2, <3>3
    <3>6. IsFiniteSet(Pairs(Actions, num))
      BY <2>4, <3>2
    <3>7. \A b \in Range(program.chain[s]) : num[b] = 0
      BY <2>2, <3>2
    <3>8. \A t \in ts : program.kind[t.of] = "delay" /\ t.of \in Actions
      BY <2>3, <3>3
    <3>9. program \in Programs
      BY <2>1
    <3>10. Emptied(s, ts, w, num, st)
      BY ONLY s \in Scripts, w \in [Waits -> Seq(Instances)], num \in [Actions -> Nat],
              <3>4, <3>5, <3>6, <3>7, <3>8, <3>9, EmptiedFact
    <3> QED BY <3>1, <3>2, <3>3, <3>10 DEF Emptied
  <2>6. One(Popping(stack, a)) = 0
    BY DEF One, Popping
  <2>7. program.kind[a] = "wait" => waiting[a] = << >>
    <3> SUFFICES ASSUME program.kind[a] = "wait" PROVE waiting[a] = << >>
      OBVIOUS
    <3>1. PICK q \in Seq(Instances) : q = waiting[a]
      BY <2>1 DEF Waits, OfKind
    <3>2. Len(q) <= 0
      BY <2>5, <2>6, <3>1 DEF Continuations
    <3>3. q = << >>
      BY ONLY <3>2, q \in Seq(Instances)
    <3> QED BY <3>1, <3>3
  <2>8. \A t \in timers : t.of # a
    BY <2>3, <2>5 DEF Continuations
  <2> QED BY <2>7, <2>8
<1>2. Spec => []AtRest
  <2> HIDE DEF AtRest
  <2> QED BY <1>1, FreshIsKept, PTL
<1> QED BY <1>2
=============================================================================
