-------------------------- MODULE Millis64_proofs --------------------------
(***************************************************************************)
(* Proofs about Millis64, in each of its three forms, for any number of    *)
(* threads and any low word, however often it rolls over.                  *)
(***************************************************************************)
EXTENDS Millis64, TLAPS

Epoch(t) == call[t].stamp \div Range
Active(t) == ~ At(t, "idle")

(* The one that has the lock has counted a rollover, and not stored it yet.*)
Pending == /\ lock \in Threads /\ At(lock, "store")
           /\ RolledOver(Now(lock), call[lock].last)

(* The high word that goes with last_millis, and the time they make.       *)
Major == IF Pending THEN millis_major - 1 ELSE millis_major
Counted == last_millis + Major * Range

(* Where nothing is promised any more.                                     *)
Lost == build = "no_atomics" /\ overtaken

(* No call is older than MaxLag, nor is the last one that was answered.    *)
LagInv == /\ time - seen <= MaxLag
          /\ \A t \in Threads : Active(t) => time - call[t].stamp <= MaxLag

(* A write goes back by no more than the age of its timestamp.             *)
CountedInv == Major \in Nat /\ Counted <= time /\ Counted >= seen - MaxLag

(* The steps a call of each form goes through.                             *)
StepsOf == [single     |-> {"idle", "major", "return"},
            no_atomics |-> Pcs \ {"forward", "check"},
            atomics    |-> Pcs \ {"forward_store"}]

(* What the call has made sure of stays so, but for the age of a write.    *)
Served(t) == Epoch(t) <= Major /\ Counted >= call[t].stamp - MaxLag

SingleInv(t) ==
  /\ Counted <= call[t].stamp
  /\ \A u \in Threads : u # t => ~ Active(u)
  /\ At(t, "return") => call[t].major = Epoch(t)

NoAtomicsInv(t) ==
  /\ Epoch(t) >= millis_major
  /\ At(t, "last") => call[t].major = millis_major \/ Now(t) <= 2 * MaxLag
  /\ call[t].pc \in {"locked", "store"} => call[t].major = millis_major
  /\ At(t, "forward_store") => Epoch(t) <= Major
  /\ call[t].pc \in {"forward_store", "return"} /\ 2 * MaxLag < Window =>
       call[t].major = Epoch(t)

AtomicsInv(t) ==
  /\ call[t].pc \in Locked \cup {"lock"} => Now(t) <= 2 * MaxLag
  /\ At(t, "forward") => Epoch(t) <= Major /\ (~ MayForward(t) => Served(t))
  /\ At(t, "return") => /\ call[t].major \in {Epoch(t), Epoch(t) + 1}
                        /\ call[t].major <= millis_major

CallInv(t) ==
  /\ call[t].pc \in {"locked", "store"} =>
       Epoch(t) = IF RolledOver(Now(t), call[t].last) THEN Major + 1 ELSE Major
  /\ call[t].pc \in {"check", "return"} => Served(t)
  /\ build = "single" => SingleInv(t)
  /\ build = "no_atomics" => NoAtomicsInv(t)
  /\ build = "atomics" => AtomicsInv(t)

IInv == /\ TypeOK /\ LagInv
        /\ \A t \in Threads : call[t].pc \in StepsOf[build]
        /\ ~ Lost => CountedInv /\ \A t \in Threads : Active(t) => CallInv(t)
-----------------------------------------------------------------------------
(* Numbers.                                                                *)
LEMMA ConstFact ==
  /\ Range \in Nat /\ Range > 0 /\ MaxLag \in Nat /\ HALF_MAX_UINT32 \in Nat
  /\ 2 * MaxLag < HALF_MAX_UINT32 /\ 2 * HALF_MAX_UINT32 < Range
<1>1. Range \in Nat /\ MaxLag \in Nat /\ 2 * MaxLag < (Range - 1) \div 2
  BY RangeAssumption, LagAssumption DEF HALF_MAX_UINT32
<1>2. (Range - 1) \div 2 > 0
  BY <1>1
<1>3. Range > 0 /\ 2 * ((Range - 1) \div 2) <= Range - 1
  BY <1>1, <1>2
<1> QED BY <1>1, <1>2, <1>3 DEF HALF_MAX_UINT32

LEMMA DivFact ==
  ASSUME NEW n \in Nat
  PROVE  /\ n \div Range \in Nat /\ n % Range \in 0 .. Range - 1
         /\ n % Range = n - (n \div Range) * Range
<1>1. \A m \in Int, R \in Nat : R > 0 => m % R = m - R * (m \div R)
  OBVIOUS
<1>2. \A m \in Nat, R \in Nat : R > 0 => m \div R \in Nat /\ m % R \in 0 .. R - 1
  OBVIOUS
<1>3. /\ n \div Range \in Nat /\ n % Range \in 0 .. Range - 1
      /\ n % Range = n - Range * (n \div Range)
  BY <1>1, <1>2, ConstFact
<1>4. Range * (n \div Range) = (n \div Range) * Range
  BY <1>3, ConstFact
<1> QED BY <1>3, <1>4

(* Two times that are near each other: whether the low word has rolled     *)
(* over from one to the other shows in the low words.                      *)
LEMMA Near ==
  ASSUME NEW q \in Int, NEW now \in 0 .. Range - 1,
         NEW M \in Int, NEW last \in 0 .. Range - 1,
         (q * Range + now) - (M * Range + last) <= 2 * MaxLag,
         (M * Range + last) - (q * Range + now) <= MaxLag
  PROVE  /\ q = M - 1 \/ q = M \/ q = M + 1
         /\ RolledOver(now, last) <=> q = M + 1
         /\ q = M + 1 => now <= 2 * MaxLag /\ q * Range + now > M * Range + last
         /\ q = M - 1 => now > 2 * MaxLag
         /\ now > last /\ now - last < HALF_MAX_UINT32 => q = M
         /\ now <= last \/ now - last >= HALF_MAX_UINT32 =>
              q = M + 1 \/ M * Range + last >= q * Range + now
<1>0. PICK R, H, a, b : R = Range /\ H = HALF_MAX_UINT32 /\ a = q * R /\ b = M * R
  OBVIOUS
<1>1. /\ R \in Nat /\ R > 0 /\ MaxLag \in Nat /\ H \in Nat
      /\ 2 * MaxLag < H /\ 2 * H < R
      /\ a \in Int /\ b \in Int
      /\ now \in 0 .. R - 1 /\ last \in 0 .. R - 1
      /\ (a + now) - (b + last) <= 2 * MaxLag
      /\ (b + last) - (a + now) <= MaxLag
  BY <1>0, ConstFact
<1>2. a - b < 2 * R /\ b - a < 2 * R
  BY <1>1
<1>3. q = M - 1 \/ q = M \/ q = M + 1
  <2>1. ASSUME q >= M + 2 PROVE FALSE
    <3>1. q * R >= (M + 2) * R /\ (M + 2) * R = M * R + 2 * R
      BY <1>1, <2>1
    <3> QED BY <1>0, <1>1, <1>2, <3>1
  <2>2. ASSUME q <= M - 2 PROVE FALSE
    <3>1. M * R >= (q + 2) * R /\ (q + 2) * R = q * R + 2 * R
      BY <1>1, <2>2
    <3> QED BY <1>0, <1>1, <1>2, <3>1
  <2> QED BY <2>1, <2>2
<1>4. /\ q = M => a = b
      /\ q = M - 1 => a = b - R
      /\ q = M + 1 => a = b + R
  BY <1>0, <1>1
<1>5. CASE q = M
  BY <1>0, <1>1, <1>4, <1>5 DEF RolledOver
<1>6. CASE q = M + 1
  BY <1>0, <1>1, <1>4, <1>6 DEF RolledOver
<1>7. CASE q = M - 1
  BY <1>0, <1>1, <1>4, <1>7 DEF RolledOver
<1> QED BY <1>3, <1>5, <1>6, <1>7

LEMMA EpochFact ==
  ASSUME NEW q \in Int, NEW M \in Int, NEW r \in 0 .. Range - 1, M * Range <= q * Range + r
  PROVE  M <= q
<1>0. PICK R \in Nat : R = Range /\ R > 0
  BY ConstFact
<1>1. ASSUME M >= q + 1 PROVE FALSE
  <2>1. M * R >= (q + 1) * R /\ (q + 1) * R = q * R + R
    BY <1>0, <1>1
  <2>2. PICK a \in Int, b \in Int : a = M * R /\ b = q * R
    BY <1>0
  <2> QED BY <1>0, <2>1, <2>2
<1> QED BY <1>1

(* A call's timestamp is in the epoch of what has been counted or next to  *)
(* it, and the low words tell which.                                       *)
LEMMA Where ==
  ASSUME TypeOK, LagInv, CountedInv, NEW t \in Threads, Active(t)
  PROVE  /\ Major \in Nat /\ Counted \in Int /\ Epoch(t) \in Nat
         /\ Now(t) \in 0 .. Range - 1 /\ last_millis \in 0 .. Range - 1
         /\ call[t].stamp \in Nat /\ call[t].stamp = Epoch(t) * Range + Now(t)
         /\ Epoch(t) = Major - 1 \/ Epoch(t) = Major \/ Epoch(t) = Major + 1
         /\ RolledOver(Now(t), last_millis) <=> Epoch(t) = Major + 1
         /\ Epoch(t) = Major + 1 => Now(t) <= 2 * MaxLag
         /\ Epoch(t) = Major - 1 => Now(t) > 2 * MaxLag
         /\ Now(t) > last_millis /\ Now(t) - last_millis < HALF_MAX_UINT32 => Epoch(t) = Major
         /\ Now(t) <= last_millis \/ Now(t) - last_millis >= HALF_MAX_UINT32 =>
              Epoch(t) = Major + 1 \/ Counted >= call[t].stamp
         /\ Counted >= call[t].stamp => Epoch(t) <= Major
<1>0. PICK stamp, q, now, M, last : /\ stamp = call[t].stamp /\ q = Epoch(t) /\ now = Now(t)
                                    /\ M = Major /\ last = last_millis
  OBVIOUS
<1>1. /\ stamp \in Nat /\ stamp <= time /\ time \in Nat /\ seen \in Nat
      /\ last \in 0 .. Range - 1 /\ M \in Nat
  BY <1>0, ConstFact DEF TypeOK, CountedInv
<1>2. /\ q \in Nat /\ now \in 0 .. Range - 1 /\ now = stamp - q * Range
  BY <1>0, <1>1, DivFact DEF Epoch, Now
<1>3. PICK a \in Int, b \in Int : a = q * Range /\ b = M * Range
  BY <1>1, <1>2, ConstFact
<1>4. stamp = a + now /\ Counted = last + b
  BY <1>0, <1>1, <1>2, <1>3, ConstFact DEF Counted
<1>5. /\ last + b <= time /\ last + b >= seen - MaxLag
      /\ time - seen <= MaxLag /\ time - stamp <= MaxLag
  BY <1>0, <1>4 DEF CountedInv, LagInv
<1>6. (a + now) - (b + last) <= 2 * MaxLag /\ (b + last) - (a + now) <= MaxLag
  BY <1>1, <1>2, <1>3, <1>4, <1>5, ConstFact
<1>7. /\ q = M - 1 \/ q = M \/ q = M + 1
      /\ RolledOver(now, last) <=> q = M + 1
      /\ q = M + 1 => now <= 2 * MaxLag /\ a + now > b + last
      /\ q = M - 1 => now > 2 * MaxLag
      /\ now > last /\ now - last < HALF_MAX_UINT32 => q = M
      /\ now <= last \/ now - last >= HALF_MAX_UINT32 => q = M + 1 \/ b + last >= a + now
  <2>1. /\ (q * Range + now) - (M * Range + last) <= 2 * MaxLag
        /\ (M * Range + last) - (q * Range + now) <= MaxLag
        /\ q \in Int /\ M \in Int
    BY <1>1, <1>2, <1>3, <1>6
  <2>2. /\ q = M - 1 \/ q = M \/ q = M + 1
        /\ RolledOver(now, last) <=> q = M + 1
        /\ q = M + 1 => now <= 2 * MaxLag /\ q * Range + now > M * Range + last
        /\ q = M - 1 => now > 2 * MaxLag
        /\ now > last /\ now - last < HALF_MAX_UINT32 => q = M
        /\ now <= last \/ now - last >= HALF_MAX_UINT32 =>
             q = M + 1 \/ M * Range + last >= q * Range + now
    BY <1>1, <1>2, <2>1, Near
  <2> QED BY <1>3, <2>2
<1>8. Counted = b + last /\ b + last \in Int
  BY <1>1, <1>3, <1>4, ConstFact
<1>9. b + last >= a + now => q <= M
  BY <1>1, <1>2, <1>3, <1>7, ConstFact
<1>10. stamp = q * Range + now
  BY <1>3, <1>4
<1> QED BY <1>0, <1>1, <1>2, <1>4, <1>7, <1>8, <1>9, <1>10

(* Only the thread that has the lock is in the part that needs it.         *)
LEMMA LockFact ==
  ASSUME TypeOK, NEW t \in Threads
  PROVE  /\ call[t].pc \in Locked => lock = t
         /\ lock = t => call[t].pc \in Locked
         /\ Pending => lock \in Threads /\ At(lock, "store")
  BY DEF TypeOK, Pending

(* What another thread does leaves a call's claims as they are.            *)
LEMMA OtherCall ==
  ASSUME NEW u \in Threads, CallInv(u), call'[u] = call[u],
         build' = build, build # "single",
         Major \in Int, Major' \in Int, Counted \in Int, Counted' \in Int,
         millis_major \in Int, millis_major' \in Int,
         Epoch(u) \in Int, call[u].stamp \in Int, call[u].major \in Int,
         Major' >= Major, millis_major' >= millis_major,
         Counted' >= Counted \/ Counted' >= call[u].stamp - MaxLag,
         call[u].pc \in {"locked", "store"} => Major' = Major /\ millis_major' = millis_major,
         build = "no_atomics" =>
           /\ Epoch(u) >= millis_major'
           /\ At(u, "last") => call[u].major = millis_major' \/ Now(u) <= 2 * MaxLag
  PROVE  CallInv(u)'
<1>0. PICK q, now, stamp : q = Epoch(u) /\ now = Now(u) /\ stamp = call[u].stamp
  OBVIOUS
<1>1. /\ Epoch(u)' = q /\ Now(u)' = now /\ call'[u].stamp = stamp
      /\ MayForward(u)' = MayForward(u)
      /\ \A pc : At(u, pc)' = At(u, pc)
  BY <1>0 DEF Epoch, Now, MayForward, At
<1>2. Served(u) => Served(u)'
  BY <1>0, <1>1, ConstFact DEF Served
<1>3. (build = "no_atomics" => NoAtomicsInv(u))'
  <2> SUFFICES ASSUME build = "no_atomics" PROVE NoAtomicsInv(u)'
    OBVIOUS
  <2>1. NoAtomicsInv(u)
    BY DEF CallInv
  <2> QED BY <1>0, <1>1, <2>1, ConstFact DEF NoAtomicsInv, At
<1>4. (build = "atomics" => AtomicsInv(u))'
  <2> SUFFICES ASSUME build = "atomics" PROVE AtomicsInv(u)'
    OBVIOUS
  <2>1. AtomicsInv(u)
    BY DEF CallInv
  <2> QED BY <1>0, <1>1, <1>2, <2>1, ConstFact DEF AtomicsInv, At
<1>5. (call[u].pc \in {"locked", "store"} =>
         Epoch(u) = IF RolledOver(Now(u), call[u].last) THEN Major + 1 ELSE Major)'
  BY <1>0, <1>1 DEF CallInv
<1> QED BY <1>1, <1>2, <1>3, <1>4, <1>5 DEF CallInv

(* What a step of thread t must show.                                      *)
LEMMA Combine ==
  ASSUME IInv, NEW t \in Threads, TypeOK', build' = build, time' = time,
         overtaken => overtaken',
         \A u \in Threads \ {t} : call'[u] = call[u],
         call'[t].pc \in StepsOf[build],
         time - seen' <= MaxLag,
         call'[t].pc # "idle" => time - call'[t].stamp <= MaxLag,
         build = "single" => \A u \in Threads \ {t} : ~ Active(u),
         ~ Lost' =>
           /\ CountedInv' /\ Major' >= Major /\ millis_major' >= millis_major
           /\ Counted' >= Counted \/ Counted' >= time - MaxLag
           /\ \A u \in Threads \ {t} :
                /\ call[u].pc \in {"locked", "store"} =>
                     Major' = Major /\ millis_major' = millis_major
                /\ Active(u) /\ build = "no_atomics" =>
                     /\ Epoch(u) >= millis_major'
                     /\ At(u, "last") => call[u].major = millis_major' \/ Now(u) <= 2 * MaxLag
           /\ call'[t].pc # "idle" => CallInv(t)'
  PROVE  IInv'
<1>1. LagInv'
  BY DEF IInv, LagInv, Active, At
<1>2. \A u \in Threads : call'[u].pc \in StepsOf[build']
  BY DEF IInv
<1>3. ASSUME ~ Lost', NEW u \in Threads \ {t}, call'[u].pc # "idle" PROVE CallInv(u)'
  <2>1. /\ Active(u) /\ ~ Lost
    BY <1>3 DEF Active, At, Lost
  <2>2. /\ TypeOK /\ LagInv /\ CountedInv /\ CallInv(u) /\ u \in Threads
    BY <2>1 DEF IInv
  <2>3. build # "single"
    BY <2>1
  <2>4. /\ Major \in Int /\ Counted \in Int /\ Epoch(u) \in Int /\ call[u].stamp \in Int
        /\ call[u].stamp <= time /\ time \in Int
        /\ call[u].major \in Int /\ millis_major \in Int
    BY <2>1, <2>2, Where DEF TypeOK
  <2>5. Major' \in Int /\ Counted' \in Int /\ millis_major' \in Int
    <3>1. Major' \in Int /\ millis_major' \in Int /\ last_millis' \in Int
      BY <1>3, ConstFact DEF CountedInv, TypeOK
    <3>2. (Major * Range)' \in Int
      BY <3>1, ConstFact
    <3> QED BY <3>1, <3>2 DEF Counted
  <2>6. Counted' >= Counted \/ Counted' >= call[u].stamp - MaxLag
    <3>1. Counted' >= Counted \/ Counted' >= time - MaxLag
      BY <1>3
    <3> QED BY <2>4, <2>5, <3>1, ConstFact
  <2>7. /\ call[u].pc \in {"locked", "store"} => Major' = Major /\ millis_major' = millis_major
        /\ build = "no_atomics" =>
             /\ Epoch(u) >= millis_major'
             /\ At(u, "last") => call[u].major = millis_major' \/ Now(u) <= 2 * MaxLag
    BY <1>3, <2>1
  <2>8. call'[u] = call[u] /\ Major' >= Major /\ millis_major' >= millis_major
    BY <1>3
  <2> QED BY <2>2, <2>3, <2>4, <2>5, <2>6, <2>7, <2>8, OtherCall
<1>4. ~ Lost' => CountedInv' /\ \A u \in Threads : Active(u)' => CallInv(u)'
  BY <1>3 DEF Active, At
<1> QED BY <1>1, <1>2, <1>4 DEF IInv

(* A step that writes nothing the threads share.                           *)
LEMMA Local ==
  ASSUME IInv, NEW t \in Threads, TypeOK',
         UNCHANGED << build, time, last_millis, millis_major, overtaken >>,
         Pending' <=> Pending,
         \A u \in Threads \ {t} : call'[u] = call[u],
         call'[t].pc \in StepsOf[build],
         time - seen' <= MaxLag, ~ Lost => Counted >= seen' - MaxLag,
         call'[t].pc # "idle" => time - call'[t].stamp <= MaxLag,
         build = "single" => \A u \in Threads \ {t} : ~ Active(u),
         ~ Lost /\ call'[t].pc # "idle" => CallInv(t)'
  PROVE  IInv'
<1>1. Major' = Major /\ Counted' = Counted /\ (Lost' <=> Lost)
  BY DEF Major, Counted, Lost
<1>2. ASSUME ~ Lost
      PROVE  /\ CountedInv' /\ Major' >= Major /\ millis_major' >= millis_major
             /\ Counted' >= Counted
             /\ \A u \in Threads \ {t} : Active(u) /\ build = "no_atomics" =>
                     /\ Epoch(u) >= millis_major'
                     /\ At(u, "last") => call[u].major = millis_major' \/ Now(u) <= 2 * MaxLag
  <2>1. CountedInv /\ \A u \in Threads : Active(u) => CallInv(u)
    BY <1>2 DEF IInv
  <2>2. Major \in Int /\ millis_major \in Int /\ last_millis \in Int
    BY <2>1, ConstFact DEF IInv, CountedInv, TypeOK
  <2>3. Counted \in Int
    <3>1. Major * Range \in Int
      BY <2>2, ConstFact
    <3> QED BY <2>2, <3>1 DEF Counted
  <2>4. CountedInv'
    BY <1>1, <1>2, <2>1 DEF CountedInv
  <2> QED BY <1>1, <2>1, <2>2, <2>3, <2>4 DEF CallInv, NoAtomicsInv
<1> QED BY <1>1, <1>2, Combine

(* Without threads no other call is under way.                             *)
LEMMA Alone ==
  ASSUME IInv, NEW t \in Threads, Active(t), build = "single"
  PROVE  \A u \in Threads \ {t} : ~ Active(u)
  BY DEF IInv, Lost, CallInv, SingleInv
-----------------------------------------------------------------------------
(* The steps.                                                              *)
Calls == [pc : Pcs, stamp : 0 .. time, major : Nat, last : 0 .. Range - 1]

LEMMA MajorFact ==
  ASSUME TypeOK
  PROVE  /\ Major \in Int /\ Major <= millis_major /\ millis_major \in Nat
         /\ Pending => Major = millis_major - 1
         /\ ~ Pending => Major = millis_major
  BY DEF TypeOK, Major

(* A thread that has rolled over the low word is at the epoch it counts.   *)
LEMMA PendingFact ==
  ASSUME IInv, ~ Lost, Pending
  PROVE  /\ lock \in Threads /\ Active(lock) /\ At(lock, "store")
         /\ Epoch(lock) = millis_major
<1>1. /\ lock \in Threads /\ At(lock, "store") /\ Active(lock)
      /\ RolledOver(Now(lock), call[lock].last)
  BY DEF Pending, Active, At
<1>2. Epoch(lock) = Major + 1
  BY <1>1 DEF IInv, CallInv, At
<1> QED BY <1>1, <1>2, MajorFact DEF IInv

(* The types, after a step that moves t and no other thread.               *)
LEMMA Typed ==
  ASSUME TypeOK, NEW t \in Threads, NEW c \in Calls, call' = [call EXCEPT ![t] = c],
         UNCHANGED << build, time, lock >>,
         c.pc \in Locked <=> call[t].pc \in Locked,
         last_millis' \in 0 .. Range - 1, millis_major' \in Nat,
         seen' \in 0 .. time, overtaken' \in BOOLEAN
  PROVE  /\ TypeOK' /\ call'[t] = c
         /\ \A u \in Threads \ {t} : call'[u] = call[u]
<1>1. /\ call'[t] = c
      /\ \A u \in Threads \ {t} : call'[u] = call[u]
      /\ call' \in [Threads -> Calls]
  BY DEF TypeOK, Calls
<1>2. \A u \in Threads : lock' = u <=> call'[u].pc \in Locked
  BY <1>1 DEF TypeOK
<1>3. call' \in [Threads -> [pc : Pcs, stamp : 0 .. time', major : Nat, last : 0 .. Range - 1]]
  BY <1>1 DEF Calls
<1> QED BY <1>1, <1>2, <1>3 DEF TypeOK

(* A step that only changes what the call itself has noted.                *)
LEMMA Noted ==
  ASSUME IInv, NEW t \in Threads, NEW c \in Calls, call' = [call EXCEPT ![t] = c],
         UNCHANGED << build, time, last_millis, millis_major, lock, seen, overtaken >>,
         Active(t), c.stamp = call[t].stamp,
         c.pc \in Locked <=> call[t].pc \in Locked,
         call[t].pc # "store",
         c.pc = "store" => ~ RolledOver(Now(t), c.last),
         c.pc \in StepsOf[build], c.pc # "idle",
         ~ Lost /\ call'[t] = c /\ Major' = Major /\ Counted' = Counted
           /\ Epoch(t)' = Epoch(t) /\ Now(t)' = Now(t) => CallInv(t)'
  PROVE  IInv'
<1>0. TypeOK /\ LagInv
  BY DEF IInv
<1>1. /\ TypeOK' /\ call'[t] = c
      /\ \A u \in Threads \ {t} : call'[u] = call[u]
  BY <1>0, Typed DEF TypeOK
<1>2. Epoch(t)' = Epoch(t) /\ Now(t)' = Now(t)
  BY <1>1 DEF Epoch, Now
<1>3. Pending' <=> Pending
  <2>1. CASE lock = t
    BY <1>1, <1>2, <2>1 DEF Pending, At
  <2>2. CASE lock # t
    BY <1>1, <2>2 DEF Pending, At, Now
  <2> QED BY <2>1, <2>2
<1>4. Major' = Major /\ Counted' = Counted
  BY <1>3 DEF Major, Counted
<1>5. ~ Lost => CallInv(t)'
  BY <1>1, <1>2, <1>4
<1>6. /\ time - seen' <= MaxLag /\ time - call'[t].stamp <= MaxLag
      /\ ~ Lost => Counted >= seen' - MaxLag
  BY <1>0, <1>1 DEF IInv, LagInv, CountedInv
<1>7. build = "single" => \A u \in Threads \ {t} : ~ Active(u)
  BY Alone
<1> QED BY <1>1, <1>3, <1>5, <1>6, <1>7, Local

LEMMA LoadMajorStep ==
  ASSUME IInv, NEW t \in Threads, LoadMajor(t)
  PROVE  IInv'
<1>0. TypeOK
  BY DEF IInv
<1>1. PICK c : c = [call[t] EXCEPT !.pc = "last", !.major = millis_major]
  OBVIOUS
<1>2. /\ call[t] \in Calls /\ call[t].pc = "major" /\ build \in {"no_atomics", "atomics"}
      /\ millis_major \in Nat
  BY <1>0, BuildsAssumption DEF LoadMajor, At, TypeOK, Calls, AllBuilds
<1>3. /\ c \in Calls /\ c.pc = "last" /\ c.major = millis_major
      /\ c.stamp = call[t].stamp /\ c.last = call[t].last
  BY <1>1, <1>2 DEF Calls, Pcs
<1>4. call' = [call EXCEPT ![t] = c]
  BY <1>1 DEF LoadMajor
<1>5. c.pc \in StepsOf[build]
  BY <1>2, <1>3 DEF StepsOf, Pcs
<1>6. ASSUME ~ Lost, call'[t] = c, Major' = Major, Epoch(t)' = Epoch(t), Now(t)' = Now(t)
      PROVE  CallInv(t)'
  <2>1. CallInv(t)
    BY <1>2, <1>6 DEF IInv, Active, At
  <2>2. build = "no_atomics" => NoAtomicsInv(t)'
    BY <1>3, <1>6, <2>1 DEF CallInv, NoAtomicsInv, LoadMajor, At
  <2>3. AtomicsInv(t)'
    BY <1>3, <1>6 DEF AtomicsInv, Locked, At
  <2> QED BY <1>2, <1>3, <1>6, <2>2, <2>3 DEF CallInv, LoadMajor
<1> QED BY <1>2, <1>3, <1>4, <1>5, <1>6, Noted DEF LoadMajor, Locked, Active, At

LEMMA LoadLastStep ==
  ASSUME IInv, NEW t \in Threads, LoadLast(t)
  PROVE  IInv'
<1>0. TypeOK
  BY DEF IInv
<1>1. PICK near, pc :
        /\ near = (build = "no_atomics" /\ NearRollover(Now(t), last_millis))
        /\ pc = IF near \/ RolledOver(Now(t), last_millis) THEN "lock"
                ELSE IF build = "atomics" THEN "forward"
                ELSE IF Now(t) > last_millis THEN "forward_store" ELSE "return"
  OBVIOUS
<1>2. PICK c : c = [call[t] EXCEPT !.last = last_millis, !.pc = pc]
  OBVIOUS
<1>3. /\ call[t] \in Calls /\ call[t].pc = "last" /\ build \in {"no_atomics", "atomics"}
      /\ last_millis \in 0 .. Range - 1
  BY <1>0, BuildsAssumption DEF LoadLast, At, TypeOK, Calls, AllBuilds, IInv, StepsOf
<1>4. /\ c \in Calls /\ c.pc = pc /\ c.major = call[t].major
      /\ c.stamp = call[t].stamp /\ c.last = last_millis
      /\ pc \in {"lock", "forward", "forward_store", "return"}
  BY <1>1, <1>2, <1>3 DEF Calls, Pcs
<1>5. call' = [call EXCEPT ![t] = c]
  BY <1>1, <1>2 DEF LoadLast
<1>6. c.pc \in StepsOf[build]
  BY <1>1, <1>3, <1>4 DEF StepsOf, Pcs
<1>7. ASSUME ~ Lost, call'[t] = c, Major' = Major, Counted' = Counted,
             Epoch(t)' = Epoch(t), Now(t)' = Now(t)
      PROVE  CallInv(t)'
  <2>1. CallInv(t) /\ Active(t) /\ CountedInv
    BY <1>3, <1>7 DEF IInv, Active, At
  <2>2. /\ Major \in Nat /\ Counted \in Int /\ Epoch(t) \in Nat /\ call[t].stamp \in Nat
        /\ Now(t) \in 0 .. Range - 1
        /\ Epoch(t) = Major - 1 \/ Epoch(t) = Major \/ Epoch(t) = Major + 1
        /\ RolledOver(Now(t), last_millis) <=> Epoch(t) = Major + 1
        /\ Epoch(t) = Major + 1 => Now(t) <= 2 * MaxLag
        /\ Now(t) <= last_millis \/ Now(t) - last_millis >= HALF_MAX_UINT32 =>
             Epoch(t) = Major + 1 \/ Counted >= call[t].stamp
    BY <1>0, <2>1, Where DEF IInv
  <2>3. /\ millis_major' = millis_major /\ build' = build
    BY DEF LoadLast
  <2>4. pc # "lock" => Epoch(t) <= Major
    BY <1>1, <2>2
  <2>5. pc # "lock" /\ (Now(t) <= last_millis \/ Now(t) - last_millis >= HALF_MAX_UINT32) => Served(t)'
    BY <1>4, <1>7, <2>2, <2>4, ConstFact DEF Served
  <2>6. pc = "return" => Served(t)'
    <3>1. pc = "return" => ~ (Now(t) > last_millis)
      BY <1>1
    <3> QED BY <1>3, <2>2, <2>5, <3>1, ConstFact
  <2>7. build = "no_atomics" => NoAtomicsInv(t)'
    <3> SUFFICES ASSUME build = "no_atomics" PROVE NoAtomicsInv(t)'
      OBVIOUS
    <3>1. /\ Epoch(t) >= millis_major
          /\ call[t].major = millis_major \/ Now(t) <= 2 * MaxLag
      BY <1>3, <2>1 DEF CallInv, NoAtomicsInv, At
    <3>2. pc \in {"forward_store", "return"} /\ 2 * MaxLag < Window => call[t].major = Epoch(t)
      <4> SUFFICES ASSUME pc \in {"forward_store", "return"}, 2 * MaxLag < Window
                   PROVE  call[t].major = Epoch(t)
        OBVIOUS
      <4>1. ~ (Now(t) < Window)
        BY <1>1 DEF NearRollover
      <4>2. Window \in Int /\ MaxLag \in Nat
        BY ConstFact, RangeAssumption
      <4>3. call[t].major = millis_major
        BY <2>2, <3>1, <4>1, <4>2, ConstFact
      <4> QED BY <1>0, <2>2, <2>4, <3>1, <4>3, MajorFact
    <3> QED BY <1>4, <1>7, <2>3, <2>4, <3>1, <3>2 DEF NoAtomicsInv, At
  <2>8. build = "atomics" => AtomicsInv(t)'
    <3> SUFFICES ASSUME build = "atomics" PROVE AtomicsInv(t)'
      OBVIOUS
    <3>1. pc = "lock" => Now(t) <= 2 * MaxLag
      BY <1>1, <2>2
    <3>2. pc \in {"lock", "forward"}
      BY <1>1
    <3>3. MayForward(t)' <=> Now(t) > last_millis /\ Now(t) - last_millis < HALF_MAX_UINT32
      BY <1>4, <1>7 DEF MayForward
    <3>4. pc = "forward" /\ ~ MayForward(t)' => Served(t)'
      BY <1>3, <2>2, <2>5, <3>3, ConstFact
    <3> QED BY <1>4, <1>7, <2>4, <3>1, <3>2, <3>4 DEF AtomicsInv, At, Locked
  <2> QED BY <1>3, <1>4, <1>7, <2>3, <2>6, <2>7, <2>8 DEF CallInv
<1> QED BY <1>3, <1>4, <1>5, <1>6, <1>7, Noted DEF LoadLast, Locked, Active, At

LEMMA LockStep ==
  ASSUME IInv, NEW t \in Threads, Lock(t)
  PROVE  IInv'
<1>0. TypeOK /\ LagInv
  BY DEF IInv
<1>1. PICK c : c = [call[t] EXCEPT !.pc = "reread"]
  OBVIOUS
<1>2. /\ call[t] \in Calls /\ call[t].pc = "lock" /\ lock = None /\ lock' = t
      /\ build \in {"no_atomics", "atomics"}
      /\ UNCHANGED << build, time, last_millis, millis_major, seen, overtaken >>
  BY <1>0, BuildsAssumption DEF Lock, At, TypeOK, Calls, AllBuilds, IInv, StepsOf
<1>3. /\ c \in Calls /\ c.pc = "reread" /\ c.major = call[t].major
      /\ c.stamp = call[t].stamp /\ c.last = call[t].last
  BY <1>1, <1>2 DEF Calls, Pcs, Locked
<1>4. call' = [call EXCEPT ![t] = c]
  BY <1>1 DEF Lock, Goes
<1>5. /\ call'[t] = c
      /\ \A u \in Threads \ {t} : call'[u] = call[u]
      /\ call' \in [Threads -> Calls]
  BY <1>0, <1>3, <1>4 DEF TypeOK, Calls
<1>6. TypeOK'
  <2>1. \A u \in Threads : lock' = u <=> call'[u].pc \in Locked
    BY <1>0, <1>2, <1>3, <1>5, NoneAssumption DEF TypeOK, Locked
  <2>2. call' \in [Threads -> [pc : Pcs, stamp : 0 .. time', major : Nat, last : 0 .. Range - 1]]
    BY <1>2, <1>5 DEF Calls
  <2> QED BY <1>0, <1>2, <2>1, <2>2 DEF TypeOK
<1>7. ~ Pending /\ ~ Pending'
  BY <1>2, <1>3, <1>5, NoneAssumption DEF Pending, At
<1>8. c.pc \in StepsOf[build]
  BY <1>2, <1>3 DEF StepsOf, Pcs, Locked
<1>9. ASSUME ~ Lost PROVE CallInv(t)'
  <2>1. CallInv(t)
    BY <1>2, <1>9 DEF IInv, Active, At
  <2>2. Epoch(t)' = Epoch(t) /\ Now(t)' = Now(t)
    BY <1>3, <1>5 DEF Epoch, Now
  <2>3. build = "no_atomics" => NoAtomicsInv(t)'
    BY <1>2, <1>3, <1>5, <2>1, <2>2 DEF CallInv, NoAtomicsInv, At
  <2>4. build = "atomics" => AtomicsInv(t)'
    BY <1>2, <1>3, <1>5, <2>1, <2>2 DEF CallInv, AtomicsInv, At, Locked
  <2> QED BY <1>2, <1>3, <1>5, <2>3, <2>4 DEF CallInv
<1>10. /\ time - seen' <= MaxLag /\ time - call'[t].stamp <= MaxLag
       /\ ~ Lost => Counted >= seen' - MaxLag
  BY <1>0, <1>2, <1>3, <1>5 DEF IInv, LagInv, CountedInv, Active, At
<1> QED BY <1>2, <1>5, <1>6, <1>7, <1>8, <1>9, <1>10, Local

LEMMA RereadStep ==
  ASSUME IInv, NEW t \in Threads, Reread(t)
  PROVE  IInv'
<1>0. TypeOK
  BY DEF IInv
<1>1. PICK major : major = IF build = "no_atomics" THEN millis_major ELSE call[t].major
  OBVIOUS
<1>2. PICK c : c = [call[t] EXCEPT !.pc = "locked", !.last = last_millis, !.major = major]
  OBVIOUS
<1>3. /\ call[t] \in Calls /\ call[t].pc = "reread" /\ build \in {"no_atomics", "atomics"}
      /\ last_millis \in 0 .. Range - 1 /\ millis_major \in Nat
      /\ UNCHANGED << build, time, last_millis, millis_major, lock, seen, overtaken >>
  BY <1>0, BuildsAssumption DEF Reread, At, TypeOK, Calls, AllBuilds, IInv, StepsOf
<1>4. /\ c \in Calls /\ c.pc = "locked" /\ c.major = major
      /\ c.stamp = call[t].stamp /\ c.last = last_millis
  BY <1>1, <1>2, <1>3 DEF Calls, Pcs, Locked
<1>5. call' = [call EXCEPT ![t] = c]
  BY <1>1, <1>2 DEF Reread
<1>6. c.pc \in StepsOf[build]
  BY <1>3, <1>4 DEF StepsOf, Pcs, Locked
<1>7. ASSUME ~ Lost, call'[t] = c, Major' = Major, Epoch(t)' = Epoch(t), Now(t)' = Now(t)
      PROVE  CallInv(t)'
  <2>1. CallInv(t) /\ Active(t) /\ CountedInv
    BY <1>3, <1>7 DEF IInv, Active, At
  <2>2. /\ Major \in Nat /\ Epoch(t) \in Nat
        /\ Epoch(t) = Major - 1 \/ Epoch(t) = Major \/ Epoch(t) = Major + 1
        /\ RolledOver(Now(t), last_millis) <=> Epoch(t) = Major + 1
        /\ Epoch(t) = Major - 1 => Now(t) > 2 * MaxLag
        /\ Now(t) \in 0 .. Range - 1
    BY <1>0, <2>1, Where DEF IInv
  <2>3. build = "no_atomics" => Epoch(t) >= millis_major
    BY <2>1 DEF CallInv, NoAtomicsInv
  <2>4. build = "atomics" => Now(t) <= 2 * MaxLag
    BY <1>3, <2>1 DEF CallInv, AtomicsInv, Locked
  <2>5. Epoch(t) # Major - 1
    <3>1. CASE build = "no_atomics"
      BY <1>0, <2>2, <2>3, <3>1, MajorFact
    <3>2. CASE build = "atomics"
      BY <2>2, <2>4, <3>2, ConstFact
    <3> QED BY <1>3, <3>1, <3>2
  <2>6. Epoch(t) = IF RolledOver(Now(t), last_millis) THEN Major + 1 ELSE Major
    BY <2>2, <2>5
  <2>7. (build = "no_atomics" => NoAtomicsInv(t))'
    BY <1>1, <1>3, <1>4, <1>7, <2>3 DEF NoAtomicsInv, At
  <2>8. (build = "atomics" => AtomicsInv(t))'
    BY <1>3, <1>4, <1>7, <2>4 DEF AtomicsInv, At
  <2> QED BY <1>3, <1>4, <1>7, <2>6, <2>7, <2>8 DEF CallInv
<1> QED BY <1>3, <1>4, <1>5, <1>6, <1>7, Noted DEF Locked, Active, At

LEMMA CountNothingStep ==
  ASSUME IInv, NEW t \in Threads, CountNothing(t)
  PROVE  IInv'
<1>0. TypeOK
  BY DEF IInv
<1>1. PICK c : c = [call[t] EXCEPT !.pc = "store"]
  OBVIOUS
<1>2. /\ call[t] \in Calls /\ call[t].pc = "locked" /\ build \in {"no_atomics", "atomics"}
      /\ ~ RolledOver(Now(t), call[t].last)
      /\ UNCHANGED << build, time, last_millis, millis_major, lock, seen, overtaken >>
  BY <1>0, BuildsAssumption DEF CountNothing, At, TypeOK, Calls, AllBuilds, IInv, StepsOf
<1>3. /\ c \in Calls /\ c.pc = "store" /\ c.major = call[t].major
      /\ c.stamp = call[t].stamp /\ c.last = call[t].last
  BY <1>1, <1>2 DEF Calls, Pcs, Locked
<1>4. call' = [call EXCEPT ![t] = c]
  BY <1>1 DEF CountNothing, Goes
<1>5. c.pc \in StepsOf[build]
  BY <1>2, <1>3 DEF StepsOf, Pcs, Locked
<1>6. ASSUME ~ Lost, call'[t] = c, Major' = Major, Epoch(t)' = Epoch(t), Now(t)' = Now(t)
      PROVE  CallInv(t)'
  <2>1. CallInv(t)
    BY <1>2, <1>6 DEF IInv, Active, At
  <2>2. (build = "no_atomics" => NoAtomicsInv(t))'
    BY <1>2, <1>3, <1>6, <2>1 DEF CallInv, NoAtomicsInv, At
  <2>3. (build = "atomics" => AtomicsInv(t))'
    BY <1>2, <1>3, <1>6, <2>1 DEF CallInv, AtomicsInv, At, Locked
  <2>4. Epoch(t)' = IF RolledOver(Now(t)', call'[t].last) THEN Major' + 1 ELSE Major'
    BY <1>2, <1>3, <1>6, <2>1 DEF CallInv
  <2> QED BY <1>2, <1>3, <1>6, <2>2, <2>3, <2>4 DEF CallInv
<1> QED BY <1>2, <1>3, <1>4, <1>5, <1>6, Noted DEF Locked, Active, At

LEMMA NoForwardStep ==
  ASSUME IInv, NEW t \in Threads, NoForward(t)
  PROVE  IInv'
<1>0. TypeOK
  BY DEF IInv
<1>1. PICK c : c = [call[t] EXCEPT !.pc = "check"]
  OBVIOUS
<1>2. /\ call[t] \in Calls /\ call[t].pc = "forward" /\ build = "atomics"
      /\ ~ MayForward(t)
      /\ UNCHANGED << build, time, last_millis, millis_major, lock, seen, overtaken >>
  BY <1>0, BuildsAssumption DEF NoForward, At, TypeOK, Calls, AllBuilds, IInv, StepsOf
<1>3. /\ c \in Calls /\ c.pc = "check" /\ c.major = call[t].major
      /\ c.stamp = call[t].stamp /\ c.last = call[t].last
  BY <1>1, <1>2 DEF Calls, Pcs
<1>4. call' = [call EXCEPT ![t] = c]
  BY <1>1 DEF NoForward, Goes
<1>5. c.pc \in StepsOf[build]
  BY <1>2, <1>3 DEF StepsOf, Pcs
<1>6. ASSUME ~ Lost, call'[t] = c, Major' = Major, Counted' = Counted, Epoch(t)' = Epoch(t)
      PROVE  CallInv(t)'
  <2>1. Served(t)
    BY <1>2, <1>6 DEF IInv, Active, At, CallInv, AtomicsInv
  <2>2. Served(t)'
    BY <1>3, <1>6, <2>1 DEF Served
  <2> QED BY <1>2, <1>3, <1>6, <2>2 DEF CallInv, AtomicsInv, Locked, At
<1> QED BY <1>2, <1>3, <1>4, <1>5, <1>6, Noted DEF Locked, Active, At

(* Two calls under way are at most one rollover apart.                     *)
LEMMA EpochsAreClose ==
  ASSUME TypeOK, LagInv, NEW t \in Threads, NEW u \in Threads, Active(t), Active(u)
  PROVE  Epoch(u) <= Epoch(t) + 1
<1>0. PICK p, q : p = Epoch(u) /\ q = Epoch(t)
  OBVIOUS
<1>1. /\ call[t].stamp \in Nat /\ call[u].stamp \in Nat /\ time \in Nat
      /\ call[u].stamp <= time /\ time - call[t].stamp <= MaxLag
  BY DEF TypeOK, LagInv
<1>2. /\ p \in Nat /\ Now(u) \in 0 .. Range - 1 /\ Now(u) = call[u].stamp - p * Range
      /\ q \in Nat /\ Now(t) \in 0 .. Range - 1 /\ Now(t) = call[t].stamp - q * Range
  BY <1>0, <1>1, DivFact DEF Epoch, Now
<1>3. PICK a \in Int, b \in Int : a = p * Range /\ b = q * Range
  BY <1>2, ConstFact
<1>4. (q + 1) * Range = b + Range
  BY <1>2, <1>3, ConstFact
<1>5. a <= b + Range + Now(t)
  BY <1>1, <1>2, <1>3, ConstFact
<1>6. p * Range <= (q + 1) * Range + Now(t)
  BY <1>3, <1>4, <1>5
<1>7. p <= q + 1
  BY <1>2, <1>6, EpochFact
<1> QED BY <1>0, <1>7

LEMMA CheckStep ==
  ASSUME IInv, NEW t \in Threads, Check(t)
  PROVE  IInv'
<1>0. TypeOK
  BY DEF IInv
<1>1. PICK pc : pc = IF millis_major = call[t].major THEN "return" ELSE "major"
  OBVIOUS
<1>2. PICK c : c = [call[t] EXCEPT !.pc = pc]
  OBVIOUS
<1>3. /\ call[t] \in Calls /\ call[t].pc = "check" /\ build = "atomics"
      /\ UNCHANGED << build, time, last_millis, millis_major, lock, seen, overtaken >>
  BY <1>0, BuildsAssumption DEF Check, At, TypeOK, Calls, AllBuilds, IInv, StepsOf
<1>4. /\ c \in Calls /\ c.pc = pc /\ pc \in {"return", "major"} /\ c.major = call[t].major
      /\ c.stamp = call[t].stamp /\ c.last = call[t].last
  BY <1>1, <1>2, <1>3 DEF Calls, Pcs
<1>5. call' = [call EXCEPT ![t] = c]
  BY <1>1, <1>2 DEF Check, Goes
<1>6. c.pc \in StepsOf[build]
  BY <1>3, <1>4 DEF StepsOf, Pcs
<1>7. ASSUME ~ Lost, call'[t] = c, Major' = Major, Counted' = Counted, Epoch(t)' = Epoch(t)
      PROVE  CallInv(t)'
  <2>1. Served(t) /\ Active(t) /\ CountedInv
    BY <1>3, <1>7 DEF IInv, Active, At, CallInv
  <2>2. Served(t)'
    BY <1>4, <1>7, <2>1 DEF Served
  <2>3. /\ Major \in Nat /\ Epoch(t) \in Nat /\ Epoch(t) <= Major
        /\ Epoch(t) = Major - 1 \/ Epoch(t) = Major \/ Epoch(t) = Major + 1
    BY <1>0, <2>1, Where DEF IInv, Served
  <2>4. millis_major = Epoch(t) \/ millis_major = Epoch(t) + 1
    <3>1. CASE ~ Pending
      BY <1>0, <2>3, <3>1, MajorFact
    <3>2. CASE Pending
      <4>1. Epoch(lock) = millis_major /\ Epoch(lock) <= Epoch(t) + 1
        BY <1>0, <1>7, <2>1, <3>2, PendingFact, EpochsAreClose DEF IInv
      <4> QED BY <1>0, <2>3, <3>2, <4>1, MajorFact
    <3> QED BY <3>1, <3>2
  <2>5. pc = "return" => /\ c.major \in {Epoch(t), Epoch(t) + 1}
                         /\ c.major <= millis_major
    BY <1>0, <1>1, <1>4, <2>4, MajorFact
  <2>6. AtomicsInv(t)'
    BY <1>3, <1>4, <1>7, <2>5 DEF AtomicsInv, Locked, At
  <2> QED BY <1>3, <1>4, <1>7, <2>2, <2>6 DEF CallInv
<1> QED BY <1>3, <1>4, <1>5, <1>6, <1>7, Noted DEF Locked, Active, At

(* A rollover is counted before the timestamp that shows it is stored.     *)
LEMMA CountRolloverStep ==
  ASSUME IInv, NEW t \in Threads, CountRollover(t)
  PROVE  IInv'
<1>0. TypeOK /\ LagInv
  BY DEF IInv
<1>1. PICK major : major = call[t].major + 1
  OBVIOUS
<1>2. PICK c : c = [call[t] EXCEPT !.pc = "store", !.major = major]
  OBVIOUS
<1>3. /\ call[t] \in Calls /\ call[t].pc = "locked" /\ build \in {"no_atomics", "atomics"}
      /\ RolledOver(Now(t), call[t].last) /\ lock = t /\ Active(t)
      /\ UNCHANGED << build, time, last_millis, lock, seen >>
      /\ millis_major' = 1 + (IF build = "atomics" THEN millis_major ELSE call[t].major)
      /\ overtaken' = (overtaken \/ Overtakes(t))
      /\ overtaken \in BOOLEAN /\ millis_major \in Nat
  <2>1. /\ call[t].pc = "locked" /\ RolledOver(Now(t), call[t].last) /\ Active(t)
        /\ UNCHANGED << build, time, last_millis, lock, seen >>
        /\ millis_major' = 1 + (IF build = "atomics" THEN millis_major ELSE call[t].major)
        /\ overtaken' = (overtaken \/ Overtakes(t))
    BY DEF CountRollover, At, Active
  <2>2. lock = t
    BY <1>0, <2>1, LockFact DEF Locked
  <2>3. build \in {"no_atomics", "atomics"}
    BY <1>0, <2>1, BuildsAssumption DEF TypeOK, AllBuilds, IInv, StepsOf
  <2>4. call[t] \in Calls /\ overtaken \in BOOLEAN /\ millis_major \in Nat
    BY <1>0 DEF TypeOK, Calls
  <2> QED BY <2>1, <2>2, <2>3, <2>4
<1>4. /\ c \in Calls /\ c.pc = "store" /\ c.major = major
      /\ c.stamp = call[t].stamp /\ c.last = call[t].last
  <2>1. call[t] \in Calls
    BY <1>3
  <2>2. major \in Nat
    BY <1>1, <2>1 DEF Calls
  <2> QED BY <1>2, <2>1, <2>2 DEF Calls, Pcs, Locked
<1>5. call' = [call EXCEPT ![t] = c]
  BY <1>1, <1>2 DEF CountRollover
<1>6. c.pc \in StepsOf[build]
  BY <1>3, <1>4 DEF StepsOf, Pcs, Locked
<1>7. /\ TypeOK' /\ call'[t] = c
      /\ \A u \in Threads \ {t} : call'[u] = call[u]
  <2>1. c.pc \in Locked <=> call[t].pc \in Locked
    BY <1>3, <1>4 DEF Locked
  <2>2. millis_major' \in Nat
    BY <1>3 DEF Calls
  <2>3. /\ last_millis' \in 0 .. Range - 1 /\ seen' \in 0 .. time
        /\ overtaken' \in BOOLEAN
    BY <1>0, <1>3 DEF TypeOK
  <2> QED BY <1>0, <1>3, <1>4, <1>5, <2>1, <2>2, <2>3, Typed
<1>8. ~ Pending /\ Pending' /\ Epoch(t)' = Epoch(t) /\ Now(t)' = Now(t)
  <2>1. Epoch(t)' = Epoch(t) /\ Now(t)' = Now(t)
    BY <1>4, <1>7 DEF Epoch, Now
  <2> QED BY <1>3, <1>4, <1>7, <2>1 DEF Pending, At
<1>9. ASSUME ~ Lost'
      PROVE  /\ CountedInv' /\ Major' >= Major /\ millis_major' >= millis_major
             /\ Counted' >= Counted
             /\ \A u \in Threads \ {t} :
                  /\ ~ (call[u].pc \in {"locked", "store"})
                  /\ Active(u) /\ build = "no_atomics" =>
                       /\ Epoch(u) >= millis_major'
                       /\ At(u, "last") => call[u].major = millis_major' \/ Now(u) <= 2 * MaxLag
             /\ CallInv(t)'
  <2>1. CallInv(t) /\ CountedInv /\ ~ Lost /\ \A u \in Threads : Active(u) => CallInv(u)
    BY <1>3, <1>9 DEF IInv, Lost
  <2>2. build = "no_atomics" => call[t].major = millis_major
    BY <1>3, <2>1 DEF CallInv, NoAtomicsInv
  <2>3. millis_major' = millis_major + 1
    BY <1>3, <2>2
  <2>4. Major = millis_major /\ Major' = millis_major
    BY <1>0, <1>3, <1>7, <1>8, <2>3, MajorFact DEF Major
  <2>5. Counted' = Counted /\ Counted \in Int
    <3>1. Major * Range \in Int /\ last_millis \in Int
      BY <1>0, <1>3, <2>4, ConstFact DEF TypeOK
    <3> QED BY <1>3, <2>4, <3>1 DEF Counted
  <2>6. CountedInv'
    BY <1>3, <2>1, <2>4, <2>5 DEF CountedInv
  <2>7. Epoch(t) = millis_major + 1
    BY <1>3, <2>1, <2>4 DEF CallInv
  <2>8. ASSUME NEW u \in Threads \ {t} PROVE ~ (call[u].pc \in {"locked", "store"})
    BY <1>0, <1>3, LockFact DEF Locked
  <2>9. ASSUME NEW u \in Threads \ {t}, Active(u), build = "no_atomics"
        PROVE  /\ Epoch(u) >= millis_major'
               /\ At(u, "last") => call[u].major = millis_major' \/ Now(u) <= 2 * MaxLag
    <3>1. ~ Overtakes(t)
      BY <1>3, <1>9, <2>9 DEF Lost
    <3>2. /\ Epoch(u) \in Nat /\ Epoch(u) \in {Major - 1, Major, Major + 1}
          /\ Epoch(u) = Major + 1 => Now(u) <= 2 * MaxLag
      BY <1>0, <2>1, <2>9, Where
    <3>3. ~ (Epoch(u) < Epoch(t))
      BY <2>9, <3>1 DEF Overtakes, Epoch, Active
    <3>4. Epoch(u) = millis_major + 1
      BY <1>3, <2>4, <2>7, <3>2, <3>3
    <3> QED BY <1>3, <2>3, <2>4, <3>2, <3>4
  <2>10. CallInv(t)'
    <3>1. (build = "no_atomics" => NoAtomicsInv(t))'
      BY <1>1, <1>3, <1>4, <1>7, <1>8, <2>2, <2>3, <2>7 DEF NoAtomicsInv, At
    <3>2. (build = "atomics" => AtomicsInv(t))'
      BY <1>3, <1>4, <1>7, <1>8, <2>1 DEF CallInv, AtomicsInv, At, Locked
    <3>3. Epoch(t)' = IF RolledOver(Now(t)', call'[t].last) THEN Major' + 1 ELSE Major'
      BY <1>3, <1>4, <1>7, <1>8, <2>4, <2>7
    <3> QED BY <1>3, <1>4, <1>7, <3>1, <3>2, <3>3 DEF CallInv
  <2> QED BY <1>3, <2>3, <2>4, <2>5, <2>6, <2>8, <2>9, <2>10
<1>10. time - seen' <= MaxLag /\ time - call'[t].stamp <= MaxLag
  BY <1>0, <1>3, <1>4, <1>7 DEF LagInv
<1>11. overtaken => overtaken'
  BY <1>3
<1>12. build # "single" /\ call'[t].pc \in StepsOf[build]
  BY <1>3, <1>6, <1>7
<1> QED BY <1>3, <1>7, <1>9, <1>10, <1>11, <1>12, Combine

(* ... and then stored: the two words agree again.                         *)
LEMMA StoreStep ==
  ASSUME IInv, NEW t \in Threads, Store(t)
  PROVE  IInv'
<1>0. TypeOK /\ LagInv
  BY DEF IInv
<1>1. PICK pc : pc = IF build = "atomics" THEN "check" ELSE "return"
  OBVIOUS
<1>2. PICK c : c = [call[t] EXCEPT !.pc = pc]
  OBVIOUS
<1>3. /\ call[t] \in Calls /\ call[t].pc = "store" /\ build \in {"no_atomics", "atomics"}
      /\ lock = t /\ lock' = None /\ Active(t) /\ last_millis' = Now(t)
      /\ UNCHANGED << build, time, millis_major, seen, overtaken >>
      /\ call[t].stamp \in Nat
  BY <1>0, BuildsAssumption DEF Store, At, TypeOK, Calls, AllBuilds, IInv, StepsOf, Locked, Active
<1>4. /\ c \in Calls /\ c.pc = pc /\ pc \in {"check", "return"} /\ c.major = call[t].major
      /\ c.stamp = call[t].stamp /\ c.last = call[t].last
  BY <1>1, <1>2, <1>3 DEF Calls, Pcs
<1>5. call' = [call EXCEPT ![t] = c]
  BY <1>1, <1>2 DEF Store, Goes
<1>6. /\ call'[t] = c
      /\ \A u \in Threads \ {t} : call'[u] = call[u]
      /\ call' \in [Threads -> Calls]
      /\ Epoch(t)' = Epoch(t) /\ Now(t)' = Now(t)
  BY <1>0, <1>4, <1>5 DEF TypeOK, Calls, Epoch, Now
<1>7. Now(t) \in 0 .. Range - 1 /\ Epoch(t) \in Nat /\ Now(t) = call[t].stamp - Epoch(t) * Range
  BY <1>3, DivFact DEF Now, Epoch
<1>8. TypeOK'
  <2>1. \A u \in Threads : lock' = u <=> call'[u].pc \in Locked
    BY <1>0, <1>3, <1>4, <1>6, NoneAssumption DEF TypeOK, Locked
  <2>2. call' \in [Threads -> [pc : Pcs, stamp : 0 .. time', major : Nat, last : 0 .. Range - 1]]
    BY <1>3, <1>6 DEF Calls
  <2> QED BY <1>0, <1>3, <1>7, <2>1, <2>2 DEF TypeOK
<1>9. ASSUME ~ Lost'
      PROVE  /\ CountedInv' /\ Major' >= Major /\ millis_major' >= millis_major
             /\ Counted' >= time - MaxLag
             /\ \A u \in Threads \ {t} :
                  /\ ~ (call[u].pc \in {"locked", "store"})
                  /\ Active(u) /\ build = "no_atomics" =>
                       /\ Epoch(u) >= millis_major'
                       /\ At(u, "last") => call[u].major = millis_major' \/ Now(u) <= 2 * MaxLag
             /\ CallInv(t)'
  <2>1. CallInv(t) /\ CountedInv /\ ~ Lost /\ \A u \in Threads : Active(u) => CallInv(u)
    BY <1>3, <1>9 DEF IInv, Lost
  <2>2. Major' = millis_major /\ Major' = Epoch(t) /\ Major' >= Major
    <3>1. Epoch(t) = IF RolledOver(Now(t), call[t].last) THEN Major + 1 ELSE Major
      BY <1>3, <2>1 DEF CallInv
    <3>2. ~ Pending'
      BY <1>3, NoneAssumption DEF Pending
    <3>3. Pending <=> RolledOver(Now(t), call[t].last)
      BY <1>3 DEF Pending, At
    <3>4. Major' = millis_major
      BY <1>3, <3>2 DEF Major
    <3>5. CASE Pending
      BY <1>0, <3>1, <3>3, <3>4, <3>5, MajorFact
    <3>6. CASE ~ Pending
      BY <1>0, <3>1, <3>3, <3>4, <3>6, MajorFact
    <3> QED BY <3>5, <3>6
  <2>3. Counted' = call[t].stamp
    <3>1. PICK a \in Int : a = Epoch(t) * Range
      BY <1>7, ConstFact
    <3>2. Counted' = Now(t) + a
      BY <1>3, <2>2, <3>1, ConstFact DEF Counted
    <3> QED BY <1>3, <1>7, <3>1, <3>2
  <2>4. /\ call[t].stamp <= time /\ time - call[t].stamp <= MaxLag
        /\ time \in Nat /\ seen <= time /\ seen \in Nat
    BY <1>0, <1>3 DEF TypeOK, LagInv
  <2>5. CountedInv' /\ Counted' >= time - MaxLag
    BY <1>3, <1>7, <2>2, <2>3, <2>4, ConstFact DEF CountedInv
  <2>6. ASSUME NEW u \in Threads \ {t} PROVE ~ (call[u].pc \in {"locked", "store"})
    BY <1>0, <1>3, LockFact DEF Locked
  <2>7. Served(t)'
    BY <1>3, <1>4, <1>6, <1>7, <2>2, <2>3, ConstFact DEF Served
  <2>8. CallInv(t)'
    <3>1. ASSUME build = "no_atomics" PROVE NoAtomicsInv(t)'
      <4>1. call[t].major = millis_major /\ pc = "return"
        BY <1>1, <1>3, <2>1, <3>1 DEF CallInv, NoAtomicsInv
      <4>2. Epoch(t)' = millis_major /\ millis_major' = millis_major
        BY <1>3, <1>6, <2>2
      <4>3. call'[t].major = millis_major /\ call'[t].pc = "return"
        BY <1>4, <1>6, <4>1
      <4>4. millis_major \in Nat
        BY <1>0 DEF TypeOK
      <4> QED BY <4>2, <4>3, <4>4 DEF NoAtomicsInv, At
    <3>2. ASSUME build = "atomics" PROVE AtomicsInv(t)'
      BY <1>1, <1>4, <1>6, <3>2 DEF AtomicsInv, At, Locked
    <3> QED BY <1>3, <1>4, <1>6, <2>7, <3>1, <3>2 DEF CallInv
  <2>9. \A u \in Threads \ {t} : Active(u) /\ build = "no_atomics" =>
           /\ Epoch(u) >= millis_major'
           /\ At(u, "last") => call[u].major = millis_major' \/ Now(u) <= 2 * MaxLag
    BY <1>3, <2>1 DEF CallInv, NoAtomicsInv
  <2>10. millis_major' >= millis_major
    BY <1>0, <1>3 DEF TypeOK
  <2> QED BY <2>2, <2>5, <2>6, <2>8, <2>9, <2>10
<1>10. time - seen' <= MaxLag /\ time - call'[t].stamp <= MaxLag
  BY <1>0, <1>3, <1>4, <1>6 DEF LagInv
<1>11. call'[t].pc \in StepsOf[build]
  BY <1>1, <1>3, <1>4, <1>6 DEF StepsOf, Pcs
<1>12. overtaken => overtaken'
  BY <1>3
<1> QED BY <1>3, <1>6, <1>8, <1>9, <1>10, <1>11, <1>12, Combine

(* A step of t that leaves the lock alone has not to do with Pending.      *)
LEMMA NotPending ==
  ASSUME TypeOK, NEW t \in Threads, ~ (call[t].pc \in Locked), lock' = lock,
         \A u \in Threads \ {t} : call'[u] = call[u]
  PROVE  Pending' <=> Pending
<1>1. lock # t
  BY LockFact
<1> QED BY <1>1 DEF Pending, At, Now

(* The time of a timestamp that is stored with the high word of its epoch. *)
LEMMA StoredFact ==
  ASSUME TypeOK, NEW t \in Threads, last_millis' = Now(t), Major' = Epoch(t)
  PROVE  Counted' = call[t].stamp
<1>1. call[t].stamp \in Nat
  BY DEF TypeOK
<1>2. Now(t) \in Int /\ Epoch(t) \in Nat /\ Now(t) = call[t].stamp - Epoch(t) * Range
  BY <1>1, DivFact DEF Now, Epoch
<1>3. PICK a \in Int : a = Epoch(t) * Range
  BY <1>2, ConstFact
<1>4. Counted' = Now(t) + a
  BY <1>3, ConstFact DEF Counted
<1> QED BY <1>1, <1>2, <1>3, <1>4

(* What is stored with or without a lock is the newest time there is.      *)
LEMMA StoredInv ==
  ASSUME TypeOK, LagInv, NEW t \in Threads, Active(t), last_millis' = Now(t),
         Major' = Epoch(t), UNCHANGED << time, seen >>
  PROVE  CountedInv' /\ Counted' >= time - MaxLag /\ Counted' = call[t].stamp
<1>1. Counted' = call[t].stamp
  BY StoredFact
<1>2. /\ call[t].stamp <= time /\ time - call[t].stamp <= MaxLag
      /\ call[t].stamp \in Nat /\ time \in Nat /\ seen <= time /\ seen \in Nat
  BY DEF TypeOK, LagInv
<1>3. Major' \in Nat
  BY <1>2, DivFact DEF Epoch
<1> QED BY <1>1, <1>2, <1>3, ConstFact DEF CountedInv

LEMMA ForwardStoreStep ==
  ASSUME IInv, NEW t \in Threads, ForwardStore(t)
  PROVE  IInv'
<1>0. TypeOK /\ LagInv
  BY DEF IInv
<1>1. PICK c : c = [call[t] EXCEPT !.pc = "return"]
  OBVIOUS
<1>2. /\ call[t].pc = "forward_store" /\ Active(t) /\ last_millis' = Now(t)
      /\ UNCHANGED << build, time, millis_major, lock, seen, overtaken >>
  BY DEF ForwardStore, At, Active
<1>3. /\ call[t] \in Calls /\ call[t].stamp \in Nat /\ build = "no_atomics"
      /\ millis_major \in Nat
  BY <1>0, <1>2, BuildsAssumption DEF TypeOK, Calls, AllBuilds, IInv, StepsOf, Locked
<1>4. /\ c \in Calls /\ c.pc = "return" /\ c.major = call[t].major
      /\ c.stamp = call[t].stamp /\ c.last = call[t].last
  BY <1>1, <1>3 DEF Calls, Pcs
<1>5. call' = [call EXCEPT ![t] = c]
  BY <1>1 DEF ForwardStore, Goes
<1>6. Now(t) \in 0 .. Range - 1 /\ Epoch(t) \in Nat
  BY <1>3, DivFact DEF Now, Epoch
<1>7. /\ TypeOK' /\ call'[t] = c
      /\ \A u \in Threads \ {t} : call'[u] = call[u]
  <2>1. c.pc \in Locked <=> call[t].pc \in Locked
    BY <1>2, <1>4 DEF Locked
  <2>2. /\ last_millis' \in 0 .. Range - 1 /\ seen' \in 0 .. time
        /\ overtaken' \in BOOLEAN /\ millis_major' \in Nat
    BY <1>0, <1>2, <1>6 DEF TypeOK
  <2> QED BY <1>0, <1>2, <1>4, <1>5, <2>1, <2>2, Typed
<1>8. Epoch(t)' = Epoch(t) /\ Now(t)' = Now(t)
  BY <1>4, <1>7 DEF Epoch, Now
<1>9. ASSUME ~ Lost'
      PROVE  /\ CountedInv' /\ Major' >= Major /\ millis_major' >= millis_major
             /\ Counted' >= time - MaxLag /\ Major' = Major /\ millis_major' = millis_major
             /\ \A u \in Threads \ {t} :
                  Active(u) /\ build = "no_atomics" =>
                       /\ Epoch(u) >= millis_major'
                       /\ At(u, "last") => call[u].major = millis_major' \/ Now(u) <= 2 * MaxLag
             /\ CallInv(t)'
  <2>1. CallInv(t) /\ CountedInv /\ \A u \in Threads : Active(u) => CallInv(u)
    BY <1>2, <1>9 DEF IInv, Lost
  <2>2. /\ Epoch(t) >= millis_major /\ Epoch(t) <= Major
        /\ 2 * MaxLag < Window => call[t].major = Epoch(t)
    BY <1>2, <1>3, <2>1 DEF CallInv, NoAtomicsInv, At
  <2>3. Major = Epoch(t) /\ millis_major = Epoch(t) /\ ~ Pending
    BY <1>0, <1>6, <2>2, MajorFact
  <2>4. ~ Pending'
    <3>1. ~ (call[t].pc \in Locked)
      BY <1>2 DEF Locked
    <3> QED BY <1>0, <1>2, <1>7, <2>3, <3>1, NotPending
  <2>5. Major' = Epoch(t)
    BY <1>2, <2>3, <2>4 DEF Major
  <2>6. CountedInv' /\ Counted' >= time - MaxLag /\ Counted' = call[t].stamp
    BY <1>0, <1>2, <2>5, StoredInv
  <2>7. CallInv(t)'
    <3>1. Served(t)'
      BY <1>3, <1>4, <1>6, <1>7, <1>8, <2>5, <2>6, ConstFact DEF Served
    <3>2. NoAtomicsInv(t)'
      <4>1. /\ Epoch(t)' = millis_major' /\ millis_major' \in Nat
            /\ 2 * MaxLag < Window => call'[t].major = Epoch(t)'
            /\ call'[t].pc = "return"
        BY <1>2, <1>3, <1>4, <1>7, <1>8, <2>2, <2>3
      <4> QED BY <4>1 DEF NoAtomicsInv, At
    <3> QED BY <1>2, <1>3, <1>4, <1>7, <3>1, <3>2 DEF CallInv
  <2>8. \A u \in Threads \ {t} : Active(u) /\ build = "no_atomics" =>
           /\ Epoch(u) >= millis_major'
           /\ At(u, "last") => call[u].major = millis_major' \/ Now(u) <= 2 * MaxLag
    BY <1>2, <2>1 DEF CallInv, NoAtomicsInv
  <2>9. Major' = Major /\ Major' >= Major /\ millis_major' = millis_major
        /\ millis_major' >= millis_major
    BY <1>2, <1>3, <2>3, <2>5
  <2> QED BY <2>6, <2>7, <2>8, <2>9
<1>10. time - seen' <= MaxLag /\ time - call'[t].stamp <= MaxLag
  BY <1>0, <1>2, <1>4, <1>7 DEF LagInv
<1>11. call'[t].pc \in StepsOf[build]
  BY <1>3, <1>4, <1>7 DEF StepsOf, Pcs
<1>12. overtaken => overtaken'
  BY <1>2
<1> QED BY <1>2, <1>3, <1>7, <1>9, <1>10, <1>11, <1>12, Combine

LEMMA ExchangeStep ==
  ASSUME IInv, NEW t \in Threads, Exchange(t)
  PROVE  IInv'
<1>0. TypeOK /\ LagInv
  BY DEF IInv
<1>2. /\ call[t].pc = "forward" /\ Active(t) /\ MayForward(t)
      /\ UNCHANGED << build, time, millis_major, lock, seen, overtaken >>
  BY DEF Exchange, At, Active
<1>3. /\ call[t] \in Calls /\ call[t].stamp \in Nat /\ build = "atomics"
      /\ millis_major \in Nat /\ last_millis \in 0 .. Range - 1
  BY <1>0, <1>2, BuildsAssumption DEF TypeOK, Calls, AllBuilds, IInv, StepsOf, Locked
<1>4. Now(t) \in 0 .. Range - 1 /\ Epoch(t) \in Nat
  BY <1>3, DivFact DEF Now, Epoch
<1>5. CASE last_millis = call[t].last
  <2>1. PICK c : c = [call[t] EXCEPT !.pc = "check"]
    OBVIOUS
  <2>2. /\ c \in Calls /\ c.pc = "check" /\ c.major = call[t].major
        /\ c.stamp = call[t].stamp /\ c.last = call[t].last
    BY <1>3, <2>1 DEF Calls, Pcs
  <2>3. call' = [call EXCEPT ![t] = c] /\ last_millis' = Now(t)
    BY <1>5, <2>1 DEF Exchange, Goes
  <2>4. /\ TypeOK' /\ call'[t] = c
        /\ \A u \in Threads \ {t} : call'[u] = call[u]
    <3>1. c.pc \in Locked <=> call[t].pc \in Locked
      BY <1>2, <2>2 DEF Locked
    <3>2. /\ last_millis' \in 0 .. Range - 1 /\ seen' \in 0 .. time
          /\ overtaken' \in BOOLEAN /\ millis_major' \in Nat
      BY <1>0, <1>2, <1>4, <2>3 DEF TypeOK
    <3> QED BY <1>0, <1>2, <2>2, <2>3, <3>1, <3>2, Typed
  <2>5. Epoch(t)' = Epoch(t) /\ Now(t)' = Now(t)
    BY <2>2, <2>4 DEF Epoch, Now
  <2>6. Pending' <=> Pending
    <3>1. ~ (call[t].pc \in Locked)
      BY <1>2 DEF Locked
    <3> QED BY <1>0, <1>2, <2>4, <3>1, NotPending
  <2>7. Major' = Major /\ millis_major' = millis_major
    BY <1>2, <2>6 DEF Major
  <2>8. CountedInv /\ Major = Epoch(t)
    <3>1. CountedInv
      BY <1>3 DEF IInv, Lost
    <3>2. Now(t) > last_millis /\ Now(t) - last_millis < HALF_MAX_UINT32
      BY <1>2, <1>5 DEF MayForward
    <3> QED BY <1>0, <1>2, <3>1, <3>2, Where
  <2>9. CountedInv' /\ Counted' >= time - MaxLag /\ Counted' = call[t].stamp
    BY <1>0, <1>2, <2>3, <2>7, <2>8, StoredInv
  <2>10. CallInv(t)'
    <3>1. Served(t)'
      BY <1>3, <1>4, <2>2, <2>4, <2>5, <2>7, <2>8, <2>9, ConstFact DEF Served
    <3>2. AtomicsInv(t)'
      BY <2>2, <2>4 DEF AtomicsInv, At, Locked
    <3> QED BY <1>2, <1>3, <2>2, <2>4, <3>1, <3>2 DEF CallInv
  <2>11. Major' >= Major /\ millis_major' >= millis_major
    BY <1>3, <1>4, <2>7, <2>8
  <2>12. time - seen' <= MaxLag /\ time - call'[t].stamp <= MaxLag
    BY <1>0, <1>2, <2>2, <2>4 DEF LagInv
  <2>13. call'[t].pc \in StepsOf[build]
    BY <1>3, <2>2, <2>4 DEF StepsOf, Pcs
  <2>14. overtaken => overtaken'
    BY <1>2
  <2>15. build # "single" /\ build # "no_atomics"
    BY <1>3
  <2> QED BY <1>2, <2>4, <2>7, <2>9, <2>10, <2>11, <2>12, <2>13, <2>14, <2>15, Combine
<1>6. CASE last_millis # call[t].last
  <2>1. PICK c : c = [call[t] EXCEPT !.last = last_millis]
    OBVIOUS
  <2>2. /\ c \in Calls /\ c.pc = "forward" /\ c.major = call[t].major
        /\ c.stamp = call[t].stamp /\ c.last = last_millis
    BY <1>2, <1>3, <2>1 DEF Calls, Pcs
  <2>3. call' = [call EXCEPT ![t] = c] /\ last_millis' = last_millis
    BY <1>6, <2>1 DEF Exchange
  <2>4. c.pc \in StepsOf[build]
    BY <1>3, <2>2 DEF StepsOf, Pcs
  <2>5. ASSUME ~ Lost, call'[t] = c, Major' = Major, Counted' = Counted,
               Epoch(t)' = Epoch(t), Now(t)' = Now(t)
        PROVE  CallInv(t)'
    <3>1. CallInv(t) /\ CountedInv
      BY <1>2, <2>5 DEF IInv
    <3>2. Epoch(t) <= Major
      BY <1>2, <1>3, <3>1 DEF CallInv, AtomicsInv, At
    <3>3. /\ Major \in Nat /\ Counted \in Int /\ call[t].stamp \in Nat
          /\ Now(t) <= last_millis \/ Now(t) - last_millis >= HALF_MAX_UINT32 =>
               Epoch(t) = Major + 1 \/ Counted >= call[t].stamp
      BY <1>0, <1>2, <3>1, Where
    <3>4. MayForward(t)' <=> Now(t) > last_millis /\ Now(t) - last_millis < HALF_MAX_UINT32
      BY <2>2, <2>5 DEF MayForward
    <3>5. ~ MayForward(t)' => Counted >= call[t].stamp
      BY <1>3, <1>4, <3>2, <3>3, <3>4, ConstFact
    <3>6. ~ MayForward(t)' => Served(t)'
      BY <2>2, <2>5, <3>2, <3>3, <3>5, ConstFact DEF Served
    <3>7. AtomicsInv(t)'
      BY <2>2, <2>5, <3>2, <3>6 DEF AtomicsInv, At, Locked
    <3> QED BY <1>2, <1>3, <2>2, <2>5, <3>7 DEF CallInv
  <2> QED BY <1>2, <2>2, <2>3, <2>4, <2>5, Noted DEF Locked
<1> QED BY <1>5, <1>6

LEMMA IdleFact ==
  ASSUME TypeOK
  PROVE  Idle \in Calls /\ Idle.pc = "idle"
  BY ConstFact DEF TypeOK, Idle, Calls, Pcs

LEMMA ReturnStep ==
  ASSUME IInv, NEW t \in Threads, Return(t)
  PROVE  IInv'
<1>0. TypeOK /\ LagInv
  BY DEF IInv
<1>1. /\ call[t].pc = "return" /\ Active(t) /\ call' = [call EXCEPT ![t] = Idle]
      /\ seen' = IF call[t].stamp > seen THEN call[t].stamp ELSE seen
      /\ UNCHANGED << build, time, last_millis, millis_major, lock, overtaken >>
  BY DEF Return, Returns, At, Active
<1>2. /\ call[t].stamp \in 0 .. time /\ seen \in 0 .. time /\ time \in Nat
      /\ time - seen <= MaxLag
  BY <1>0 DEF TypeOK, LagInv
<1>3. seen' \in 0 .. time /\ time - seen' <= MaxLag
  BY <1>1, <1>2, ConstFact
<1>4. /\ TypeOK' /\ call'[t] = Idle
      /\ \A u \in Threads \ {t} : call'[u] = call[u]
  <2>1. Idle.pc \in Locked <=> call[t].pc \in Locked
    BY <1>0, <1>1, IdleFact DEF Locked
  <2>2. /\ last_millis' \in 0 .. Range - 1 /\ overtaken' \in BOOLEAN
        /\ millis_major' \in Nat
    BY <1>0, <1>1 DEF TypeOK
  <2> QED BY <1>0, <1>1, <1>3, <2>1, <2>2, IdleFact, Typed
<1>5. Pending' <=> Pending
  <2>1. ~ (call[t].pc \in Locked)
    BY <1>1 DEF Locked
  <2> QED BY <1>0, <1>1, <1>4, <2>1, NotPending
<1>6. ~ Lost => Counted >= seen' - MaxLag
  <2> SUFFICES ASSUME ~ Lost PROVE Counted >= seen' - MaxLag
    OBVIOUS
  <2>1. CountedInv /\ Served(t)
    BY <1>1 DEF IInv, CallInv
  <2>2. Counted >= seen - MaxLag /\ Counted >= call[t].stamp - MaxLag
    BY <2>1 DEF CountedInv, Served
  <2> QED BY <1>1, <2>2
<1>7. call'[t].pc = "idle" /\ call'[t].pc \in StepsOf[build]
  BY <1>0, <1>4, IdleFact, BuildsAssumption DEF StepsOf, Pcs, TypeOK, AllBuilds
<1>8. build = "single" => \A u \in Threads \ {t} : ~ Active(u)
  BY <1>1, Alone
<1> QED BY <1>1, <1>3, <1>4, <1>5, <1>6, <1>7, <1>8, Local

LEMMA BeginStep ==
  ASSUME IInv, NEW t \in Threads, Begin(t)
  PROVE  IInv'
<1>0. TypeOK /\ LagInv
  BY DEF IInv
<1>1. PICK c : c = [Idle EXCEPT !.pc = "major", !.stamp = time]
  OBVIOUS
<1>2. /\ call[t].pc = "idle" /\ call' = [call EXCEPT ![t] = c]
      /\ build = "single" => \A u \in Threads : ~ Active(u)
      /\ UNCHANGED << build, time, last_millis, millis_major, lock, seen, overtaken >>
  BY <1>1 DEF Begin, At, Active
<1>3. /\ time \in Nat /\ millis_major \in Nat /\ last_millis \in 0 .. Range - 1
      /\ build \in AllBuilds
  BY <1>0, ConstFact, BuildsAssumption DEF TypeOK
<1>4. c \in Calls /\ c.pc = "major" /\ c.stamp = time
  <2>1. Idle \in Calls /\ time \in 0 .. time
    BY <1>0, <1>3, IdleFact
  <2> QED BY <1>1, <2>1 DEF Calls, Pcs
<1>5. /\ TypeOK' /\ call'[t] = c
      /\ \A u \in Threads \ {t} : call'[u] = call[u]
  <2>1. c.pc \in Locked <=> call[t].pc \in Locked
    BY <1>2, <1>4 DEF Locked
  <2>2. /\ last_millis' \in 0 .. Range - 1 /\ overtaken' \in BOOLEAN
        /\ millis_major' \in Nat /\ seen' \in 0 .. time
    BY <1>0, <1>2 DEF TypeOK
  <2> QED BY <1>0, <1>2, <1>4, <2>1, <2>2, Typed
<1>6. Pending' <=> Pending
  <2>1. ~ (call[t].pc \in Locked)
    BY <1>2 DEF Locked
  <2> QED BY <1>0, <1>2, <1>5, <2>1, NotPending
<1>7. Counted' = Counted /\ millis_major' = millis_major
  BY <1>2, <1>6 DEF Counted, Major
<1>8. Epoch(t)' = time \div Range
  BY <1>4, <1>5 DEF Epoch
<1>9. ASSUME ~ Lost PROVE CallInv(t)'
  <2>1. CountedInv
    BY <1>9 DEF IInv
  <2>2. time \div Range >= millis_major
    <3>0. PICK q, r : q = time \div Range /\ r = time % Range
      OBVIOUS
    <3>1. /\ q \in Nat /\ r \in 0 .. Range - 1 /\ r = time - q * Range
      BY <1>3, <3>0, DivFact
    <3>2. millis_major * Range <= q * Range + r
      <4>1. CASE Pending
        <5>1. /\ lock \in Threads /\ Epoch(lock) = millis_major
              /\ call[lock].stamp \in Nat /\ call[lock].stamp <= time
          BY <1>0, <1>9, <4>1, PendingFact DEF TypeOK
        <5>2. Now(lock) \in Nat /\ Now(lock) = call[lock].stamp - millis_major * Range
          <6>1. /\ Now(lock) \in 0 .. Range - 1
                /\ Now(lock) = call[lock].stamp - Epoch(lock) * Range
            BY <5>1, DivFact DEF Now, Epoch
          <6> QED BY <5>1, <6>1, ConstFact
        <5>3. PICK a \in Int, b \in Int : a = q * Range /\ b = millis_major * Range
          BY <1>3, <3>1, ConstFact
        <5> QED BY <1>3, <3>1, <5>1, <5>2, <5>3, ConstFact
      <4>2. CASE ~ Pending
        <5>1. Counted <= time /\ Counted = last_millis + millis_major * Range
          BY <2>1, <4>2 DEF CountedInv, Counted, Major
        <5>2. PICK a \in Int, b \in Int : a = q * Range /\ b = millis_major * Range
          BY <1>3, <3>1, ConstFact
        <5> QED BY <1>3, <3>1, <5>1, <5>2, ConstFact
      <4> QED BY <4>1, <4>2
    <3>3. millis_major <= q
      BY <1>3, <3>1, <3>2, EpochFact
    <3> QED BY <1>3, <3>0, <3>1, <3>3
  <2>3. (build = "no_atomics" => NoAtomicsInv(t))'
    BY <1>2, <1>4, <1>5, <1>8, <2>2 DEF NoAtomicsInv, At
  <2>4. (build = "atomics" => AtomicsInv(t))'
    BY <1>4, <1>5 DEF AtomicsInv, At, Locked
  <2>5. ASSUME build = "single" PROVE SingleInv(t)'
    <3>1. \A u \in Threads : u # t => ~ Active(u)'
      BY <1>2, <1>5, <2>5 DEF Active, At
    <3>2. (Counted <= call[t].stamp)'
      BY <1>4, <1>5, <1>7, <2>1 DEF CountedInv
    <3> QED BY <1>4, <1>5, <3>1, <3>2 DEF SingleInv, At
  <2> QED BY <1>2, <1>4, <1>5, <2>3, <2>4, <2>5 DEF CallInv
<1>10. /\ time - seen' <= MaxLag /\ time - call'[t].stamp <= MaxLag
       /\ ~ Lost => Counted >= seen' - MaxLag
  BY <1>0, <1>2, <1>3, <1>4, <1>5, ConstFact DEF LagInv, IInv, CountedInv
<1>11. call'[t].pc \in StepsOf[build]
  BY <1>3, <1>4, <1>5 DEF StepsOf, Pcs, AllBuilds
<1> QED BY <1>2, <1>5, <1>6, <1>9, <1>10, <1>11, Local

LEMMA ComputeStep ==
  ASSUME IInv, NEW t \in Threads, Compute(t)
  PROVE  IInv'
<1>0. TypeOK /\ LagInv
  BY DEF IInv
<1>1. PICK over : over = RolledOver(Now(t), last_millis)
  OBVIOUS
<1>2. PICK c : c = [call[t] EXCEPT !.pc = "return", !.major = millis_major']
  OBVIOUS
<1>3. /\ build = "single" /\ call[t].pc = "major" /\ Active(t)
      /\ millis_major' = IF over THEN millis_major + 1 ELSE millis_major
      /\ last_millis' = IF over \/ Now(t) > last_millis THEN Now(t) ELSE last_millis
      /\ call' = [call EXCEPT ![t] = c]
      /\ UNCHANGED << build, time, lock, seen, overtaken >>
  BY <1>1, <1>2 DEF Compute, At, Active
<1>4. /\ call[t] \in Calls /\ call[t].stamp \in Nat
      /\ last_millis \in 0 .. Range - 1 /\ millis_major \in Nat
  BY <1>0 DEF TypeOK, Calls
<1>5. millis_major' \in Nat
  BY <1>3, <1>4
<1>6. /\ c \in Calls /\ c.pc = "return" /\ c.major = millis_major'
      /\ c.stamp = call[t].stamp /\ c.last = call[t].last
  BY <1>2, <1>4, <1>5 DEF Calls, Pcs
<1>7. /\ \A u \in Threads \ {t} : ~ Active(u)
      /\ CallInv(t) /\ CountedInv
  BY <1>3, Alone DEF IInv, Lost
<1>8. ~ Pending /\ lock \notin Threads
  BY <1>0, <1>3, LockFact DEF IInv, StepsOf, Locked
<1>9. /\ Major = millis_major /\ Epoch(t) \in Nat /\ Counted \in Int
      /\ Now(t) \in 0 .. Range - 1
      /\ call[t].stamp = Epoch(t) * Range + Now(t)
      /\ Epoch(t) = Major - 1 \/ Epoch(t) = Major \/ Epoch(t) = Major + 1
      /\ over <=> Epoch(t) = Major + 1
      /\ Now(t) <= last_millis \/ Now(t) - last_millis >= HALF_MAX_UINT32 =>
           Epoch(t) = Major + 1 \/ Counted >= call[t].stamp
  BY <1>0, <1>1, <1>3, <1>7, <1>8, Where DEF Major
<1>10. Counted <= call[t].stamp
  BY <1>3, <1>7 DEF CallInv, SingleInv
<1>11. Epoch(t) >= Major
  <2>1. Major * Range <= Epoch(t) * Range + Now(t)
    <3>1. PICK a \in Int, b \in Int : a = Epoch(t) * Range /\ b = Major * Range
      BY <1>4, <1>9, ConstFact
    <3>2. Counted = last_millis + b
      BY <3>1 DEF Counted
    <3> QED BY <1>4, <1>9, <1>10, <3>1, <3>2, ConstFact
  <2> QED BY <1>4, <1>9, <2>1, EpochFact
<1>12. /\ TypeOK' /\ call'[t] = c
       /\ \A u \in Threads \ {t} : call'[u] = call[u]
  <2>1. c.pc \in Locked <=> call[t].pc \in Locked
    BY <1>3, <1>6 DEF Locked
  <2>2. /\ last_millis' \in 0 .. Range - 1 /\ overtaken' \in BOOLEAN /\ seen' \in 0 .. time
    BY <1>0, <1>3, <1>4, <1>9 DEF TypeOK
  <2> QED BY <1>0, <1>3, <1>5, <1>6, <2>1, <2>2, Typed
<1>13. Epoch(t)' = Epoch(t)
  BY <1>6, <1>12 DEF Epoch
<1>14. ~ Pending'
  BY <1>3, <1>8 DEF Pending
<1>15. Major' = millis_major' /\ Major' = Epoch(t)
  <2>1. Major' = millis_major'
    BY <1>14 DEF Major
  <2> QED BY <1>3, <1>4, <1>9, <1>11, <2>1
<1>16. Counted' = call[t].stamp
  <2>1. CASE over \/ Now(t) > last_millis
    BY <1>0, <1>3, <1>15, <2>1, StoredFact
  <2>2. CASE ~ over /\ ~ (Now(t) > last_millis)
    <3>1. Major' = Major /\ last_millis' = last_millis
      BY <1>3, <1>9, <1>15, <2>2
    <3>2. Counted' = Counted
      BY <3>1 DEF Counted
    <3>3. Counted >= call[t].stamp
      BY <1>4, <1>9, <2>2, ConstFact
    <3> QED BY <1>4, <1>9, <1>10, <3>2, <3>3
  <2> QED BY <2>1, <2>2
<1>17. /\ call[t].stamp <= time /\ time - call[t].stamp <= MaxLag
       /\ time \in Nat /\ seen <= time /\ seen \in Nat /\ time - seen <= MaxLag
  BY <1>0, <1>3 DEF TypeOK, LagInv
<1>18. CountedInv' /\ Counted' >= time - MaxLag
  BY <1>3, <1>4, <1>9, <1>15, <1>16, <1>17, ConstFact DEF CountedInv
<1>19. CallInv(t)'
  <2>1. Served(t)'
    BY <1>4, <1>6, <1>9, <1>12, <1>13, <1>15, <1>16, ConstFact DEF Served
  <2>2. \A u \in Threads : u # t => ~ Active(u)'
    BY <1>7, <1>12 DEF Active, At
  <2>3. (Counted <= call[t].stamp)' /\ call'[t].major = Epoch(t)'
    BY <1>4, <1>6, <1>12, <1>13, <1>15, <1>16
  <2>4. SingleInv(t)'
    BY <2>2, <2>3 DEF SingleInv, At
  <2> QED BY <1>3, <1>6, <1>12, <2>1, <2>4 DEF CallInv
<1>20. Major' >= Major /\ millis_major' >= millis_major
  BY <1>3, <1>4, <1>9, <1>11, <1>15
<1>21. /\ time - seen' <= MaxLag /\ time - call'[t].stamp <= MaxLag
       /\ call'[t].pc \in StepsOf[build]
  BY <1>3, <1>6, <1>12, <1>17 DEF StepsOf
<1>22. overtaken => overtaken'
  BY <1>3
<1>23. \A u \in Threads \ {t} :
         /\ ~ (call[u].pc \in {"locked", "store"})
         /\ ~ Active(u)
  BY <1>7 DEF Active, At
<1> QED BY <1>3, <1>7, <1>12, <1>18, <1>19, <1>20, <1>21, <1>22, <1>23, Combine

(* Time passes, but a call that is under way grows no older than MaxLag.   *)
LEMMA TickStep ==
  ASSUME IInv, Tick
  PROVE  IInv'
<1>0. TypeOK /\ LagInv
  BY DEF IInv
<1>1. /\ time' = time + 1 /\ time < MaxTime /\ time - seen < MaxLag
      /\ \A t \in Threads : Active(t) => time - call[t].stamp < MaxLag
      /\ UNCHANGED << build, last_millis, millis_major, lock, call, seen, overtaken >>
  BY DEF Tick, Active
<1>2. /\ time \in Nat /\ seen \in 0 .. time
      /\ \A t \in Threads : call[t].stamp \in 0 .. time
  BY <1>0, BoundAssumption DEF TypeOK
<1>3. TypeOK'
  <2>1. time' \in 0 .. MaxTime /\ seen' \in 0 .. time' /\ 0 .. time \subseteq 0 .. time'
    BY <1>1, <1>2, BoundAssumption
  <2>2. call' \in [Threads -> [pc : Pcs, stamp : 0 .. time', major : Nat, last : 0 .. Range - 1]]
    BY <1>0, <1>1, <2>1 DEF TypeOK
  <2> QED BY <1>0, <1>1, <2>1, <2>2 DEF TypeOK
<1>4. LagInv'
  <2>1. time' - seen' <= MaxLag
    BY <1>1, <1>2, ConstFact
  <2>2. ASSUME NEW t \in Threads, Active(t)' PROVE time' - call'[t].stamp <= MaxLag
    <3>1. Active(t) /\ call'[t].stamp = call[t].stamp
      BY <1>1, <2>2 DEF Active, At
    <3> QED BY <1>1, <1>2, <3>1, ConstFact
  <2> QED BY <2>1, <2>2 DEF LagInv
<1>5. /\ Major' = Major /\ Counted' = Counted /\ (Lost' <=> Lost)
      /\ \A t \in Threads : (Active(t)' <=> Active(t)) /\ (CallInv(t)' <=> CallInv(t))
  BY <1>1
  DEF Lost, Major, Counted, Pending, Active, At, Now, Epoch, MayForward, CallInv, SingleInv,
      NoAtomicsInv, AtomicsInv, Served
<1>6. CountedInv => CountedInv'
  <2> SUFFICES ASSUME CountedInv PROVE CountedInv'
    OBVIOUS
  <2>1. Counted \in Int
    <3>1. Major * Range \in Int /\ last_millis \in Int
      BY <1>0, ConstFact DEF CountedInv, TypeOK
    <3> QED BY <3>1 DEF Counted
  <2> QED BY <1>1, <1>2, <1>5, <2>1 DEF CountedInv
<1> QED BY <1>1, <1>3, <1>4, <1>5, <1>6 DEF IInv
-----------------------------------------------------------------------------
(* The invariant and what follows from it.                                 *)
LEMMA InitHolds ==
  ASSUME Init
  PROVE  IInv
<1>1. /\ build \in Builds /\ time = 0 /\ last_millis = 0 /\ millis_major = 0
      /\ lock = None /\ seen = 0 /\ overtaken = FALSE
      /\ call = [t \in Threads |-> Idle]
  BY DEF Init
<1>2. \A t \in Threads : call[t] = Idle /\ ~ Active(t) /\ call[t].pc = "idle"
  BY <1>1 DEF Idle, Active, At
<1>3. TypeOK
  <2>1. /\ time \in 0 .. MaxTime /\ seen \in 0 .. time /\ millis_major \in Nat
        /\ last_millis \in 0 .. Range - 1
    BY <1>1, ConstFact, BoundAssumption
  <2>2. Idle \in [pc : Pcs, stamp : 0 .. time, major : Nat, last : 0 .. Range - 1]
    BY <2>1, <1>1, ConstFact DEF Idle, Pcs
  <2>3. \A t \in Threads : lock = t <=> call[t].pc \in Locked
    BY <1>1, <1>2, NoneAssumption DEF Locked
  <2> QED BY <1>1, <2>1, <2>2, <2>3 DEF TypeOK
<1>4. LagInv
  BY <1>1, <1>2, ConstFact DEF LagInv
<1>5. \A t \in Threads : call[t].pc \in StepsOf[build]
  <2>1. build \in {"single", "no_atomics", "atomics"}
    BY <1>1, BuildsAssumption DEF AllBuilds
  <2>2. "idle" \in StepsOf[build]
    BY <2>1 DEF StepsOf, Pcs
  <2> QED BY <1>2, <2>2
<1>6. ~ Pending /\ Major = 0
  BY <1>1, NoneAssumption DEF Pending, Major
<1>7. CountedInv
  BY <1>1, <1>6, ConstFact DEF CountedInv, Counted
<1> QED BY <1>2, <1>3, <1>4, <1>5, <1>7 DEF IInv

LEMMA StepKeeps ==
  ASSUME IInv, [Next]_vars
  PROVE  IInv'
<1>1. CASE Tick
  BY <1>1, TickStep
<1>2. ASSUME NEW t \in Threads, Begin(t) \/ Step(t)
      PROVE  IInv'
  BY <1>2, BeginStep, ComputeStep, LoadMajorStep, LoadLastStep, LockStep, RereadStep,
     CountRolloverStep, CountNothingStep, StoreStep, ForwardStoreStep, ExchangeStep,
     NoForwardStep, CheckStep, ReturnStep
  DEF Step
<1>3. CASE UNCHANGED vars
  <2>1. UNCHANGED << build, time, last_millis, millis_major, lock, call, seen, overtaken >>
    BY <1>3 DEF vars
  <2>2. TypeOK' /\ LagInv'
    BY <2>1 DEF IInv, TypeOK, LagInv, Active, At
  <2>3. /\ Major' = Major /\ Counted' = Counted /\ (Lost' <=> Lost)
        /\ \A t \in Threads : (Active(t)' <=> Active(t)) /\ (CallInv(t)' <=> CallInv(t))
    BY <2>1
    DEF Lost, Major, Counted, Pending, Active, At, Now, Epoch, MayForward, CallInv,
        SingleInv, NoAtomicsInv, AtomicsInv, Served
  <2> QED BY <2>1, <2>2, <2>3 DEF IInv, CountedInv
<1> QED BY <1>1, <1>2, <1>3 DEF Next

LEMMA Invariant == Spec => []IInv
<1>1. Init => IInv
  BY InitHolds
<1>2. IInv /\ [Next]_vars => IInv'
  BY StepKeeps
<1> QED BY <1>1, <1>2, PTL DEF Spec

(* The shared words and the locals of every call are what their types say, *)
(* and only the thread inside the guarded part has the mutex               *)
(* (time_64.cpp:98-117 and 152-178).                                       *)
THEOREM TypeCorrect == Spec => []TypeOK
<1>1. IInv => TypeOK
  BY DEF IInv
<1> QED BY <1>1, Invariant, PTL

(* Whenever the mutex is free the two words are a time that has been, with *)
(* each rollover so far counted once: for any number of threads, any range *)
(* of the low word and any number of rollovers, in each of the forms of    *)
(* time_64.cpp:58-181; without atomics until a call has been overtaken.    *)
THEOREM RolloversAreCountedOnce == Spec => []CountedOnceUnlessOvertaken
<1>1. ASSUME IInv PROVE CountedOnceUnlessOvertaken
  <2>1. SUFFICES ASSUME ~ Lost, lock = None
                 PROVE  LET counted == last_millis + millis_major * Range
                        IN  counted <= time /\ counted >= seen - MaxLag
    BY DEF CountedOnceUnlessOvertaken, CountedOnce, Lost
  <2>2. ~ Pending
    BY <2>1, NoneAssumption DEF Pending
  <2>3. Counted = last_millis + millis_major * Range
    BY <2>2 DEF Counted, Major
  <2>4. CountedInv
    BY <1>1, <2>1 DEF IInv
  <2> QED BY <2>3, <2>4 DEF CountedInv
<1>2. IInv => CountedOnceUnlessOvertaken
  BY <1>1
<1> QED BY <1>2, Invariant, PTL

(* An answer is the time of its timestamp, or with atomics that of one     *)
(* rollover later, which has then happened (time_64.cpp:67-69, :119-123    *)
(* and :179-181).  The form without atomics needs a window that is wider   *)
(* than two delays add up to: the high word is read before the low one.    *)
THEOREM AnswersExact ==
  ASSUME "no_atomics" \in Builds => 2 * MaxLag < Window
  PROVE  Spec => AnswersAreExact
<1>1. ASSUME IInv, NEW t \in Threads, Return(t)
      PROVE  \/ Value(t) = call[t].stamp
             \/ /\ build = "atomics" /\ Value(t) = call[t].stamp + Range
                /\ call[t].stamp \div Range < millis_major
             \/ build = "no_atomics" /\ overtaken
  <2>1. /\ TypeOK /\ Active(t) /\ At(t, "return") /\ call[t].pc = "return"
    BY <1>1 DEF IInv, Return, At, Active
  <2>2. /\ call[t].stamp \in Nat /\ call[t].major \in Nat /\ millis_major \in Nat
        /\ build \in Builds /\ build \in AllBuilds
    BY <2>1, BuildsAssumption DEF TypeOK
  <2>3. PICK q, now, stamp, R : /\ q = Epoch(t) /\ now = Now(t) /\ stamp = call[t].stamp
                                /\ R = Range
    OBVIOUS
  <2>4. /\ q \in Nat /\ now \in Int /\ R \in Nat /\ stamp = q * R + now
    <3>1. /\ q \in Nat /\ now \in 0 .. Range - 1 /\ now = stamp - q * Range
      BY <2>2, <2>3, DivFact DEF Epoch, Now
    <3> QED BY <2>2, <2>3, <3>1, ConstFact
  <2>5. call[t].major = q => Value(t) = stamp
    <3> SUFFICES ASSUME call[t].major = q PROVE Value(t) = stamp
      OBVIOUS
    <3>1. Value(t) = now + q * R
      BY <2>3 DEF Value
    <3> QED BY <2>4, <3>1
  <2>6. call[t].major = q + 1 => Value(t) = stamp + R
    <3> SUFFICES ASSUME call[t].major = q + 1 PROVE Value(t) = stamp + R
      OBVIOUS
    <3>1. Value(t) = now + (q + 1) * R
      BY <2>3 DEF Value
    <3>2. (q + 1) * R = q * R + R
      BY <2>4
    <3> QED BY <2>4, <3>1, <3>2
  <2>7. CASE Lost
    BY <2>7 DEF Lost
  <2>8. CASE ~ Lost
    <3>1. CallInv(t)
      BY <1>1, <2>1, <2>8 DEF IInv
    <3>2. CASE build = "single"
      BY <2>1, <2>3, <2>5, <3>1, <3>2 DEF CallInv, SingleInv
    <3>3. CASE build = "no_atomics"
      <4>1. call[t].major = Epoch(t)
        BY <2>1, <2>2, <3>1, <3>3 DEF CallInv, NoAtomicsInv
      <4> QED BY <2>3, <2>5, <4>1
    <3>4. CASE build = "atomics"
      <4>1. call[t].major \in {q, q + 1} /\ call[t].major <= millis_major
        BY <2>1, <2>3, <3>1, <3>4 DEF CallInv, AtomicsInv
      <4>2. call[t].major = q + 1 => q < millis_major
        BY <2>2, <2>4, <4>1
      <4> QED BY <2>3, <2>5, <2>6, <3>4, <4>1, <4>2 DEF Epoch
    <3> QED BY <2>2, <3>2, <3>3, <3>4 DEF AllBuilds
  <2> QED BY <2>7, <2>8
<1>2. IInv /\ [Next]_vars =>
        [\A t \in Threads : Return(t) =>
           \/ Value(t) = call[t].stamp
           \/ /\ build = "atomics" /\ Value(t) = call[t].stamp + Range
              /\ call[t].stamp \div Range < millis_major
           \/ build = "no_atomics" /\ overtaken]_vars
  BY <1>1
<1> QED BY <1>2, Invariant, PTL DEF Spec, AnswersAreExact
=============================================================================
