-------------------------- MODULE Lifecycle_proofs --------------------------
(***************************************************************************)
(* Proofs about Lifecycle, for every number of attempts, any components    *)
(* and rounds of teardown, and any number of updates in one boot.          *)
(***************************************************************************)
EXTENDS Lifecycle, FiniteSetTheorems, SequenceTheorems, TLAPS

(* The running image could be started and stays; it is confirmed before an *)
(* update may erase or select the other one.  A running image that is on   *)
(* trial has a confirmed one to go back to.                                *)
ImageInv ==
    /\ running \in Slots /\ boot \in Slots
    /\ image \in [Slots -> {"empty", "working", "broken"}]
    /\ verdict \in [Slots -> {"valid", "new", "pending", "aborted"}]
    /\ writing \in {"no", "begun", "erased"}
    /\ Bootable(running) /\ verdict[running] # "new"
    /\ boot # running \/ writing # "no" => verdict[running] = "valid"
    /\ verdict[running] = "pending" =>
           Bootable(Other(running)) /\ verdict[Other(running)] = "valid"

(* The running image has been started, and so has the one it would go back *)
(* to.  One that is selected and waits for its first start is new, unless  *)
(* begin() has marked it.                                                  *)
RanInv ==
    /\ ran \subseteq Slots /\ running \in ran /\ early \in BOOLEAN
    /\ verdict[running] = "pending" => Other(running) \in ran
    /\ boot # running /\ ~early => verdict[boot] = "new"

(* What the counter will be, if this boot has ended when it says so.       *)
CountedBoots == IF proved THEN 0
                ELSE IF failures < NumAttempts THEN failures + 1 ELSE failures

Waiting == at \in {"off", "boot"}

(* What is in flash, and what only in RAM, says exactly what has happened. *)
CounterInv ==
    /\ failures \in 0 .. NumAttempts /\ proved \in BOOLEAN
    /\ request \in {"none", "asked", "entered"}
    /\ flash \in 0 .. NumAttempts \cup {ENTER_SAFE_MODE_MAGIC}
    /\ unsynced \in {{}, {0}}
    /\ flash = ENTER_SAFE_MODE_MAGIC <=> request # "none"
    /\ Waiting => unsynced = {} /\ ~proved
    /\ request = "none" => flash = IF Waiting THEN failures ELSE CountedBoots
    /\ request = "asked" => unsynced = {} /\ at \notin {"normal", "safe", "forced"}
    /\ request = "entered" /\ ~Waiting => unsynced = {0}

(* The hooks of an orderly restart take the counter to flash.              *)
HooksInv ==
    /\ at = "shutdown" /\ request # "asked" => unsynced = {0}
    /\ at \in {"teardown", "powerdown"} =>
           /\ request # "entered" /\ unsynced = {}
           /\ request = "none" => flash = 0

(* The places of pending that a round of teardown has kept or not seen.    *)
Listed == {p \in 1 .. Len(pending) : p <= next.keep \/ p >= next.i}

(* They hold every component that is not ready, each once.                 *)
TeardownInv ==
    /\ pending \in Seq(ToSet(Components)) /\ ready \subseteq ToSet(Components)
    /\ next \in [i : Nat \ {0}, keep : Nat] /\ rounds \in 0 .. TeardownRounds
    /\ next.i <= Len(pending) + 1 /\ next.keep < next.i
    /\ at \notin {"teardown", "powerdown"} => ready = {} /\ rounds = 0
    /\ at = "teardown" =>
           /\ rounds < TeardownRounds
           /\ {pending[p] : p \in Listed} = ToSet(Components) \ ready
           /\ \A p, q \in Listed : pending[p] = pending[q] => p = q

Places == {"off", "boot", "normal", "safe", "safe_shutdown", "shutdown", "teardown",
           "powerdown", "forced"}

(* The inductive invariant.                                                *)
IInv == /\ at \in Places /\ updates \in 0 .. MaxUpdates
        /\ ImageInv /\ RanInv /\ CounterInv /\ HooksInv /\ TeardownInv
-----------------------------------------------------------------------------
(* There are two slots.                                                    *)
LEMMA OtherFact ==
  ASSUME NEW s \in Slots
  PROVE  Other(s) \in Slots /\ Other(s) # s /\ Slots = {s, Other(s)}
<1>1. \E o \in Slots : o # s
  BY DEF Slots
<1>2. Other(s) \in Slots /\ Other(s) # s
  BY <1>1 DEF Other
<1> QED BY <1>2 DEF Slots

(* A load gives the value that is not synced yet, if there is one.         *)
LEMMA LoadFact ==
  ASSUME CounterInv
  PROVE  Load = IF unsynced = {} THEN flash ELSE 0
<1>1. CASE unsynced = {}
  BY <1>1 DEF Load
<1>2. CASE unsynced = {0}
  BY <1>2 DEF Load
<1> QED BY <1>1, <1>2 DEF CounterInv

(* The bootloader finds an image: the running one, which is still there,   *)
(* or the one that it is to go back to.                                    *)
LEMMA SelectedFact ==
  ASSUME ImageInv
  PROVE  /\ Selected \in Slots /\ Bootable(Selected)
         /\ Selected # running => boot = Selected \/ verdict[Selected] = "valid"
<1> USE DEF ImageInv
<1>1. CASE boot = running
  BY <1>1, OtherFact DEF Selected, Bootable
<1>2. CASE boot # running
  <2>1. Other(boot) = running
    BY <1>2, OtherFact
  <2> QED BY <1>2, <2>1 DEF Selected, Bootable
<1> QED BY <1>1, <1>2
-----------------------------------------------------------------------------
(* The images.                                                             *)

LEMMA BootloaderKeepsImages ==
  ASSUME ImageInv, RanInv, Bootloader
  PROVE  ImageInv' /\ RanInv'
<1>0. PICK S : S = Selected
  OBVIOUS
<1>1. /\ S \in Slots /\ Bootable(S) /\ boot \in Slots /\ running \in Slots
      /\ Other(S) \in Slots /\ Other(S) # S
      /\ \A s \in Slots : s = S \/ s = Other(S)
  BY <1>0, SelectedFact, OtherFact DEF ImageInv
<1>2. \/ S = boot /\ verdict[boot] # "pending"
      \/ (S # boot /\ verdict[boot] = "pending") \/ (S # boot /\ ~Bootable(boot))
  BY <1>0, <1>1, OtherFact DEF Selected
<1>3. /\ running' = S /\ boot' = S /\ image' = image /\ writing' = "no"
      /\ ran' = ran \cup {S} /\ early' = FALSE
      /\ verdict' = [s \in Slots |-> IF s = S /\ verdict[s] = "new" THEN "pending"
                                   ELSE IF s = boot /\ verdict[s] = "pending" THEN "aborted"
                                   ELSE verdict[s]]
  BY <1>0 DEF Bootloader, imageVars
<1>4. verdict' \in [Slots -> {"valid", "new", "pending", "aborted"}]
  BY <1>3 DEF ImageInv
<1>5. Bootable(S)' /\ verdict'[S] # "new"
  BY <1>1, <1>2, <1>3 DEF Bootable, ImageInv
<1>6. ASSUME verdict'[S] = "pending"
      PROVE  Bootable(Other(S))' /\ verdict'[Other(S)] = "valid"
  <2>1. verdict[S] \in {"new", "pending"}
    BY <1>1, <1>3, <1>6
  <2>2. S # running
    BY <1>1, <1>2, <2>1 DEF ImageInv
  <2>3. boot = S /\ Other(S) = running /\ verdict[running] = "valid"
    BY <1>1, <2>1, <2>2, <1>0, SelectedFact DEF ImageInv
  <2> QED BY <1>1, <1>3, <2>2, <2>3 DEF Bootable, ImageInv
<1>7. ImageInv'
  BY <1>1, <1>3, <1>4, <1>5, <1>6 DEF ImageInv
<1>8. ASSUME verdict'[S] = "pending" PROVE Other(S) \in ran
  <2>1. verdict[S] \in {"new", "pending"}
    BY <1>1, <1>3, <1>8
  <2>2. S # running
    BY <1>1, <1>2, <2>1 DEF ImageInv
  <2>3. Other(S) = running
    BY <1>1, <2>2
  <2> QED BY <2>3 DEF RanInv
<1>9. RanInv'
  BY <1>1, <1>3, <1>8 DEF RanInv
<1> QED BY <1>7, <1>9

(* Safe mode confirms the image that runs and no other.                    *)
LEMMA ConfirmKeepsImages ==
  ASSUME ImageInv, RanInv, ConfirmAppImage
  PROVE  ImageInv' /\ RanInv'
<1>1. /\ running \in Slots /\ Other(running) \in Slots /\ Other(running) # running
      /\ UNCHANGED <<running, boot, image, writing, ran, early>>
      /\ verdict' = IF running = boot THEN [verdict EXCEPT ![boot] = "valid"] ELSE verdict
  BY OtherFact DEF ImageInv, ConfirmAppImage
<1>2. ImageInv'
  BY <1>1 DEF ImageInv, Bootable
<1>3. RanInv'
  BY <1>1 DEF RanInv, ImageInv
<1> QED BY <1>2, <1>3

(* From begin() on the running image is confirmed, whether it was before,  *)
(* since another one was selected, or has just been marked.                *)
LEMMA OtaBeginKeepsImages ==
  ASSUME ImageInv, RanInv, OtaBegin
  PROVE  ImageInv' /\ RanInv'
<1>1. /\ running \in Slots /\ Other(running) \in Slots /\ Other(running) # running
      /\ \A s \in Slots : s = running \/ s = Other(running)
      /\ UNCHANGED <<running, boot, image, ran>> /\ writing' \in {"no", "begun"}
      /\ verdict' = [verdict EXCEPT ![boot] = "valid"]
      /\ early' = (boot # running)
  BY OtherFact DEF ImageInv, OtaBegin
<1>2. verdict'[running] = "valid"
  BY <1>1 DEF ImageInv
<1>3. ImageInv'
  BY <1>1, <1>2 DEF ImageInv, Bootable
<1>4. RanInv'
  BY <1>1, <1>2 DEF RanInv
<1> QED BY <1>3, <1>4

(* What is erased and written is not the running image.                    *)
LEMMA OtaWriteKeepsImages ==
  ASSUME ImageInv, RanInv, OtaWrite
  PROVE  ImageInv' /\ RanInv'
<1>1. /\ running \in Slots /\ Other(running) \in Slots /\ Other(running) # running
      /\ UNCHANGED <<running, boot, verdict, early>>
      /\ writing # "no" /\ writing' = "erased"
      /\ ran' = ran \/ ran' = ran \ {Other(running)}
  BY OtherFact DEF ImageInv, OtaWrite
<1>2. PICK made \in {"empty", "working", "broken"} :
        image' = [image EXCEPT ![Other(running)] = made]
  BY DEF OtaWrite
<1>3. ImageInv'
  BY <1>1, <1>2 DEF ImageInv, Bootable
<1>4. verdict[running] = "valid"
  BY <1>1 DEF ImageInv
<1>5. RanInv'
  BY <1>1, <1>4 DEF RanInv
<1> QED BY <1>3, <1>5

(* The running image has been confirmed when another is selected, or       *)
(* refused.                                                                *)
LEMMA OtaEndKeepsImages ==
  ASSUME ImageInv, RanInv, OtaEnd
  PROVE  ImageInv' /\ RanInv'
<1>1. /\ running \in Slots /\ Other(running) \in Slots /\ Other(running) # running
      /\ UNCHANGED <<running, image, ran>> /\ writing # "no" /\ writing' = "no"
      /\ verdict[running] = "valid"
  BY OtherFact DEF ImageInv, OtaEnd
<1>2. CASE UNCHANGED <<verdict, boot, early>>
  BY <1>1, <1>2 DEF ImageInv, RanInv, Bootable
<1>3. CASE /\ verdict' = [verdict EXCEPT ![Other(running)] = "new"]
           /\ boot' = Other(running) /\ early' = FALSE
  <2>1. verdict'[running] = "valid" /\ verdict'[boot'] = "new"
    BY <1>1, <1>3 DEF ImageInv
  <2>2. ImageInv'
    BY <1>1, <1>3, <2>1 DEF ImageInv, Bootable
  <2>3. RanInv'
    BY <1>1, <1>3, <2>1 DEF RanInv
  <2> QED BY <2>2, <2>3
<1> QED BY <1>2, <1>3 DEF OtaEnd

(* A step that leaves the images alone, or gives an update up.             *)
LEMMA OtherStepsKeepImages ==
  ASSUME ImageInv, RanInv,
         UNCHANGED <<running, boot, image, verdict, ran, early>>,
         writing' = writing \/ writing' = "no"
  PROVE  ImageInv' /\ RanInv'
<1>1. running' = running /\ boot' = boot /\ image' = image /\ verdict' = verdict
  OBVIOUS
<1>2. ImageInv'
  <2>1. writing' \in {"no", "begun", "erased"}
    BY DEF ImageInv
  <2>2. Other(running)' = Other(running) /\ Other(running) \in Slots
    BY <1>1, OtherFact DEF ImageInv
  <2>3. Bootable(running)' /\ (Bootable(Other(running))' <=> Bootable(Other(running)))
    BY <1>1, <2>2 DEF ImageInv, Bootable
  <2> QED BY <1>1, <2>1, <2>2, <2>3 DEF ImageInv
<1>3. RanInv'
  BY <1>1 DEF RanInv
<1> QED BY <1>2, <1>3

LEMMA StepKeepsImages ==
  ASSUME ImageInv, RanInv, [Next]_vars
  PROVE  ImageInv' /\ RanInv'
<1>1. CASE Bootloader
  BY <1>1, BootloaderKeepsImages
<1>2. CASE MarkSuccessful \/ OnSafeShutdown
  BY <1>2, ConfirmKeepsImages DEF MarkSuccessful, OnSafeShutdown
<1>3. CASE OtaBegin
  BY <1>3, OtaBeginKeepsImages
<1>4. CASE OtaEnd \/ OtaWrite
  BY <1>4, OtaEndKeepsImages, OtaWriteKeepsImages
<1>5. CASE OtaAbort
  BY <1>5, OtherStepsKeepImages DEF OtaAbort
<1>6. CASE UNCHANGED imageVars
  BY <1>6, OtherStepsKeepImages DEF imageVars
<1>7. CASE ShouldEnterSafeMode \/ IntervalSync \/ PressSafeMode \/ Crash \/ Reboot \/ SafeReboot
  BY <1>6, <1>7 DEF ShouldEnterSafeMode, CountBoot, EnterSafeMode, IntervalSync, PressSafeMode,
                    Crash, Restart, Reboot, SafeReboot
<1>8. CASE OnShutdown \/ Teardown \/ EndRound \/ Restarts \/ UNCHANGED vars
  BY <1>6, <1>8 DEF OnShutdown, Teardown, EndRound, Restarts, Restart, vars
<1> QED BY <1>1, <1>2, <1>3, <1>4, <1>5, <1>7, <1>8 DEF Next
-----------------------------------------------------------------------------
(* The counter.                                                            *)

LEMMA NumberFact == NumAttempts \in 1 .. 255 /\ ENTER_SAFE_MODE_MAGIC > 255
  BY AttemptsAssumption DEF ENTER_SAFE_MODE_MAGIC

(* Only a cleared counter waits in RAM, so a sync of one proves the boot.  *)
LEMMA SyncKeepsCounter ==
  ASSUME CounterInv, ~Waiting, Sync, ~Waiting',
         request = "asked" => at' \notin {"normal", "safe", "forced"}
  PROVE  /\ CounterInv'
         /\ unsynced' = {} /\ request' # "entered"
         /\ unsynced = {0} => flash' = 0
<1> USE NumberFact
<1>1. failures' = failures /\ unsynced' = {}
  BY DEF Sync
<1>2. CASE unsynced = {}
  <2>1. flash' = flash /\ proved' = proved /\ request' = request
    BY <1>2, LoadFact DEF Sync, CounterInv
  <2>2. CountedBoots' = CountedBoots /\ request # "entered"
    BY <1>1, <1>2, <2>1 DEF CountedBoots, CounterInv
  <2> QED BY <1>1, <1>2, <2>1, <2>2 DEF CounterInv
<1>3. CASE unsynced = {0}
  <2>1. /\ flash' = 0 /\ proved' = TRUE
        /\ request' = IF request = "entered" THEN "none" ELSE request
    BY <1>3, LoadFact DEF Sync, CounterInv
  <2>2. CountedBoots' = 0 /\ request' = "none"
    BY <1>3, <2>1 DEF CountedBoots, CounterInv
  <2> QED BY <1>1, <1>3, <2>1, <2>2 DEF CounterInv
<1> QED BY <1>2, <1>3 DEF CounterInv

(* The saves of a running device all clear the counter.                    *)
LEMMA ClearKeepsCounter ==
  ASSUME CounterInv, ~Waiting, Save(0), ~Waiting',
         request # "asked"
  PROVE  CounterInv' /\ unsynced' = {0} /\ request' = request
<1>1. /\ unsynced' = {0}
      /\ UNCHANGED <<flash, request, proved, failures>>
  BY DEF Save, pastVars
<1>2. CountedBoots' = CountedBoots
  BY <1>1 DEF CountedBoots
<1> QED BY <1>1, <1>2 DEF CounterInv

LEMMA QuietStepKeepsCounter ==
  ASSUME CounterInv, UNCHANGED <<prefVars, pastVars>>, Waiting' <=> Waiting,
         request = "asked" => at' \notin {"normal", "safe", "forced"}
  PROVE  CounterInv'
<1>1. UNCHANGED <<flash, unsynced, request, proved, failures>>
  BY DEF prefVars, pastVars
<1>2. CountedBoots' = CountedBoots
  BY <1>1 DEF CountedBoots
<1> QED BY <1>1, <1>2 DEF CounterInv

(* The count of this boot goes to flash at once.                           *)
LEMMA CountBootKeepsCounter ==
  ASSUME CounterInv, CountBoot
  PROVE  CounterInv' /\ request = "none" /\ failures < NumAttempts
<1> USE NumberFact
<1>1. at = "boot" /\ unsynced = {} /\ Load = flash /\ ~proved
  BY LoadFact DEF CountBoot, CounterInv, Waiting
<1>2. request = "none" /\ flash = failures /\ failures \in 0 .. NumAttempts - 1
  BY <1>1 DEF CountBoot, CounterInv, Waiting
<1>3. /\ at' = "normal" /\ flash' = failures + 1 /\ unsynced' = {}
      /\ request' = "none" /\ proved' = proved /\ failures' = failures
  BY <1>1, <1>2 DEF CountBoot, WriteRtc
<1>4. CountedBoots' = failures + 1
  BY <1>1, <1>2, <1>3 DEF CountedBoots
<1> QED BY <1>1, <1>2, <1>3, <1>4 DEF CounterInv, Waiting

LEMMA EnterSafeModeKeepsCounter ==
  ASSUME CounterInv, EnterSafeMode
  PROVE  CounterInv' /\ (request # "none" \/ failures = NumAttempts)
<1> USE NumberFact
<1>1. at = "boot" /\ unsynced = {} /\ Load = flash /\ ~proved
  BY LoadFact DEF EnterSafeMode, CounterInv, Waiting
<1>2. request = "none" => flash = failures /\ failures = NumAttempts
  BY <1>1 DEF EnterSafeMode, CounterInv, Waiting
<1>3. /\ at' = "safe" /\ flash' = flash /\ unsynced' = {0} /\ proved' = proved
      /\ failures' = failures
      /\ request' = IF request = "asked" THEN "entered" ELSE request
  BY DEF EnterSafeMode
<1>4. request' = "none" => CountedBoots' = flash'
  BY <1>1, <1>2, <1>3 DEF CountedBoots
<1> QED BY <1>1, <1>2, <1>3, <1>4 DEF CounterInv, Waiting

(* The request goes to flash at once, whatever is pending.                 *)
LEMMA PressSafeModeKeepsCounter ==
  ASSUME CounterInv, PressSafeMode
  PROVE  CounterInv'
<1> USE NumberFact
<1>1. at \in {"normal", "safe"} /\ at' = "safe_shutdown" /\ Load # ENTER_SAFE_MODE_MAGIC
  BY LoadFact DEF PressSafeMode, Healthy, CounterInv, Waiting
<1>2. /\ flash' = ENTER_SAFE_MODE_MAGIC /\ unsynced' = {} /\ request' = "asked"
      /\ proved' = proved /\ failures' = failures
  BY <1>1 DEF PressSafeMode, WriteRtc
<1> QED BY <1>1, <1>2 DEF CounterInv, Waiting

(* A restart leaves what is in flash, which is what is remembered.         *)
LEMMA RestartKeepsCounter ==
  ASSUME CounterInv, ~Waiting, Restart
  PROVE  CounterInv'
<1> USE NumberFact
<1>1. /\ at' = "off" /\ unsynced' = {} /\ proved' = FALSE
      /\ flash' = flash /\ request' = request
      /\ failures' = CountedBoots
  BY DEF Restart, CountedBoots
<1>2. CountedBoots \in 0 .. NumAttempts
  BY DEF CountedBoots, CounterInv
<1> QED BY <1>1, <1>2 DEF CounterInv, Waiting

(* What the hooks take to flash is a request or a cleared counter.         *)
LEMMA HooksKeepCounter ==
  ASSUME CounterInv, HooksInv, OnSafeShutdown \/ OnShutdown
  PROVE  CounterInv' /\ HooksInv'
<1>1. CASE OnSafeShutdown /\ request = "asked"
  <2>1. Load = ENTER_SAFE_MODE_MAGIC
    BY <1>1, LoadFact DEF CounterInv
  <2>2. /\ UNCHANGED <<prefVars, pastVars>>
        /\ at = "safe_shutdown" /\ at' = "shutdown" /\ request' = "asked"
    BY <1>1, <2>1 DEF OnSafeShutdown, pastVars
  <2> QED BY <2>2, QuietStepKeepsCounter DEF HooksInv, Waiting
<1>2. CASE OnSafeShutdown /\ request # "asked"
  <2>1. at = "safe_shutdown" /\ at' = "shutdown"
    BY <1>2 DEF OnSafeShutdown
  <2>2. Load # ENTER_SAFE_MODE_MAGIC
    BY <1>2, <2>1, LoadFact, NumberFact DEF CounterInv, Waiting
  <2>3. Save(0)
    BY <1>2, <2>2 DEF OnSafeShutdown
  <2> QED BY <1>2, <2>1, <2>3, ClearKeepsCounter DEF HooksInv, Waiting
<1>3. CASE OnShutdown
  <2>1. at = "shutdown" /\ at' = "teardown" /\ Sync
    BY <1>3 DEF OnShutdown
  <2>2. CounterInv' /\ unsynced' = {} /\ request' # "entered" /\ (unsynced = {0} => flash' = 0)
    BY <2>1, SyncKeepsCounter DEF Waiting
  <2>3. request = "asked" => request' = "asked"
    BY <2>1 DEF Sync
  <2> QED BY <2>1, <2>2, <2>3 DEF HooksInv
<1> QED BY <1>1, <1>2, <1>3

LEMMA StepKeepsCounter ==
  ASSUME at \in Places, CounterInv, HooksInv, [Next]_vars
  PROVE  CounterInv' /\ HooksInv'
<1>1. CASE Bootloader \/ UNCHANGED vars \/ OtaBegin \/ OtaWrite \/ OtaEnd \/ OtaAbort
           \/ SafeReboot
           \/ Teardown \/ EndRound
  <2>1. /\ UNCHANGED <<prefVars, pastVars>> /\ (Waiting' <=> Waiting)
        /\ at' = at \/ at' \in {"boot", "safe_shutdown"}
                     \/ (at = "teardown" /\ at' = "powerdown")
    BY <1>1 DEF Bootloader, vars, OtaBegin, OtaWrite, OtaEnd, OtaAbort, SafeReboot, Teardown, EndRound,
                Healthy, Waiting
  <2>2. CounterInv'
    BY <2>1, QuietStepKeepsCounter DEF CounterInv
  <2>3. HooksInv'
    BY <2>1 DEF HooksInv, prefVars, pastVars
  <2> QED BY <2>2, <2>3
<1>2. CASE CountBoot
  BY <1>2, CountBootKeepsCounter DEF CountBoot, HooksInv
<1>3. CASE EnterSafeMode
  BY <1>3, EnterSafeModeKeepsCounter DEF EnterSafeMode, HooksInv
<1>4. CASE MarkSuccessful
  <2>1. at \in {"normal", "safe"} /\ at' = at /\ Save(0)
    BY <1>4 DEF MarkSuccessful, Healthy
  <2>2. request # "asked"
    BY <2>1 DEF CounterInv
  <2> QED BY <2>1, <2>2, ClearKeepsCounter DEF Waiting, HooksInv
<1>5. CASE IntervalSync \/ Reboot
  <2>1. at \in {"normal", "safe"} /\ (at' = at \/ at' = "forced") /\ Sync
    BY <1>5 DEF IntervalSync, Reboot, Healthy
  <2>2. request # "asked"
    BY <2>1 DEF CounterInv
  <2> QED BY <2>1, <2>2, SyncKeepsCounter DEF Waiting, HooksInv
<1>6. CASE PressSafeMode
  BY <1>6, PressSafeModeKeepsCounter DEF PressSafeMode, HooksInv
<1>7. CASE OnSafeShutdown \/ OnShutdown
  BY <1>7, HooksKeepCounter
<1>8. CASE Crash \/ Restarts
  <2>1. CASE ~Waiting /\ Restart
    BY <2>1, RestartKeepsCounter DEF Restart, HooksInv
  <2>2. CASE at = "boot" /\ at' = "off" /\ UNCHANGED <<prefVars, pastVars>>
    <3>1. CounterInv'
      BY <2>2, QuietStepKeepsCounter DEF Waiting
    <3> QED BY <2>2, <3>1 DEF HooksInv
  <2> QED BY <1>8, <2>1, <2>2 DEF Crash, Restarts, Waiting
<1> QED BY <1>1, <1>2, <1>3, <1>4, <1>5, <1>6, <1>7, <1>8 DEF Next, ShouldEnterSafeMode
-----------------------------------------------------------------------------
(* The teardown of the components.                                         *)

(* A component that needs more time is copied to the front, into a place   *)
(* that has been seen.                                                     *)
LEMMA KeepCopiesForward ==
  ASSUME TeardownInv, at = "teardown", next.i <= Len(pending),
         next' = [i |-> next.i + 1, keep |-> next.keep + 1],
         pending' = [pending EXCEPT ![next.keep + 1] = pending[next.i]],
         UNCHANGED <<at, rounds, ready>>
  PROVE  TeardownInv'
<1> DEFINE All == ToSet(Components)
<1>0. PICK old, i, keep, len : old = pending /\ i = next.i /\ keep = next.keep /\ len = Len(old)
  OBVIOUS
<1>1. /\ old \in Seq(All) /\ len \in Nat /\ i \in 1 .. len /\ keep \in 0 .. i - 1
      /\ DOMAIN old = 1 .. len
  BY <1>0 DEF TeardownInv
<1> HIDE DEF All
<1>2. /\ pending' = [old EXCEPT ![keep + 1] = old[i]]
      /\ pending' \in Seq(All) /\ Len(pending') = len
      /\ next'.i = i + 1 /\ next'.keep = keep + 1
      /\ next' \in [i : Nat \ {0}, keep : Nat]
  <2>1. pending' = [old EXCEPT ![keep + 1] = old[i]]
    BY <1>0
  <2>2. old[i] \in All /\ keep + 1 \in 1 .. len
    BY <1>1
  <2>3. pending' \in Seq(All) /\ Len(pending') = len
    BY <1>0, <1>1, <2>1, <2>2, ExceptSeq
  <2> QED BY <1>0, <1>1, <2>1, <2>3
<1>3. /\ Listed = {p \in 1 .. len : p <= keep \/ p >= i}
      /\ Listed' = {p \in 1 .. len : p <= keep + 1 \/ p >= i + 1}
  BY <1>0, <1>2 DEF Listed
<1> DEFINE from(p) == IF p = keep + 1 THEN i ELSE p
<1>4. ASSUME NEW p \in Listed' PROVE from(p) \in Listed /\ pending'[p] = old[from(p)]
  BY <1>1, <1>2, <1>3
<1>5. ASSUME NEW p \in Listed', NEW q \in Listed', from(p) = from(q) PROVE p = q
  BY <1>1, <1>3, <1>5
<1>6. ASSUME NEW p \in Listed PROVE \E q \in Listed' : from(q) = p
  <2>1. CASE p = i
    <3>1. keep + 1 \in 1 .. len /\ from(keep + 1) = i
      BY <1>1
    <3>2. keep + 1 \in Listed'
      BY <1>1, <1>3, <3>1
    <3> QED BY <2>1, <3>1, <3>2
  <2>2. CASE p # i
    BY <1>1, <1>3, <2>2
  <2> QED BY <2>1, <2>2
<1> HIDE DEF from
<1>7. /\ {old[p] : p \in Listed} = All \ ready
      /\ \A p, q \in Listed : old[p] = old[q] => p = q
  BY <1>0 DEF TeardownInv, All
<1>8. {pending'[p] : p \in Listed'} = All \ ready
  <2>1. {pending'[p] : p \in Listed'} = {old[p] : p \in Listed}
    BY <1>4, <1>6
  <2> QED BY <1>7, <2>1
<1>9. \A p, q \in Listed' : pending'[p] = pending'[q] => p = q
  BY <1>4, <1>5, <1>7
<1>10. next'.i <= Len(pending') + 1 /\ next'.keep < next'.i
  BY <1>1, <1>2
<1> QED BY <1>2, <1>8, <1>9, <1>10 DEF TeardownInv, All

(* One that is ready is not copied.                                        *)
LEMMA ReadyIsPassedOver ==
  ASSUME TeardownInv, at = "teardown", next.i <= Len(pending),
         next' = [next EXCEPT !.i = @ + 1],
         ready' = ready \cup {pending[next.i]},
         UNCHANGED <<at, rounds, pending>>
  PROVE  TeardownInv'
<1> DEFINE All == ToSet(Components)
<1>0. PICK i, keep, len : i = next.i /\ keep = next.keep /\ len = Len(pending)
  OBVIOUS
<1>1. /\ pending \in Seq(All) /\ len \in Nat /\ i \in 1 .. len /\ keep \in 0 .. i - 1
      /\ pending[i] \in All
  BY <1>0 DEF TeardownInv
<1> HIDE DEF All
<1>2. /\ next'.i = i + 1 /\ next'.keep = keep /\ next' \in [i : Nat \ {0}, keep : Nat]
  BY <1>0, <1>1 DEF TeardownInv
<1>3. /\ Listed = {p \in 1 .. len : p <= keep \/ p >= i}
      /\ Listed' = {p \in 1 .. len : p <= keep \/ p >= i + 1}
  BY <1>0, <1>2 DEF Listed
<1>4. Listed' = Listed \ {i} /\ i \in Listed
  BY <1>1, <1>3
<1>5. /\ {pending[p] : p \in Listed} = All \ ready
      /\ \A p, q \in Listed : pending[p] = pending[q] => p = q
  BY DEF TeardownInv, All
<1>6. ready' = ready \cup {pending[i]} /\ pending' = pending
  BY <1>0
<1>7. {pending'[p] : p \in Listed'} = All \ ready'
  BY <1>4, <1>5, <1>6
<1>8. \A p, q \in Listed' : pending'[p] = pending'[q] => p = q
  BY <1>4, <1>5, <1>6
<1>9. ready' \subseteq All
  BY <1>1, <1>6 DEF TeardownInv, All
<1>10. next'.i <= Len(pending') + 1 /\ next'.keep < next'.i
  BY <1>0, <1>1, <1>2, <1>6
<1> QED BY <1>2, <1>6, <1>7, <1>8, <1>9, <1>10 DEF TeardownInv, All

(* Then the copies are what is left.                                       *)
LEMMA EndRoundKeepsTeardown ==
  ASSUME TeardownInv, EndRound
  PROVE  TeardownInv'
<1> DEFINE All == ToSet(Components)
<1>0. PICK old, keep, len : old = pending /\ keep = next.keep /\ len = Len(old)
  OBVIOUS
<1>1. /\ old \in Seq(All) /\ len \in Nat /\ next.i = len + 1 /\ keep \in 0 .. len
      /\ at = "teardown"
      /\ \A p \in 1 .. keep : old[p] \in All
  BY <1>0 DEF TeardownInv, EndRound
<1> HIDE DEF All
<1>2. /\ pending' = SubSeq(old, 1, keep)
      /\ next' = [i |-> 1, keep |-> 0] /\ rounds' = rounds + 1 /\ ready' = ready
      /\ at' \in {"teardown", "powerdown"}
      /\ at' = "teardown" => rounds' # TeardownRounds
  BY <1>0, <1>1 DEF EndRound
<1>3. /\ pending' \in Seq(All) /\ Len(pending') = keep
      /\ \A p \in 1 .. keep : pending'[p] = old[p]
  BY <1>1, <1>2, SubSeqProperties
<1>4. Listed = 1 .. keep
  BY <1>0, <1>1 DEF Listed
<1>5. Listed' = 1 .. keep
  BY <1>1, <1>2, <1>3 DEF Listed
<1>6. /\ {old[p] : p \in 1 .. keep} = All \ ready
      /\ \A p, q \in 1 .. keep : old[p] = old[q] => p = q
  BY <1>0, <1>1, <1>4 DEF TeardownInv, All
<1>7. /\ {pending'[p] : p \in Listed'} = All \ ready'
      /\ \A p, q \in Listed' : pending'[p] = pending'[q] => p = q
  BY <1>2, <1>3, <1>5, <1>6
<1>8. /\ rounds' \in 0 .. TeardownRounds
      /\ at' = "teardown" => rounds' < TeardownRounds
  BY <1>1, <1>2, TeardownAssumption DEF TeardownInv
<1>9. /\ next' \in [i : Nat \ {0}, keep : Nat]
      /\ next'.i <= Len(pending') + 1 /\ next'.keep < next'.i
  BY <1>1, <1>2, <1>3
<1> QED BY <1>2, <1>3, <1>7, <1>8, <1>9 DEF TeardownInv, All

(* The first round goes over all the components, from the last one on.     *)
LEMMA OnShutdownKeepsTeardown ==
  ASSUME TeardownInv, OnShutdown
  PROVE  TeardownInv'
<1> DEFINE All == ToSet(Components)
           len == Len(Components)
<1>1. Components \in Seq(All) /\ len \in Nat /\ DOMAIN Components = 1 .. len
  BY ComponentsAssumption
<1>2. /\ pending' = [p \in 1 .. len |-> Components[len - p + 1]]
      /\ next' = [i |-> 1, keep |-> 0] /\ rounds' = 0 /\ ready' = {} /\ at' = "teardown"
  BY DEF OnShutdown, TeardownInv, Reverse
<1>3. \A p \in 1 .. len : len - p + 1 \in 1 .. len /\ len - (len - p + 1) + 1 = p
  BY <1>1
<1>4. pending' \in Seq(All) /\ Len(pending') = len
  <2> HIDE DEF All, len
  <2>1. \A p \in 1 .. len : Components[len - p + 1] \in All
    BY <1>1, <1>3
  <2> QED BY <1>1, <1>2, <2>1
<1>5. Listed' = 1 .. len
  BY <1>1, <1>2, <1>4 DEF Listed
<1>6. {pending'[p] : p \in Listed'} = All
  <2>1. All = {Components[n] : n \in 1 .. len}
    BY <1>1 DEF ToSet
  <2> HIDE DEF All, len
  <2>2. ASSUME NEW p \in 1 .. len PROVE pending'[p] \in All
    BY <1>2, <1>3, <2>1
  <2>3. ASSUME NEW n \in 1 .. len PROVE \E p \in 1 .. len : pending'[p] = Components[n]
    <3>1. PICK p \in 1 .. len : p = len - n + 1 /\ len - p + 1 = n
      BY <1>1, <1>3
    <3>2. pending'[p] = Components[n]
      BY <1>2, <3>1
    <3> QED BY <3>2
  <2>4. {pending'[p] : p \in Listed'} \subseteq All
    BY <1>5, <2>2
  <2>5. All \subseteq {pending'[p] : p \in Listed'}
    BY <1>5, <2>1, <2>3
  <2> QED BY <2>4, <2>5
<1>7. ASSUME NEW p \in Listed', NEW q \in Listed', pending'[p] = pending'[q] PROVE p = q
  <2>1. len - p + 1 = len - q + 1
    BY <1>1, <1>2, <1>3, <1>5, <1>7, ComponentsAssumption
  <2> QED BY <1>1, <1>5, <2>1
<1>8. /\ next' \in [i : Nat \ {0}, keep : Nat] /\ rounds' < TeardownRounds
      /\ next'.i <= Len(pending') + 1 /\ next'.keep < next'.i
      /\ rounds' \in 0 .. TeardownRounds
  BY <1>1, <1>2, <1>4, TeardownAssumption
<1> QED BY <1>2, <1>4, <1>6, <1>7, <1>8 DEF TeardownInv

LEMMA StepKeepsTeardown ==
  ASSUME TeardownInv, [Next]_vars
  PROVE  TeardownInv'
<1>1. CASE Teardown
  BY <1>1, KeepCopiesForward, ReadyIsPassedOver DEF Teardown
<1>2. CASE EndRound
  BY <1>2, EndRoundKeepsTeardown
<1>3. CASE OnShutdown
  BY <1>3, OnShutdownKeepsTeardown
<1>4. CASE /\ UNCHANGED teardownVars /\ at \notin {"teardown", "powerdown"}
           /\ at' \notin {"teardown", "powerdown"}
  <2>1. UNCHANGED <<pending, next, rounds, ready>>
    BY <1>4 DEF teardownVars
  <2> QED BY <1>4, <2>1 DEF TeardownInv
<1>5. CASE Restart
  <2>1. /\ at' = "off" /\ pending' = <<>> /\ next' = [i |-> 1, keep |-> 0]
        /\ rounds' = 0 /\ ready' = {}
    BY <1>5 DEF Restart
  <2> QED BY <2>1, TeardownAssumption DEF TeardownInv
<1>6. CASE Bootloader \/ ShouldEnterSafeMode \/ MarkSuccessful \/ IntervalSync \/ PressSafeMode
  BY <1>4, <1>6 DEF Bootloader, ShouldEnterSafeMode, CountBoot, EnterSafeMode, MarkSuccessful,
                    IntervalSync, PressSafeMode, Healthy
<1>7. CASE OtaBegin \/ OtaWrite \/ OtaEnd \/ OtaAbort \/ Reboot \/ SafeReboot \/ OnSafeShutdown
  BY <1>4, <1>7 DEF OtaBegin, OtaWrite, OtaEnd, OtaAbort, Reboot, SafeReboot, OnSafeShutdown, Healthy
<1>8. CASE Crash \/ Restarts
  BY <1>4, <1>5, <1>8 DEF Crash, Restarts
<1>9. CASE UNCHANGED vars
  <2>1. UNCHANGED <<at, pending, next, rounds, ready>>
    BY <1>9 DEF vars, teardownVars
  <2>2. Listed' = Listed
    BY <2>1 DEF Listed
  <2> QED BY <2>1, <2>2 DEF TeardownInv
<1> QED BY <1>1, <1>2, <1>3, <1>6, <1>7, <1>8, <1>9 DEF Next
-----------------------------------------------------------------------------
(* The invariant.                                                          *)

LEMMA InitHolds == Init => IInv
<1> SUFFICES ASSUME Init PROVE IInv
  OBVIOUS
<1> USE NumberFact, TeardownAssumption, BoundAssumption DEF Init
<1>1. ImageInv /\ RanInv
  <2>1. "A" \in Slots /\ running = "A"
    BY DEF Slots
  <2> QED BY <2>1 DEF ImageInv, RanInv, Bootable, Slots
<1>2. CounterInv /\ HooksInv
  <2>1. flash # ENTER_SAFE_MODE_MAGIC
    OBVIOUS
  <2>2. Waiting /\ ~proved /\ proved \in BOOLEAN
    BY DEF Waiting
  <2>3. flash = IF Waiting THEN failures ELSE CountedBoots
    BY <2>2
  <2>4. flash \in 0 .. NumAttempts \cup {ENTER_SAFE_MODE_MAGIC} /\ failures \in 0 .. NumAttempts
    OBVIOUS
  <2>5. CounterInv
    BY <2>1, <2>2, <2>3, <2>4 DEF CounterInv
  <2> QED BY <2>5 DEF HooksInv
<1>3. TeardownInv
  BY DEF TeardownInv
<1> QED BY <1>1, <1>2, <1>3 DEF IInv, Places

LEMMA StepKeeps == IInv /\ [Next]_vars => IInv'
<1> SUFFICES ASSUME IInv, [Next]_vars PROVE IInv'
  OBVIOUS
<1>1. ImageInv' /\ RanInv'
  BY StepKeepsImages DEF IInv
<1>2. CounterInv' /\ HooksInv'
  BY StepKeepsCounter DEF IInv
<1>3. TeardownInv'
  BY StepKeepsTeardown DEF IInv
<1>4. at' \in Places /\ updates' \in 0 .. MaxUpdates
  <2> USE BoundAssumption DEF IInv, Places
  <2>1. CASE Bootloader \/ OtaBegin
    BY <2>1 DEF Bootloader, OtaBegin
  <2>2. CASE at' \in Places /\ updates' = updates
    BY <2>2
  <2>3. CASE ShouldEnterSafeMode \/ MarkSuccessful \/ IntervalSync \/ PressSafeMode
             \/ OtaWrite \/ OtaEnd \/ OtaAbort \/ Crash \/ Restarts
    BY <2>2, <2>3 DEF ShouldEnterSafeMode, CountBoot, EnterSafeMode, MarkSuccessful, IntervalSync,
                PressSafeMode, OtaWrite, OtaEnd, OtaAbort, Crash, Restarts, Restart, ConfirmAppImage, imageVars
  <2>4. CASE Reboot \/ SafeReboot \/ OnSafeShutdown \/ OnShutdown \/ Teardown \/ EndRound
             \/ UNCHANGED vars
    BY <2>2, <2>4 DEF Reboot, SafeReboot, OnSafeShutdown, OnShutdown, Teardown, EndRound, vars,
                ConfirmAppImage, imageVars
  <2> QED BY <2>1, <2>3, <2>4 DEF Next
<1> QED BY <1>1, <1>2, <1>3, <1>4 DEF IInv

LEMMA Invariant == Spec => []IInv
  BY InitHolds, StepKeeps, PTL DEF Spec

(* Every variable keeps its type: the counter in flash and the one in RAM  *)
(* are counts of boots or the mark of a request, and nothing else.         *)
THEOREM TypeCorrect == Spec => []TypeOK
<1>1. IInv => TypeOK
  <2> SUFFICES ASSUME IInv PROVE TypeOK
    OBVIOUS
  <2>1. Cardinality(unsynced) <= 1
    <3>1. Cardinality({}) = 0 /\ Cardinality({0}) = 1
      BY FS_EmptySet, FS_Singleton
    <3> QED BY <3>1 DEF IInv, CounterInv
  <2>2. ToSet(pending) \subseteq ToSet(Components)
    BY DEF IInv, TeardownInv, ToSet
  <2>3. {flash} \cup unsynced \subseteq 0 .. NumAttempts \cup {ENTER_SAFE_MODE_MAGIC}
    BY NumberFact DEF IInv, CounterInv
  <2> QED BY <2>1, <2>2, <2>3
          DEF IInv, TypeOK, Places, ImageInv, RanInv, CounterInv, TeardownInv
<1> QED BY <1>1, Invariant, PTL

(* Whatever is erased, selected, confirmed or given up, and wherever the   *)
(* device crashes, there is an image to start.                             *)
THEOREM AlwaysFindsAnImage == Spec => []AlwaysBootable
<1>1. IInv => AlwaysBootable
  BY SelectedFact DEF IInv, AlwaysBootable
<1> QED BY <1>1, Invariant, PTL

(* An update keeps its protection by rollback until it has run: what the   *)
(* next boot would start without a trial has been started before, unless   *)
(* begin() of a further update in the same boot has marked it.  That is    *)
(* the one way: safe mode, refusals, crashes and rollbacks are none.       *)
THEOREM ConfirmedImagesHaveRun == Spec => []ConfirmedHasRunUnlessEarly
<1>1. IInv => ConfirmedHasRunUnlessEarly
  <2> SUFFICES ASSUME ImageInv, RanInv, ~early, verdict[Selected] = "valid"
               PROVE  Selected \in ran
    BY DEF IInv, ConfirmedHasRunUnlessEarly, ConfirmedHasRun
  <2>1. PICK S : S = Selected
    OBVIOUS
  <2>2. /\ S \in Slots /\ boot \in Slots /\ running \in Slots
        /\ S = boot \/ (S = Other(boot) /\ (verdict[boot] = "pending" \/ ~Bootable(boot)))
    BY <2>1, SelectedFact DEF Selected, ImageInv
  <2>3. CASE boot = running
    BY <2>1, <2>2, <2>3 DEF ImageInv, RanInv
  <2>4. CASE boot # running
    <3>1. S # boot
      BY <2>1, <2>4 DEF RanInv
    <3>2. S = running
      BY <2>2, <2>4, <3>1, OtherFact
    <3> QED BY <2>1, <3>2 DEF RanInv
  <2> QED BY <2>3, <2>4
<1> QED BY <1>1, Invariant, PTL

(* The compaction in place of teardown_components() loses no component and *)
(* doubles none, however many there are and whichever need more rounds.    *)
THEOREM TeardownListIsExact == Spec => []PendingIsExact
<1>1. IInv => PendingIsExact
  <2> SUFFICES ASSUME IInv, at = "teardown", next.i = 1
               PROVE  /\ ToSet(pending) = ToSet(Components) \ ready
                      /\ Len(pending) = Cardinality(ToSet(pending))
    BY DEF PendingIsExact
  <2>1. Listed = 1 .. Len(pending) /\ DOMAIN pending = 1 .. Len(pending)
    BY DEF IInv, TeardownInv, Listed
  <2>2. ToSet(pending) = ToSet(Components) \ ready
    BY <2>1 DEF ToSet, IInv, TeardownInv
  <2>3. pending \in Bijection(1 .. Len(pending), ToSet(pending))
    <3>1. pending \in [1 .. Len(pending) -> ToSet(pending)]
      BY <2>1 DEF IInv, TeardownInv, ToSet
    <3>2. \A p, q \in 1 .. Len(pending) : pending[p] = pending[q] => p = q
      BY <2>1 DEF IInv, TeardownInv
    <3>3. \A e \in ToSet(pending) : \E p \in 1 .. Len(pending) : pending[p] = e
      BY <2>1 DEF ToSet
    <3> QED BY <3>1, <3>2, <3>3 DEF Bijection, Injection, Surjection, IsInjective
  <2>4. Cardinality(ToSet(pending)) = Len(pending)
    BY <2>3, FS_CountingElements DEF ExistsBijection, IInv, TeardownInv
  <2> QED BY <2>2, <2>4
<1> QED BY <1>1, Invariant, PTL

(* Safe mode comes neither early nor late, however saves, syncs, crashes   *)
(* and requests are interleaved: for every number of attempts.             *)
THEOREM SafeModeComesWhenDue == Spec => SafeModeExactlyWhenDue
<1>1. IInv /\ [Next]_vars =>
        [at = "boot" /\ at' \in {"normal", "safe"} =>
           (at' = "safe" <=> request # "none" \/ failures = NumAttempts)]_vars
  <2> SUFFICES ASSUME IInv, Next, at = "boot", at' \in {"normal", "safe"}
               PROVE  at' = "safe" <=> request # "none" \/ failures = NumAttempts
    OBVIOUS
  <2>1. CountBoot \/ EnterSafeMode
    BY DEF Next, Bootloader, ShouldEnterSafeMode, MarkSuccessful, IntervalSync, PressSafeMode,
           OtaBegin, OtaWrite, OtaEnd, OtaAbort, Crash, Restart, Reboot, SafeReboot, OnSafeShutdown,
           OnShutdown, Teardown, EndRound, Restarts, Healthy
  <2>2. CASE CountBoot
    BY <2>2, CountBootKeepsCounter DEF CountBoot, IInv, CounterInv
  <2>3. CASE EnterSafeMode
    BY <2>3, EnterSafeModeKeepsCounter DEF EnterSafeMode, IInv, CounterInv
  <2> QED BY <2>1, <2>2, <2>3
<1> QED BY <1>1, Invariant, PTL DEF Spec, SafeModeExactlyWhenDue

(* After the hooks flash holds a request for safe mode or a cleared        *)
(* counter, and nothing else.                                              *)
THEOREM RestartIsClean == Spec => OrderlyRestartIsClean
<1>1. IInv /\ [Next]_vars =>
        [at = "powerdown" /\ at' = "off" =>
           flash = IF request = "asked" THEN ENTER_SAFE_MODE_MAGIC ELSE 0]_vars
  BY DEF IInv, CounterInv, HooksInv
<1> QED BY <1>1, Invariant, PTL DEF Spec, OrderlyRestartIsClean
=============================================================================
