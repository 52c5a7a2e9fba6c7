----------------------------- MODULE Lifecycle -----------------------------
(***************************************************************************)
(* From one start of the device to the next: the boot counter of           *)
(* components/safe_mode, the preference that keeps it (a save is held in   *)
(* RAM until a sync writes it to flash), the two application images of an  *)
(* ESP32 with USE_OTA_ROLLBACK, and the orderly restart of                 *)
(* core/application.cpp with its hooks and the teardown of components.     *)
(* The device may crash between any two steps and then keeps what is in    *)
(* flash only.  The bootloader is not part of the repository: Bootloader   *)
(* is modelled from what safe_mode.cpp and ota_backend_esp_idf.cpp rely    *)
(* on.  An image that is broken crashes before its boot is good.           *)
(***************************************************************************)
EXTENDS Integers, FiniteSets, Sequences, SequencesExt

CONSTANTS
    NumAttempts,     \* safe_mode_num_attempts_
    Components,      \* components_, in the order of their setup priority
    TeardownRounds,  \* rounds of teardown() that fit in TEARDOWN_TIMEOUT_REBOOT_MS
    MaxUpdates       \* bounds the updates begun in one boot

ASSUME AttemptsAssumption == NumAttempts \in 1 .. 255
ASSUME TeardownAssumption == TeardownRounds \in Nat \ {0}
\* Every component registers itself once (register_component_impl_()).
ASSUME ComponentsAssumption ==
    /\ Components \in Seq(ToSet(Components))
    /\ \A m, n \in DOMAIN Components : Components[m] = Components[n] => m = n
ASSUME BoundAssumption == MaxUpdates \in Nat

Slots == {"A", "B"}
Other(s) == CHOOSE o \in Slots : o # s
ENTER_SAFE_MODE_MAGIC == 1526618878  \* 0x5afe5afe

VARIABLES
    at,          \* where the device is
    flash,       \* the counter in flash
    unsynced,    \* the counter saved and not yet synced: none or one value
    running,     \* the slot of the running image
    boot,        \* the slot selected for the next boot
    image,       \* each slot's image: empty, working or broken
    verdict,     \* each slot's state: valid, new, pending (verify) or aborted
    updates,     \* updates begun in this boot
    writing,     \* an update of the other slot: no, begun, or erased and being written
    pending,     \* pending_components and pending_count of teardown_components()
    next,        \* i and still_pending of its inner loop
    rounds,      \* rounds of it so far
    ready,       \* components whose teardown() has returned true
    \* What has happened, for the properties.
    ran,         \* slots whose image has been started
    early,       \* in this boot begin() has confirmed an update that has not run
    request,     \* safe mode was asked for, then entered; none once flash knows
    proved,      \* in this boot a cleared counter has reached flash
    failures     \* boots in a row that ended without one, NumAttempts when more

prefVars     == <<flash, unsynced>>
imageVars    == <<running, boot, image, verdict, updates, writing, ran, early>>
teardownVars == <<pending, next, rounds, ready>>
pastVars     == <<request, proved, failures>>
vars == <<at, prefVars, imageVars, teardownVars, pastVars>>

Init ==
    /\ at = "off" /\ flash = 0 /\ unsynced = {}
    /\ running = "A" /\ boot = "A"
    /\ image = [s \in Slots |-> IF s = "A" THEN "working" ELSE "empty"]
    /\ verdict = [s \in Slots |-> IF s = "A" THEN "valid" ELSE "aborted"]
    /\ updates = 0 /\ writing = "no" /\ early = FALSE
    /\ pending = <<>> /\ next = [i |-> 1, keep |-> 0] /\ rounds = 0 /\ ready = {}
    /\ ran = {"A"} /\ request = "none" /\ proved = FALSE /\ failures = 0

-----------------------------------------------------------------------------
(* Preferences: a save replaces the pending one, a load looks there first. *)

Load == IF unsynced = {} THEN flash ELSE CHOOSE v \in unsynced : TRUE
Save(v) == unsynced' = {v} /\ UNCHANGED <<flash, pastVars>>

\* The properties' history: what a sync puts in flash proves the boot or
\* carries the request.
Sync ==
    /\ flash' = Load /\ unsynced' = {}
    /\ proved' = (proved \/ unsynced = {0})
    /\ request' = IF request = "entered" /\ unsynced = {0} THEN "none" ELSE request
    /\ UNCHANGED failures

\* A save and a sync of a value that is not a cleared counter.
WriteRtc(v) ==
    /\ flash' = v /\ unsynced' = {}
    /\ request' = IF v = ENTER_SAFE_MODE_MAGIC THEN "asked" ELSE request
    /\ UNCHANGED <<proved, failures>>

-----------------------------------------------------------------------------
(* Starting.                                                               *)

Bootable(s) == image[s] # "empty" /\ verdict[s] # "aborted"

\* A new image is tried once: found pending at the next start, it is given up.
Selected == IF verdict[boot] = "pending" \/ ~Bootable(boot) THEN Other(boot) ELSE boot

Bootloader ==
    /\ at = "off" /\ Bootable(Selected) /\ at' = "boot"
    /\ running' = Selected /\ boot' = Selected
    /\ verdict' = [s \in Slots |-> IF s = Selected /\ verdict[s] = "new" THEN "pending"
                                   ELSE IF s = boot /\ verdict[s] = "pending" THEN "aborted"
                                   ELSE verdict[s]]
    /\ ran' = ran \cup {Selected}
    /\ updates' = 0 /\ writing' = "no" /\ early' = FALSE
    /\ UNCHANGED <<prefVars, teardownVars, pastVars, image>>

\* Mutant: one attempt more.
CountBoot_OneMore ==
    /\ at = "boot" /\ Load <= NumAttempts /\ Load # ENTER_SAFE_MODE_MAGIC
    /\ at' = "normal" /\ WriteRtc(Load + 1)
    /\ UNCHANGED <<imageVars, teardownVars>>

\* Mutant: the count is saved without a sync.
CountBoot_Unsynced ==
    /\ at = "boot" /\ Load < NumAttempts /\ Load # ENTER_SAFE_MODE_MAGIC
    /\ at' = "normal" /\ Save(Load + 1)
    /\ UNCHANGED <<imageVars, teardownVars>>

\* should_enter_safe_mode() counts the boot...
CountBoot ==
    /\ at = "boot" /\ Load < NumAttempts /\ Load # ENTER_SAFE_MODE_MAGIC
    /\ at' = "normal" /\ WriteRtc(Load + 1)
    /\ UNCHANGED <<imageVars, teardownVars>>

\* ... or enters safe mode, clearing the counter.  A device that has a second
\* slot to update does not go on to the branch that starts a recovery app.
EnterSafeMode ==
    /\ at = "boot" /\ (Load >= NumAttempts \/ Load = ENTER_SAFE_MODE_MAGIC)
    /\ at' = "safe" /\ unsynced' = {0}
    /\ request' = IF request = "asked" THEN "entered" ELSE request
    /\ UNCHANGED <<flash, proved, failures, imageVars, teardownVars>>

ShouldEnterSafeMode == CountBoot \/ EnterSafeMode

-----------------------------------------------------------------------------
(* Running.                                                                *)

Healthy == at = "safe" \/ (at = "normal" /\ image[running] = "working")

\* Mutant: whatever is selected for the next boot is confirmed.
ConfirmAppImage_Selected ==
    /\ verdict' = [verdict EXCEPT ![boot] = "valid"]
    /\ UNCHANGED <<running, boot, image, updates, writing, ran, early>>

\* confirm_app_image_(): only the running image, not one an update has just
\* selected.
ConfirmAppImage ==
    /\ verdict' = IF running = boot THEN [verdict EXCEPT ![boot] = "valid"] ELSE verdict
    /\ UNCHANGED <<running, boot, image, updates, writing, ran, early>>

\* boot_is_good_after has passed, or the mark_successful action runs.
MarkSuccessful ==
    /\ Healthy /\ Save(0) /\ ConfirmAppImage
    /\ UNCHANGED <<at, teardownVars>>

\* IntervalSyncer::update().
IntervalSync ==
    /\ Healthy /\ unsynced # {} /\ Sync
    /\ UNCHANGED <<at, imageVars, teardownVars>>

\* The safe mode button or switch: set_safe_mode_pending(true), safe_reboot().
PressSafeMode ==
    /\ Healthy /\ at' = "safe_shutdown"
    /\ IF Load # ENTER_SAFE_MODE_MAGIC THEN WriteRtc(ENTER_SAFE_MODE_MAGIC)
       ELSE UNCHANGED <<prefVars, pastVars>>
    /\ UNCHANGED <<imageVars, teardownVars>>

\* Mutant: the selected image stays unconfirmed.
OtaBegin_Unconfirmed ==
    /\ Healthy /\ writing = "no" /\ updates < MaxUpdates
    /\ writing' \in {"no", "begun"} /\ updates' = updates + 1
    /\ UNCHANGED <<at, running, boot, image, verdict, ran, early, prefVars, teardownVars,
                   pastVars>>

\* IDFOTABackend::begin(): the selected image is marked valid, be it the one
\* that runs or an update that has not run yet.  Nothing is erased; begin() may
\* fail after the mark, or open the update.
OtaBegin ==
    /\ Healthy /\ writing = "no" /\ updates < MaxUpdates
    /\ verdict' = [verdict EXCEPT ![boot] = "valid"]
    /\ early' = (boot # running)
    /\ writing' \in {"no", "begun"} /\ updates' = updates + 1
    /\ UNCHANGED <<at, running, boot, image, ran, prefVars, teardownVars, pastVars>>

\* IDFOTABackend::write(): the first one erases; an image that is written in
\* part cannot be started; the last one completes it, and it may be broken.
OtaWrite ==
    /\ Healthy
    /\ \/ /\ writing = "begun" /\ writing' = "erased"
          /\ image' = [image EXCEPT ![Other(running)] = "empty"]
          /\ ran' = ran \ {Other(running)}
       \/ /\ writing = "erased" /\ image[Other(running)] = "empty"
          /\ \E made \in {"working", "broken"} :
                 image' = [image EXCEPT ![Other(running)] = made]
          /\ UNCHANGED <<writing, ran>>
    /\ UNCHANGED <<at, running, boot, verdict, updates, early, prefVars, teardownVars,
                   pastVars>>

\* IDFOTABackend::end() of a complete image: it is selected, or refused and
\* left where it is.  With an incomplete one end() is an abort.
OtaEnd ==
    /\ Healthy /\ writing = "erased" /\ image[Other(running)] # "empty"
    /\ writing' = "no"
    /\ \/ /\ verdict' = [verdict EXCEPT ![Other(running)] = "new"]
          /\ boot' = Other(running) /\ early' = FALSE
       \/ UNCHANGED <<verdict, boot, early>>
    /\ UNCHANGED <<at, running, image, updates, ran, prefVars, teardownVars, pastVars>>

\* The other slot stays as it is: before the first write it has its old image.
OtaAbort ==
    /\ Healthy /\ writing # "no" /\ writing' = "no"
    /\ UNCHANGED <<at, running, boot, image, verdict, updates, ran, early, prefVars,
                   teardownVars, pastVars>>

\* What is only in RAM is gone, and so is the boot if its counter was not
\* cleared in flash.
Restart ==
    /\ at' = "off" /\ unsynced' = {} /\ proved' = FALSE
    /\ failures' = IF proved THEN 0
                   ELSE IF failures < NumAttempts THEN failures + 1 ELSE failures
    /\ pending' = <<>> /\ next' = [i |-> 1, keep |-> 0] /\ rounds' = 0 /\ ready' = {}
    /\ UNCHANGED <<flash, imageVars, request>>

\* A crash or a loss of power.  A boot that has not been counted yet does not
\* count as a failure.
Crash ==
    \/ at \notin {"off", "boot"} /\ Restart
    \/ at = "boot" /\ at' = "off"
       /\ UNCHANGED <<prefVars, imageVars, teardownVars, pastVars>>

-----------------------------------------------------------------------------
(* Restarting in order.                                                    *)

\* reboot(): the timeouts of safe mode, Wi-Fi, MQTT and the API.  The
\* preferences are synced by on_shutdown().
Reboot ==
    /\ Healthy /\ at' = "forced" /\ Sync
    /\ UNCHANGED <<imageVars, teardownVars>>

\* safe_reboot(): a restart button or the end of an update.
SafeReboot ==
    /\ Healthy /\ at' = "safe_shutdown"
    /\ UNCHANGED <<prefVars, imageVars, teardownVars, pastVars>>

\* Mutant: the counter is cleared whatever it holds.
OnSafeShutdown_AlwaysClears ==
    /\ at = "safe_shutdown" /\ at' = "shutdown"
    /\ Save(0)
    /\ ConfirmAppImage /\ UNCHANGED teardownVars

OnSafeShutdown ==
    /\ at = "safe_shutdown" /\ at' = "shutdown"
    /\ IF Load # ENTER_SAFE_MODE_MAGIC THEN Save(0)
       ELSE UNCHANGED <<prefVars, pastVars>>
    /\ ConfirmAppImage /\ UNCHANGED teardownVars

OnShutdown ==
    /\ at = "shutdown" /\ at' = "teardown" /\ Sync
    /\ pending' = Reverse(Components) /\ next' = [i |-> 1, keep |-> 0]
    /\ UNCHANGED <<imageVars, rounds, ready>>

\* Mutant: the component is counted but not copied forward.
Teardown_NoCopy ==
    /\ at = "teardown" /\ next.i <= Len(pending)
    /\ \/ next' = [i |-> next.i + 1, keep |-> next.keep + 1] /\ UNCHANGED ready
       \/ /\ next' = [next EXCEPT !.i = @ + 1]
          /\ ready' = ready \cup {pending[next.i]}
    /\ UNCHANGED <<at, prefVars, imageVars, pastVars, pending, rounds>>

\* One call of the inner loop: a component that needs more time is copied
\* forward.
Teardown ==
    /\ at = "teardown" /\ next.i <= Len(pending)
    /\ \/ /\ next' = [i |-> next.i + 1, keep |-> next.keep + 1]
          /\ pending' = [pending EXCEPT ![next.keep + 1] = pending[next.i]]
          /\ UNCHANGED ready
       \/ /\ next' = [next EXCEPT !.i = @ + 1]
          /\ ready' = ready \cup {pending[next.i]}
          /\ UNCHANGED pending
    /\ UNCHANGED <<at, prefVars, imageVars, pastVars, rounds>>

\* Mutant: no deadline.
EndRound_NoDeadline ==
    /\ at = "teardown" /\ next.i > Len(pending)
    /\ pending' = SubSeq(pending, 1, next.keep)
    /\ next' = [i |-> 1, keep |-> 0]
    /\ rounds' = IF rounds < TeardownRounds THEN rounds + 1 ELSE rounds
    /\ at' = IF next.keep = 0 THEN "powerdown" ELSE at
    /\ UNCHANGED <<prefVars, imageVars, pastVars, ready>>

\* pending_count = still_pending, and the loop's condition: the deadline comes
\* after some number of rounds.
EndRound ==
    /\ at = "teardown" /\ next.i > Len(pending)
    /\ pending' = SubSeq(pending, 1, next.keep)
    /\ next' = [i |-> 1, keep |-> 0]
    /\ rounds' = rounds + 1
    /\ at' = IF next.keep = 0 \/ rounds' = TeardownRounds THEN "powerdown" ELSE at
    /\ UNCHANGED <<prefVars, imageVars, pastVars, ready>>

\* arch_restart().
Restarts == at \in {"powerdown", "forced"} /\ Restart

Next ==
    \/ Bootloader \/ ShouldEnterSafeMode
    \/ MarkSuccessful \/ IntervalSync \/ PressSafeMode
    \/ OtaBegin \/ OtaWrite \/ OtaEnd \/ OtaAbort
    \/ Crash \/ Reboot \/ SafeReboot
    \/ OnSafeShutdown \/ OnShutdown \/ Teardown \/ EndRound \/ Restarts

Spec == Init /\ [][Next]_vars

\* The bootloader starts the device, and again and again it gets as far as
\* the check; a broken image does crash; an orderly restart goes on.
FairSpec ==
    /\ Spec
    /\ WF_vars(Bootloader) /\ SF_vars(ShouldEnterSafeMode)
    /\ WF_vars(at = "normal" /\ image[running] = "broken" /\ Crash)
    /\ WF_vars(OnSafeShutdown \/ OnShutdown \/ Teardown \/ EndRound \/ Restarts)

-----------------------------------------------------------------------------
(* Properties.                                                             *)

TypeOK ==
    /\ at \in {"off", "boot", "normal", "safe", "safe_shutdown", "shutdown", "teardown",
               "powerdown", "forced"}
    /\ {flash} \cup unsynced \subseteq 0 .. NumAttempts \cup {ENTER_SAFE_MODE_MAGIC}
    /\ Cardinality(unsynced) <= 1
    /\ running \in Slots /\ boot \in Slots /\ ran \subseteq Slots
    /\ image \in [Slots -> {"empty", "working", "broken"}]
    /\ verdict \in [Slots -> {"valid", "new", "pending", "aborted"}]
    /\ updates \in 0 .. MaxUpdates /\ writing \in {"no", "begun", "erased"} /\ early \in BOOLEAN
    /\ rounds \in 0 .. TeardownRounds
    /\ request \in {"none", "asked", "entered"} /\ failures \in 0 .. NumAttempts
    /\ ready \subseteq ToSet(Components) /\ ToSet(pending) \subseteq ToSet(Components)

\* Whatever is erased, selected or given up, and wherever a crash cuts an update
\* short, the bootloader finds an image to start.
AlwaysBootable == Bootable(Selected)

\* The image that the next boot will start is on trial, or has been started before.
ConfirmedHasRun == verdict[Selected] = "valid" => Selected \in ran

\* An update keeps its protection by rollback until it has run (safe_mode.cpp:129-132),
\* whatever safe mode confirms and whatever crashes, updates, refusals and orderly
\* restarts come between; except where begin() of a further update has, in the same
\* boot, marked an update that was waiting for its first start.
ConfirmedHasRunUnlessEarly == ~early => ConfirmedHasRun

\* Safe mode is entered exactly when it was asked for or when NumAttempts boots in a
\* row ended before a cleared counter reached flash, whatever was only saved in RAM.
SafeModeExactlyWhenDue ==
    [][at = "boot" /\ at' \in {"normal", "safe"} =>
           (at' = "safe" <=> request # "none" \/ failures = NumAttempts)]_vars

\* A restart that ran its hooks to the end leaves no failed boot behind, and keeps a
\* request for safe mode: on_safe_shutdown()'s save is synced by on_shutdown().
OrderlyRestartIsClean ==
    [][at = "powerdown" /\ at' = "off" =>
           flash = IF request = "asked" THEN ENTER_SAFE_MODE_MAGIC ELSE 0]_vars

\* Between two rounds of teardown the array lists the components that are not ready,
\* each once: the compaction in place forgets none and asks none again.
PendingIsExact ==
    at = "teardown" /\ next.i = 1 =>
        /\ ToSet(pending) = ToSet(Components) \ ready
        /\ Len(pending) = Cardinality(ToSet(pending))

\* A device that runs a broken image gets out of it: the bootloader goes back to the
\* other image, or the boots are counted until safe mode is entered.
BrokenImageIsLeft ==
    at = "normal" /\ image[running] = "broken" ~>
        at = "safe" \/ (at = "normal" /\ image[running] = "working")

\* An orderly restart ends in a restart, whatever the components' teardown() say.
RestartComes == at = "safe_shutdown" ~> at = "off"

=============================================================================
