# A TLA+ model of ESPHome's runtime core

ESPHome turns a YAML file into firmware: Python code under `esphome/` validates the
configuration and generates C++, and the C++ runtime under `src/esphome/core/` runs the
components on a microcontroller. This directory models that runtime: the scheduler (timers),
the component phase (`loop()` calls), the main loop that runs both and sleeps, the queues
over which interrupts and other tasks hand over events, the automations and scripts a user
writes, and the device's life from one restart to the next.

## 1. Inventory

One thread, the *main loop*, owns nearly all state. It runs `Application::setup()` once
and then `Application::loop()` for good: a scheduler pass, a component phase, a sleep.
Three kinds of actors disturb it: *other tasks* (Bluetooth, Wi-Fi, MQTT, USB, user tasks),
*interrupt handlers*, and *its own callbacks*, which call back into the structures it is
just walking.

| Part | State | Operations | Shared with | What is hard | What makes it correct |
|---|---|---|---|---|---|
| Scheduler (`scheduler.{h,cpp}`) | heap `items_`, staging `to_add_`, `defer_queue_` with a read index, freelist, three counters, a `remove` mark per item | set/cancel timeout and interval, defer, `call()`, `next_schedule_in`, `trim_freelist` | any task, under `lock_`; lock-free reads of the counters | callbacks run outside the lock and change the containers; cancelled items stay in them; counters stand in for containers | an item is in one place; a name has one live timer; a cancelled timer does not run; counters hide no work; defer is FIFO; `call()` returns |
| Component phase (`application.{h,cpp}`, `component.{h,cpp}`) | `looping_components_` as `[active \| inactive]`, `current_loop_index_`, component states, two request flags | `setup()` with busy-wait, phase, `disable_loop`, `enable_loop`, `mark_failed`, `reset_to_construction_state`, `enable_loop_soon_any_context` | interrupts and tasks, through two volatile flags | swaps while the array is walked; a 16-bit index that is decremented at 0; flags written and read in opposite orders | the partition agrees with the states; none is skipped or run twice; no request is lost |
| Lock-free queue (`lock_free_queue.h`) | ring, `head_`, `tail_`, drop counter | push, pop, drop count | one producer, one consumer, no lock | stale indices, publication order, full against empty | it is a bounded FIFO; no slot is read and written at once |
| Event pool and its users (`event_pool.h`, `ble.cpp`, `mqtt_backend_esp32.cpp`) | free list (a second ring the other way), objects created | allocate, release, warm | source thread and sink thread | the sizes of pool, queue and free list must fit; two releasers | no object leaks or has two users |
| Notifying queue | a task handle | push with a wake-up | producer task, sleeping consumer | a lost wake-up | no element waits for a sleeping consumer |
| Main loop's gate, sleep and wake (`application.h`, `wake/`) | `last_loop_`, `loop_interval_`, wake flag, task notification | gate, sleep, wake from any context | every other actor | a wake between the check and the sleep, or between a read and a clear; a stale sleep time | queued work ends the sleep and opens the gate; no timer is slept over |
| 64-bit clock (`time_64.*`) | `last_millis`, `millis_major` | extend 32-bit time | any task | rollover seen by two threads | time does not jump by 49.7 days |
| Status flags | bits per component, bits of the application | set/clear warning and error, forced warning of setup | main loop | a summary kept by hand | the summary agrees with the components |
| Restart (`application.cpp`) | pending list with in-place compaction, a deadline | `reboot`, `safe_reboot`, hooks, `teardown()` retries | main loop | compaction while iterating; hooks that save and hooks that sync | each component is asked until it is ready; the restart comes |
| Preferences and safe mode (`preferences.cpp`, `safe_mode.cpp`) | a boot counter in flash, a save of it in RAM | count, clear, request, sync | the crash, at any point | what a crash undoes | safe mode is entered exactly when due |
| OTA updates (`ota_backend_esp_idf.cpp`) | two image slots, their verdicts | begin, write, end, abort, confirm | the bootloader | the selected image is not the running one; an erase cut short | some image can always be started; an update keeps its protection by rollback until it has run |
| Automations and scripts (`automation.h`, `base_automation.h`, `script.h`) | `num_running_` per action, timers, lists of waiters, the ring of a queued script | play, stop, delay, wait, conditions and loops, four modes | timers and component loops; each other, reentrantly | parallel instances; an action that stops or restarts the chain it is part of | counts are exact; a stopped script does not continue; who waits goes on, in order |
| Component iterator, native API, MQTT client, Wi-Fi, BLE tracker, logger buffers | see `PROJECT.json` | | | | |
| Drivers, Python code generation, command line | see `PROJECT.json` | | | | |

`PROJECT.json` has every part with its sources and status, and the list of hazards, each
at the line where it bites with the properties that watch it.

## 2. Modules

| Module | Models | Grain of a step |
|---|---|---|
| `LockFreeQueue` | `LockFreeQueue<T, SIZE>` | one atomic access: look at the indices, touch the slot, publish |
| `BoundedFifo` | the abstract promise: a bounded first-in first-out queue | one element in or out |
| `LockFreeQueue_proofs` | theorems about `LockFreeQueue` and `NotifyingQueue` | |
| `NotifyingQueue` | extends `LockFreeQueue` with `NotifyingLockFreeQueue` and the task it wakes | one atomic access, one call of FreeRTOS |
| `EventPool` | `EventPool` + queue as `ESP32BLE` uses them; two `INSTANCE`s of `LockFreeQueue` | as `LockFreeQueue` |
| `EventPool_proofs` | theorems about `EventPool`; two `INSTANCE`s of `LockFreeQueue_proofs` | |
| `MqttEnqueue` | extends `EventPool` with the failure path of `MQTTBackendESP32::enqueue_` | as `LockFreeQueue` |
| `Scheduler` | the scheduler; `defer()` shown to be a `BoundedFifo` | one hold of `lock_`, or one read without it |
| `Scheduler_proofs` | theorems about `Scheduler` | |
| `ComponentLoop` | `setup()`, the component phase, component states, requests | one call of a component, one operation in it, one flag access, one slot of the scan |
| `ComponentLoop_proofs` | theorems about `ComponentLoop` | |
| `MainLoop` | `Application::loop()`, the wake flag and signal of four platforms, over the part of the scheduler the loop sees | one lock hold, one flag access, one call, one millisecond |
| `MainLoop_proofs` | theorems about `MainLoop` | |
| `Lifecycle` | boot counter, preferences, image slots, safe mode, orderly restart, crashes; the bootloader as an external part | one call between two points where a crash differs |
| `Lifecycle_proofs` | theorems about `Lifecycle` | |
| `Millis64` | `Millis64Impl::compute()` in its three forms | one atomic access |
| `Millis64_proofs` | theorems about `Millis64` | |
| `Automation` | action lists, waiting actions, four script modes | the code from one call of a method to the next |
| `Automation_proofs` | theorems about `Automation` | |
| `MC*` | constants for TLC; `MCAutomation` the programs | |

How they fit together. `MainLoop` runs passes of the scheduler and phases of components;
`Scheduler` and `ComponentLoop` are those two in detail, and `MainLoop` keeps of them what
the gate and the sleep read: in which container a timer is, which are due, whether a pass
merges at its end, whether a component has queued work. `MainLoop`'s producers are the
tasks behind `EventPool` and `MqttEnqueue`; what the latter queues goes through a
`NotifyingQueue`. `Millis64` is the clock that `Scheduler` takes as given. `Automation` sees the scheduler as timers that
fire once unless they are cancelled, and the component phase as loops that are called while
enabled, which is what the properties of those modules are about. `Lifecycle` begins
where `Application::loop()` leaves for a restart.

### LockFreeQueue, BoundedFifo

`push` is `PushFull` (refused, counted) or `PushRoom`, `PushWrite`, `PushPublish`; `pop` is
`PopFound`, `PopRead`, `PopPublish`. The locals `current_tail` and `current_head` are kept
in the state, so a step uses what an earlier step saw. This also covers the memory order:
an acquire load that returns an older index is a look that happened earlier. `Count` and
`Contents` read the ring as a sequence; under `queue <- Contents` every step is a step of
`BoundedFifo` or a stutter, and under weak fairness of both threads the ring implements
the fair FIFO. Elements are opaque. The drop counter wraps at `DropRange` (2^16 in code).

### NotifyingQueue

`push` is that of the ring with what `NotifyingLockFreeQueue` adds: `Begin` keeps `was_empty`
and `old_tail`, `Publish` decides whether a second look at `head_` is due, `LookAtHead` makes
it, `Give` notifies. The consumer is `esphome_mqtt_task`: `Wake`, `Pop` until nothing is left,
`Wait`. `task_to_notify`, fixed at the start, is false for a plain queue, whose consumer polls.
The connection's own notifications (`mqtt_backend_esp32.cpp:130`, `:140`) are left out, so that
the queue has to do without them. The second look reads what the consumer had published by
then. Release and acquire do not promise this between a store and a later load of another
variable: on two cores the load could come first, the notification be lost, and, as later
pushes then find a queue that is neither empty nor just caught up with, not be made good
until the connection changes. That the hardware does not do so is an assumption of the model.

### EventPool, MqttEnqueue

The source thread allocates (`Allocate*`, the free list's `pop`), loads, pushes or drops;
the sink thread pops, handles, releases (the free list's `push`), and looks at the drops
when the queue runs dry. Each action conjoins the step of the ring it makes with the
thread's own. `Warm` runs only between two events of both threads, as its comment asks.
Objects are numbered in the order of creation. `HeapMayFail` opens the failure of
`RAMAllocator`. What `handle` does with the event is left out.

`MqttEnqueue` is the same pair with the main loop as source: when `set_data()` cannot copy
the message the source releases too, so that the free list has two producers. The steps
are the same three of the ring's `push`.

### Scheduler

`item` holds the fields of every `SchedulerItem`; `items`, `to_add`, `pool` are sets,
`defer_queue` a sequence with holes (`None` for `nullptr`) and its read index. A heap is a
set from which an item with a least `next_execution` comes out; which one of several is
left open, so nothing depends on the heap's layout. A key stands for component, kind of
name and name together. `main.pc` says where the main loop is in `call()`; every value is
a point where the lock is not held, so the API actions of the other task may come there.
The main loop's own API calls come at `idle` (component code), `deferred` and `callback`.

| Code | Actions |
|---|---|
| `set_timer_common_` | `SetTimer`, with `DONT_RUN` as `Cancel(.., find_first)` |
| `cancel_item_`, `cancel_item_locked_` | `Cancel`, `MayMark`, `CountMarked` |
| `process_defer_queue_` | `BeginCall`, `BeginDefer`, `RunDeferred`, `EndDeferred`, `TakeNext` |
| `process_to_add` | `Merge`, `EndCall` (`ProcessToAdd`) |
| `cleanup_`, `full_cleanup_removed_items_` | `CleanTop`, `FullCleanup`, `NextScheduleIn` (`Cleanup`) |
| the loop over due items | `PopFailed`, `PopRemoved`, `FindDue`, `StartCallback`, `EndCancelled`, `EndTimeout`, `EndInterval`, `EndHeap` |
| `Component::mark_failed`, `trim_freelist` | `MarkFailed`, `TrimFreelist` |

`FindDue` and `StartCallback` are apart because another task may cancel between the look
at the mark and the call. `now` is `millis_64()`, advanced by `Tick` up to `MaxTime`;
`main.now_64` is the pass's own copy. `multi_threaded`, fixed at the start, is the kind of
build: without threads there is no defer queue and no other task. `revoked` is a ghost: the items the main loop itself
has cancelled, which is the case in which the code promises that they do not run (a cancel
from another task may come too late for a callback that is just starting).

### ComponentLoop

`looping`, `active_end`, `index`, `in_loop` are the array and its walk; `state` the
component states; `pending` and `has_pending` the two flags. Setup is `SetupCall`,
`NextComponent` and, for a component that cannot proceed yet, `WaitMore`, then a phase of
`WaitCall`s. A phase begins with `BeginPhase`, which clears the global flag and walks the
inactive part slot by slot (`ScanNext`, `ScanEnds`) with requests arriving in between;
then `RunLoop`/`Returns` for each active slot, and `EndPhase`. While a component runs
(`main.pc = "body"`) it may do up to `MaxOps` operations on itself or others: `DisableLoop`,
`EnableLoop`, `MarkFailed`, `ResetToConstructionState`. The header asks that components
call these on themselves, but they do so in methods that other components call (a speaker
that is started by a mixer enables its own loop), which has the same effect on the array.
Callbacks of the scheduler pass before a phase may do the same at `idle`. A request
(`RequestBegins`, `RequestEnds`) is the two flag writes of `enable_loop_soon_any_context()`.
Only components with a `loop()` are modelled; the loop's gate is left out: a phase may
begin at any time.

Ghosts: `owed` (requested while it could be served, and not entered since; forgotten when
other code stops the component), `due` (active since the phase began and not run),
`extra` (may run in this phase besides: enabled in it, or moved by someone else's stop),
`failed_once`.

### MainLoop

`at` is where the loop is: `tick`, `defers`, `heap` and `callback` are the scheduler's pass,
`gate` and `take` the reading of `g_wake_requested`, `phase` the components, `delay`,
`enter`, `asleep` and `clear` the sleep. Time is relative: `elapsed` since the last phase,
`left` to each deadline, `asleep` left to the sleep. `platform` is fixed at the start and
says whether `wake_request_take()` is one exchange or a read and a clear (`wake.h:41-57`),
whether the producer is a task or an interrupt, whether the signal is a notification that is
consumed or a flag that is cleared. A call of `wake_loop_threadsafe()` is `Queue` (the data),
`SetFlag`, `Signal`; on the ESP8266 and the RP2 it is an interrupt, hence one step. The timer
is staged, deferred or in the heap; `due` holds the ones a pass has found. Code runs on any
task may use timers at any time where there are tasks.

### Millis64

`time` is a clock that does not wrap; a call holds the timestamp it came with, of which the
code sees the low word (`Now`), and its locals. `build` is the threading model: `Compute` is the
whole of the single-threaded form, `LoadMajor`, `LoadLast`, the locked part (`Lock`, `Reread`,
`CountRollover`/`CountNothing`, `Store`) and the part without the lock (`ForwardStore`, or
`Exchange`/`NoForward` and `Check`) are shared by the other two as far as their code is. A call may
be held up anywhere for up to `MaxLag`. Ghosts: `seen`, the newest timestamp answered, and
`overtaken`, set when a rollover is counted while a call from before it is under way. The
indices' orders are again those of one core; the acquire load of `last_millis` after that of
`millis_major` is what they ask for.

### Lifecycle

`flash` and `unsynced` are the boot counter and the save that has not been synced: `save()`
replaces the pending one, `load()` looks there first, `sync()` writes. `running` and `boot`
are the slot that runs and the one that is selected, `verdict` the bootloader's state of each
image. `Bootloader` (external) tries a new image once. `CountBoot`, `EnterSafeMode`,
`MarkSuccessful`, `OnSafeShutdown` are the methods of safe mode, `OtaBegin`, `OtaWrite`, `OtaEnd`
and `OtaAbort` the ESP-IDF backend, `Reboot`, `SafeReboot`, `OnShutdown`, `Teardown`, `EndRound`,
`Restarts` the way down in `application.cpp`; one round of teardown is walked slot by slot as its array
is compacted. A number of rounds stands for its deadline, which may cut them short.
`Crash` may come at any point. An image that is broken crashes before
its boot is good. The build has `USE_OTA_ROLLBACK` and `boot_is_good_on_shutdown`.

An update is apart where a failure or a crash makes a difference. `OtaBegin` marks the *selected*
image valid, whether it runs or not, and may then fail; it erases nothing. The first `OtaWrite`
erases the other slot, the last one completes its image, which may be broken; in between it cannot be
started. `OtaEnd` selects a complete image, or refuses it (signature, downgrade, a failed
`esp_ota_set_boot_partition`) and leaves it where it is. `OtaAbort` leaves the slot as it is: the old
image before the first write, nothing that can be started after it. Updates are handled on the main
loop and end before an orderly restart begins; after `OtaEnd` and before the restart a further
one may begin.

Ghosts: `ran`, `early` (in this boot `OtaBegin` has marked an image that has not run), `request`,
`proved`, `failures`, `ready`.

### Automation

A *program* is what the code generator lays out: scripts with modes, each a list of actions,
some of which hold lists. Actions call each other directly, so `stack` holds the calls under
way and a step is what runs until the next call: `play` enters an action, `next` is
`play_next_()`, `execute` a script's `execute()`, `script_loop` a queued script's `loop()`,
`pop_front` and `walk` what is left to do when a resumed chain returns. Everything an action
keeps is state of the model: `num_running`, `timers`, `waiting`, `generation`, `ring`,
`loops`. When the stack is empty the main loop may set a component up, fire a timer, run a
`loop()`; and a user may execute or stop a script or change what the conditions see. The last
argument of an instance is its number, which is also the order of asking. A ghost, `stopped`,
says which numbers a script's last stop has ended. `pop_front()` of an empty list is undefined;
`PopFrontOfNone` takes the outcome in which the heap notices and the device restarts.

## 3. Runs

| Run | Asks | Bounds |
|---|---|---|
| `queue` | ring against FIFO, slot races, lost wake-ups | 4 slots (wraps, full and empty), 2 elements, drop counter modulo 3; polled and notified |
| `pool` | leaks, double use, return | pool 2, queue 3: both rings fill, drain and wrap; the heap may fail |
| `mqtt` (violation) | one releaser per pool | as `pool` |
| `scheduler` | places, names, counters, revocation, order, service | both kinds of build; 2 items, a named and a parallel key, delays 0 and 1, clock to 1 |
| `component_loop` | partition, requests, order of the walk, service | 3 components, 1 operation per call, setup and phases |
| `main_loop` | sleeps and wake-ups | ESP32, BK72xx, ESP8266, RP2; 1 producer, 2 timers, delays 0 and 1, loop interval 2, 2 timers set |
| `lifecycle` | safe mode, images, orderly restart | 3 attempts, 2 slots, 3 components, 2 rounds of teardown, 2 updates in a boot; any number of boots |
| `automation` | counts, limits, order, stop, service | 5 programs, 4 instances asked for |
| `automation_wait` (violation) | `script.wait` pops what it played | 1 program, 3 instances |
| `automation_while` (violation) | counts with parallel `while`s | 1 program, 3 instances |
| `millis` | counting of rollovers, answers | 3 builds, 2 threads; low word of 16 values, window 4, lag 2, two rollovers |
| `millis_overtaken` (violation) | each rollover is counted once | as `millis`, without atomics |

What each of the eight passing runs shows, beyond its type invariant (that of the ring in
`queue` is checked as part of `pool`'s):

- `queue`: `NoSlotRace`, and by refinement that the ring is a fair bounded FIFO: with a
  consumer that sleeps, no element waits for a wake-up that does not come.
- `pool`: no event leaks or has two users (so a push after an allocate has room, as otherwise
  its event would be in no place), every event queued comes back to the pool.
- `scheduler`: an item is in one place (`EveryItemInOnePlace`), a name has one live timer, the
  counters hide no work, the item popped is the one that ran, a cancelled timer does not run,
  `defer()` is a FIFO, and everything due, staged or deferred is served.
- `component_loop`: the active part is what may loop, no request is lost and each is served,
  and a phase runs each active component once (`EachRunsOnce`).
- `main_loop`: with an exchange, a wake-up alone gets queued work drained; no sleep goes past a
  timer in the heap, a timer that a callback of the pass has set, or a high-frequency request;
  every timer comes up.
- `lifecycle`: safe mode is entered exactly when it was asked for or when three boots in a row
  ended before a cleared counter reached flash; an orderly restart leaves no failed boot and
  keeps a request; a broken image is left; some image can be started after a crash at any
  point; an update keeps its protection until it has run, unless a further one is begun in the
  same boot (`ConfirmedHasRunUnlessEarly`); teardown's array is exact, and its restart comes.
- `millis`: whenever the lock is free the two words are a time that has been, and a call returns
  the time of its timestamp. Excepted are calls a rollover overtakes (see below).
- `automation`: what `num_running_` counts is there; limits of the modes hold; queued instances
  (`QueueOrderIsKept`) and waiters (`WaitOrderIsKept`) keep their order; what was stopped plays no further action; who waits goes on.

Why these bounds are enough. The hazards of the ring need it to be full, empty and wrapped:
four slots do, and the proofs cover every size. In the pool two objects and three queue slots
make the source, the sink and both rings hold an object each. Two scheduler items are the
least with which a name can be replaced while its old item runs, is staged, or waits in the
defer queue; `MaxDeleted` is 1 in place of 5, so that the full cleanup happens. Three
components are the least for a swap in which the first, the running and the last one differ.
In `main_loop` a loop interval of 2 tells a sleep cut by a timer from one cut by the interval
and from none; a second timer can be set while the first one runs; one producer suffices as
the flag and the signal do not count. In `millis` half the range
is more than two lags add up to, and the window around the rollover is wider than they are,
as in the code. `lifecycle` needs an attempt that is neither first nor
last, and three components for a round of teardown that copies one forward, and another over
a gap. The programs of `automation` are those with which each action can meet itself: a
queued script whose ring wraps, awaited by an instance of another; parallel waiters of which
one stops all; a waiter that restarts, or joins, itself; loops within conditions, stopped
from elsewhere. Four instances fill a ring of two with one running and one refused. Instances
of `while` in parallel are left to `automation_while`. `MaxDeleted`, `Items`,
`MaxTime`, `MaxLag`, `MaxOps`, `MaxSets`, `MaxUpdates`, `MaxId` and `DropRange` are bounds of the models only.

With two operations per call `RequestsAreServed` does not hold: a component that enables
another and disables itself, and finds the other doing the same, keeps the walk of one phase
going for good, and the scan of requests is never reached. This is a property of the code (the
loop's end is read anew in every round); one operation per call excludes it.

### Fairness

- The main loop is a `while (true)` that does not block for good, and callbacks return: weak
  fairness of its own steps (`Call`, `MainStep`, `SinkNext`, `LoopStep`, `Consuming`, `Runs`), and of the
  two threads of the ring.
- A call another task or an interrupt has begun ends (`RequestEnds`, `SetFlag`, `Signal`).
  Nothing else is assumed of other tasks, of who sets timers, or of users.
- Time: `MainLoop` assumes nothing of it for `WakeIsEnough`, which says that no time has to
  pass; `TimersComeUp` has its passing as a premise.
- `Lifecycle`: the bootloader starts the device; again and again a boot gets as far as the
  check (strong, since a crash may come before it); a broken image crashes; the steps of an
  orderly restart go on, which needs no fairness of `teardown()` as a deadline ends it.
- `Automation`: between any two calls the main loop goes round, so a timer that is pending
  over and over fires, and a `loop()` that is enabled over and over runs: strong fairness of
  `Fire`, `Setup`, `WaitLoop`, `QueuedLoop`, since they are possible only when no call is
  under way and users may always start one. Each program has one action of a kind that
  waits, so the disjunctions do not favour one of several.

### What the violations show

- `mqtt`: `enqueue_()` releases on the main loop when `set_data()` fails, while the MQTT
  task releases on its own thread. Two pushes on the free list's ring overlap, and an object
  is lost to the pool. The header wants the sizing to make this release unnecessary.
- `automation_wait`: `ScriptWaitAction::loop()` pops the front after it has played it, though
  the chain may have stopped the script and emptied the list. `WaitUntilAction` takes care of
  this case (`base_automation.h:522-525`), `script.wait` does not.
- `automation_while`: a new instance of a `while` whose condition is false stops the body of
  those that are in it; these never end, and the script counts as running for good.
- `millis_overtaken`: without atomics a call that took its timestamp just before a rollover may
  store it after another thread has counted that rollover, forward (`time_64.cpp:117`, since
  a late timestamp is not near the rollover once `last_millis` has wrapped) or under the lock
  (`:109`, where nothing is compared). The next call counts the rollover once more, and the
  time is 49.7 days ahead for good. With atomics the words stay right, and only the answer to
  the overtaken call is a range ahead.

### Seen on the way, and not a run

- `begin()` of an update marks the selected image valid, to let the update go on while the
  running one is on trial. In the 100 ms between the end of one update and its restart a further
  one may begin (`ota_web_server.cpp:99-105`, `:166`); then the selected image is the new one, and it
  is confirmed unseen. If this second update fails in `begin()`, or the device restarts before
  its first write, the new image is started without a trial. `safe_mode.cpp:129-133` guards against
  exactly this, `ota_backend_esp_idf.cpp:55` does not. `ConfirmedHasRun` alone is false for this
  reason (TLC finds it in seven steps: an update is begun, written, ended, a second one begun);
  `ConfirmedHasRunUnlessEarly` exempts a boot in which it happened, by `early`, and no other.
- `disable_loop()` on a failed component makes it LOOP_DONE, from where `enable_loop()` or a
  request brings it back, against `component.h:215`; a display driver that gives up calls the two
  one after the other (`it8951.cpp:795-798`). No property looks for it.
- Without atomics (`wake.h:52-56`) a wake-up set between the read and the clear of the flag is
  lost. The notification still ends the sleep, but the gate stays shut and the loop sleeps again:
  the work waits for the loop interval, which may be seconds. `WakeIsEnough` is about the builds
  with an exchange for this reason. Zephyr has the same two steps and the sleep of the FreeRTOS
  builds; it is not one of the platforms explored.
- A component that failed after `setup()` and is reset is in state CONSTRUCTION among the inactive
  ones, and nothing calls it; `PartitionMatchesState` exempts it. Those that reset themselves do so in a
  `setup()` they call again themselves.
- `now_64` is taken once per pass, so behind a slow callback an interval comes sooner after
  its previous call than its length, which `component.h:366-367` excludes.
- The flag of a request for a component that already loops is not cleared, since the scan
  visits only the inactive part, against the comment at `application.cpp:454`.
- `next_schedule_in()` does not look at `to_add_` where there are threads: a timer set in a
  component's `loop()`, or by another task during the phase, is late by up to the loop
  interval when that is longer than its delay. `NeverOversleeps` is about the heap, and what the
  pass has seen in `to_add_`, for this reason.
- The loop of a `script.wait` with no instances left returns before it would disable itself.

## 4. Proofs

Each `*_proofs` module states its theorems for every value of the constants; what it assumes of
them are the named `ASSUME`s of the module it extends, which TLC evaluates in the runs, and
what a theorem assumes besides is in its statement. All but the refinements go the same way: an
inductive invariant `IInv` (checked by TLC before it was proved), a lemma that it holds at the
start, one per action or group of actions that it keeps, `StepKeeps`, and theorems that read
the property off it. An action property is read off `IInv` in the state before the step.
`Automation_proofs` has no single `IInv` but several invariants, each resting on the ones before
it, and goes that way once for each.

`LockFreeQueue_proofs`, for every `SIZE` from 1 to 255 and every set of elements:

- `TypeCorrect`: `Spec => []TypeOK`, with any number of producers.
- `QueueSafe`: with one producer, `[]NoSlotRace`, `[]PopReturnsOldest` and that occupied slots
  hold real elements. `NoSlotRace` is not inductive: that the popped slot holds an element
  needs `NoneIsNeverQueued`, and that publishing keeps it needs `WrittenIsPending` (the slot
  still holds what the push wrote). `IInv` is their conjunction. One lemma per idea:
  `NextIndex` (wrapping is one-to-one), `CountBounds`, `OccupiedStep`, `OldestAtHead`.
- `QueueImplementsFifo`: under `queue <- Contents`, `PushPublish` is `Enqueue`, `PopPublish`
  is `Dequeue`, all else stutters (`PublishAppends`, `PublishDequeues`, together `RingStep`).

In the same module, of `NotifyingQueue`, likewise for every `SIZE`, with one producer (`SingleProducer`):

- `NotifyingQueueSafe`: `NotifyingSpec => [](NoSlotRace /\ NoneWaitsOnWork)`. `StepIsStep` says
  that each step is one of the ring's or none, which carries `IInv` over;
  `CallerAgrees` says what `push` knows while the ring's push is under way (the tail it
  remembers is the tail, and a queue found empty still is). With it, a publication on which
  the consumer sleeps is either of an empty queue or one whose second look finds the head at
  the old tail.
- `NotifyingQueueImplementsFifo`: what `QueueImplementsFifo` says of the ring.

`EventPool_proofs`, for every size of pool and queue of which the first fits the second, under
`Free!SingleProducer` (one thread releases, as in `ESP32BLE`; `mqtt` shows what happens
otherwise):

- `TypeCorrect`, and `EventsAreAccounted`: `Spec => []EveryEventAccounted`.
- What is proved of one ring is used of both: `QP` and `FP` are instances of
  `LockFreeQueue_proofs` for the event queue and the free list, and `QueueStep`, `FreeStep` say
  what each of their steps does to `Contents`. `HandsInv` says that where a thread is agrees
  with its calls on the rings, `PlacesInv` that an object is created just when it is in one
  ring or one hand, that no ring holds it twice, and that no two places do.
- The counting is in `RoomForPush` and `RoomForRelease`: a sequence without repetition over the
  objects other than the one in hand is shorter than `POOL_SIZE` (by the pigeonhole theorem),
  so neither ring is full when its push begins, which is why the code may ignore the results.
  `WarmFills` follows the one step that fills several slots at once.

`Scheduler_proofs`, for any finite set of items, any keys, owners and delays, with and without
threads:

- `TypeCorrect`, `ItemsAreInOnePlace`, `OneTimerPerName`, `CountersExact`, `TopStays` (the
  invariants of the run), the action property `RevokedNeverRun`, and the refinement
  `DeferImplementsFifo`.
- `EveryItemInOnePlace` alone is not inductive. `QueueInv` says that the taken slots of the defer
  queue are its first ones and that no item is in two, `Located` writes the pairs of places
  out, `NamedOnce` says of items what `OneLivePerKey` counts, `CountInv` what each counter
  is while the queue is being emptied, `RevokedInv` that what the main loop has cancelled is
  marked and is not what it is about to call.
- The operators of the model have their lemmas: `TakeSlot`, `Compact`, `AppendItem` for the
  queue with holes, `MarkCount` for the counting of marks, `MarkedFact`, `RecycledFact`.
- Under `queue <- Pending` the actions that append to the defer queue are `Enqueue`, the one
  that takes an item out is `Dequeue` (`PendingGrows`, `PendingMoves`; `PendingHasRoom`, as an
  item is in it once at most).

`ComponentLoop_proofs`, for every number of components the index can hold, every choice of
those that may fail, be reset or be asked for, and every `MaxOps`:

- `TypeCorrect`: `Spec => []TypeOK`. `PartitionIsCorrect`: `Spec => []PartitionMatchesState`.
  `NoRequestIsLost`: `Spec => []NoLostRequest`. `PhaseRunsEachOnce`: `Spec => EachRunsOnce`.
- One inductive invariant, `IInv`, carries the first three. It adds to them `ArrayInv` (each
  component has one slot, without which a swap could put a component on both sides of the
  border), `FailedRemembered` (a component that is reset did fail), `ScanIsInactive` (the scan
  is behind the border, so enabling swaps nothing it has yet to see out of its way),
  `RunningIsAsked` (a component asked for while it runs still has its flags when it disables
  itself: the main loop clears them only between calls) and `MainInv` (which locals the main
  loop has where).
- The effects of the two swaps are lemmas (`SwapFact`, `DisableEffect`, `ActivateEffect`).
  `QuietStepKeeps` and `OperationKeeps` reduce the main loop's steps and a component's
  operations to a few conditions; then there is one lemma per action, and `StepKeeps`.
- `PhaseRunsEachOnce` needs a second invariant on top of `IInv`, `WalkInv`: the slots from
  `NextIndex` on hold all that is due, and nothing else but what may run besides. The case
  that needs thought is a component that stops itself: the last active one comes to its slot,
  and the index goes back, below 0 if it must, to find it there (`ShrinkWalk`, `WrapFact`).
  It would be passed over if the component that stops were behind the walk; the last conjunct
  of `WalkInv` says that it is not, as long as no other has been stopped in this phase.

`MainLoop_proofs`, for any timers, delays with 0 among them, producers, platforms and loop
interval:

- `TypeCorrect`, and `NeverSleepsTooLong`: `Spec => []NeverOversleeps`. `DelayIsSafe` says of the
  computed delay what the property says of the sleep, from the moment it has been computed;
  `OwedIsMerged` that what a pass has seen in `to_add_` is merged before it ends.
- `WakeIsNotLost`: `Spec => []NoWakeIsLost`, the safety part of `WakeIsEnough`, which is liveness:
  on builds with an exchange, work whose producer has set the flag is remembered, in the flag
  or as a phase that is due, until its component has run; and where the loop sleeps
  meanwhile its signal has been given or is about to be.

`Lifecycle_proofs`, for every number of attempts, rounds and updates and any components:

- `TypeCorrect`, `AlwaysFindsAnImage`, `ConfirmedImagesHaveRun`, `TeardownListIsExact`, and the action
  properties `SafeModeComesWhenDue` and `RestartIsClean`.
- `ConfirmedImagesHaveRun`: `Spec => []ConfirmedHasRunUnlessEarly`. Its hypothesis, that in this boot no
  `begin()` has marked an update that waits for its first start, is the code's own gap (section 3,
  "Seen on the way"); the theorem says that it is the only one.
- `ImageInv`: the running image can be started and stays, it is confirmed before the other
  slot is touched, and one on trial has a confirmed one to go back to. `RanInv`: the running image
  has been started, and so has the one it would go back to; another that is selected is new, unless
  `early`. `CounterInv` says what
  flash and the pending save hold in terms of what has happened, `HooksInv` what the shutdown
  hooks have made of them, `TeardownInv` what is in the array in the middle of a compaction.

`Millis64_proofs`, for any number of threads, any low word and window, and any number of
rollovers, where two lags stay below half the range (`LagAssumption`; in the code, 24.8 days):

- `TypeCorrect`, `RolloversAreCountedOnce`: `Spec => []CountedOnceUnlessOvertaken`, and
  `AnswersExact`: `Spec => AnswersAreExact`.
- What the two words say is `Counted`, in which a rollover counted under the lock and not
  stored yet does not count. `CountedInv` bounds it by the clock and by the last answer, and
  `CallInv` says of every call under way what it has made sure of so far; they hold unless
  `Lost`, that is, in the form without atomics after a rollover has overtaken a call. For that
  form `AnswersExact` has the hypothesis `2 * MaxLag < Window`, as the high word is read before
  the low one and only the window sends the call to the lock. In the code the window is ten
  seconds (`time_64.cpp:80-82`).

`Automation_proofs`, for every set of well-formed programs (`ProgramsAssumption`: lists link up and
nest, a list ends in the continuation of the action it is in, as `add_then()` and `add_else()` leave
it), however many scripts, actions and instances there are and however deep they call each other:

- `TypeCorrect`, `QueueKeepsOrder`: `Spec => []QueueOrderIsKept`, `LimitsAreKept`:
  `Spec => []RunLimits`. In programs without `wait_until`, also `StoppedStaysStopped`:
  `Spec => []StoppedNeverPlays`, and `IdleScriptsHoldNothing`: between two calls, a script that
  does not run by its own count has no timeout and no waiter left, in its nested lists either.
- There is an invariant for each question, and each uses those before it. `ShapeInv` says what may
  be on the stack (below the innermost call there are only calls that are returned into), what each
  ring holds, and that every instance that is *carried* - by a call, a timeout or a list - has the
  arguments of its action and is older than those its script has queued. `LimitsInv` counts with a
  script's instances the one that is about to enter its list (`Load`): without it the limit could
  be passed between the check in `execute()` and the first action. `HeldInv` says that no action
  holds more than it counts, and `FreshInv` that nothing held was stopped.
- What is hard is the calls that are under way when a script is stopped: `stop_complex()` does
  not touch them, and an instance that comes later makes `num_running_` of the same action positive
  again. `NextsOk` says why they still do nothing: of the calls that will return into an action,
  only the innermost, as many as it counts, can belong to instances that still run. A stop empties
  what is reached from the list of the script, which is all of it (`NothingLeft`: what an action
  holds is counted, so an action that counts nothing has nothing inside).
- The lemmas on lists, rings and counts are general: `FollowingFact` and `NestFact` say where an
  action's successor and parent are, `AppendOrdered` and `DequeueOrdered` what the ring does,
  `StopListFact` what a stop reaches, `CountAdd` and `CountLess` how sums of counters change,
  `NextsPushed`, `NextsPopped` and `NextsAfter` what becomes of the calls below.
- Without the hypothesis on `wait_until` the last two are not true of the code: its walk notices
  a stop by a change of `stop_generation_`, which is a byte (`base_automation.h:567`), so 256 stops
  inside the chain it resumes would go unnoticed. Such programs stay with TLC.

Only model-checked:

- All liveness, as fairness and `ENABLED` are out of the prover's reach: `ImplementsFairFifo` beyond
  its safety, `EveryEventReturns`, `AllAreServed`, `RequestsAreServed`, `WakeIsEnough`,
  `TimersComeUp`, `BrokenImageIsLeft`, `RestartComes`, `EveryoneGoesOn`.
- `CountsAreExact` and `WaitOrderIsKept` of `Automation`, which do not hold of all programs: a
  parallel `while` and a refilled `script.wait` leave counts behind (the two violations), and
  where delays precede a wait, instances may overtake each other on the way to it. `HeldInv` is the
  half of `CountsAreExact` that does: nothing is held that is not counted.
- The violations, which are counterexamples.

## 5. Plan

Done: the queue with and without notification, the pool and its users, the scheduler, the
component phase, the main loop, the 64-bit clock, the lifecycle, automations and scripts. Next
modules, in order:

1. `ComponentIterator` and the API's initial state walk; the connection's deferred batch and
   its overflow buffer.
2. `StatusFlags`.
3. A store buffer in `NotifyingQueue`, between the store of `tail_` and the load of `head_`.

Abstract specifications worth stating: a timer service (a named timer runs once, not early,
not after its cancel) that `Scheduler` implements; a wake-up flag that is never lost.

Proofs next: the other half of `CountsAreExact`, for programs without `script.wait` and without
parallel `while`s; a version of `EachRunsOnce` in which other components may be stopped in a
phase.

## 6. Not modelled

The vendor SDKs, the drivers, the protocols (API, MQTT, Wi-Fi, BLE) and the Python tools, for
the reasons in `PROJECT.json`. Within the modelled parts: logging, runtime statistics, the
watchdog, log attribution, the debug dump of the scheduler, the exhaustion of the heap in the
scheduler (a failed `new` ends the program), Zephyr, the host's `select()`, writes to flash that
fail, actions with effects on hardware, and arguments of automations other than an instance's
number. Besides:

- `Scheduler`: a component that has failed stays so (`reset_to_construction_state()` and a
  `disable_loop()` after it are modelled in `ComponentLoop`).
- `ComponentLoop`: components marked failed before `setup()`.
- `MainLoop`: the RP2's `delay()` when it finds no alarm to set (`wake_rp2.cpp:47-50`), which a
  wake-up does not cut short.
- `Automation`: one condition stands for those of all actions, and does not change while a call is
  under way; the code evaluates each by itself, per instance and iteration
  (`base_automation.h:311`, `:359`, `:538`).
- `Lifecycle`: uploads handled on a task of their own, so that `confirm_app_image_()`'s comparison
  and mark are one step and no update goes on during an orderly restart; the invalidation of
  the other slot's entry when an update begins (IDF 5.5, `:83`); the recovery app of devices without
  a second slot (`safe_mode.cpp:216-236`).
