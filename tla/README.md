# A formal model of Wave Race 64: Recompiled

The repository ports a Nintendo 64 game, recompiled to C, to desktop systems and
the Switch. The recompiled game runs on *ultramodern* and *librecomp*, which
re-create the N64 operating system - threads, message queues, timers, saving -
with host threads, and the port adds features of its own: a Controller Pak store,
ghost runs, achievements. This directory holds TLA+ modules of the parts whose
correctness depends on interleavings, failures and crashes, the TLC
configurations that check them, and TLAPS proofs about each of them.

Paths below are relative to `src/`; `ultramodern/` and `librecomp/` stand for the
`src` directories under `lib/N64ModernRuntime/`.

## 1. Inventory

| Component | Source | State | Operations | Status |
|---|---|---|---|---|
| Scheduler | `ultramodern/threadqueue.cpp`, `scheduling.cpp`, `threads.cpp` | running queue, wait lists, the thread that holds the execution token, each `OSThread`'s priority, state and queue | create, start, stop, destroy, set priority, exit, yield, pause | modelled, proved |
| Message queues | `ultramodern/mesgqueue.cpp` | ring buffers, `external_messages`, `requeued_messages` | send, jam, receive, events from host threads | modelled, proved |
| Event sources | `ultramodern/events.cpp`, `librecomp/pi.cpp` | VI states, event registrations, task queues | VI retrace, RSP and RDP completion, SI, AI, PI transfers | VI states and threads (`Runtime`); their messages (`Scheduler`); proved |
| Timers | `ultramodern/timer.cpp` | action queue, ordered set of timers | set, stop, fire, reload, shut down | start and stop only: the game sets no timer |
| Saving thread | `librecomp/pi.cpp`, `files.cpp` | save buffer, `.temp`, `.bak` and primary files | write, coalesce, save, stop | modelled without the file swap; proved |
| Controller Pak store | `src/controller_pak.cpp`, `librecomp/files.cpp` | per port: `loaded`, `load_result`, 16 entries; three files on disk | load, find, allocate, delete, read, write, inspect | modelled, proved |
| Ghost recorder and archive | `src/wr64_ghost.cpp`, `wr64_ghost_native.cpp` | race session, best run per course, two archive files per course | observe, start, end, flush, reset | modelled without playback; proved |
| Manual ghost slots | `src/wr64_ghost.cpp` | two slots in one Pak file, what the menu shows | refresh, load, save, clear | modelled, proved |
| Badge cache | `src/wr64_achievement_badges.cpp` | pending, requested and ready files, disk cache, worker | initialize, request, drain, shut down | modelled without PNG and HTTP; safety proved |
| Achievement service | `src/wr64_achievements.cpp` | clients, generations, commands, I/O work, completions, credentials file | sign in and out, load, frame, stop, shut down | modelled over an external rcheevos; safety proved |
| Lifecycle | `src/main.cpp`, `librecomp/recomp.cpp` | `exited`, `game_status`, `current_game`, host threads | start, start the game, quit, joins, teardown | modelled without diagnostic runs; safety proved |

`PROJECT.json` lists the rest - renderer glue, menus, input, display patches,
generated game code, vendored libraries - with the reason each is left out.

**Interactions.** Game threads hand one token around: only its holder runs game
code or an OS call. Host threads (VI, RSP, timer, SI, audio) touch game queues
only through `external_messages`, a moodycamel queue which the holder drains at
the start of its next call. The game hooks call the ghost recorder once a frame on
the game thread; the recorder writes its automatic archive itself and keeps the
manual slots in a file of the Pak store. The frontend asks the badge cache for images
and drains them in every frame. The achievement service is called by the frontend's ticks and by
the game's frames under one mutex, and hands HTTP and the credentials file to its worker.
Game code writes the EEPROM to a buffer and signals the saving thread. `main()` starts the runtime
and a lifecycle thread, which starts the game after the first VI; `quit()`, from the window, a menu
or a failed start, sets `exited`, upon which `recomp::start` joins the threads and frees RDRAM; then `main()` shuts down
the achievement service and the badge cache.

**What is hard, and what must hold.**

* *Scheduler and queues.* A thread has one `next` link, so it must be in one list
  at most; lists are sorted by a key that `osSetThreadPri` changes; an event can
  be delivered to, requeued behind or dropped at a queue on which several threads
  wait. Required: consistent lists, priority order, no lost wakeup, no dropped
  requeued event, FIFO contents, and always a thread to run.
* *Controller Pak.* Each of the steps of a save may fail, and the process may die between
  any two. Required: a directory that changes atomically and durably, an image
  that can be loaded again, and never less than one complete image on disk.
* *Ghosts.* A race qualifies before its files may have been read; its tail arrives
  after it was judged; reads and writes fail now and then. Required: neither the archive
  nor the best in memory gets slower, damaged files are left alone, what counts as saved is saved.
* *Saving thread.* Writes race the buffer's copy, each step of a save may fail, and quit cuts the
  thread off. Required: no write is forgotten, no save is put off for ever, the image saved last survives a failing save.
* *Achievement service.* Answers arrive after a sign-out, another sign-in, another game or the start of
  shutdown. Required: no answer reaches a destroyed client or another account's view, credentials on
  disk follow the commands unless a removal fails, no submitted unlock is cancelled before a last attempt, sign-ins and shutdown end.
* *Lifecycle and VI.* A quit may come in any state of startup; the VI thread swaps two states without the mutex under
  which the game writes them. Required: RDRAM outlives the joined threads, a quit ends the program, settings
  survive the swaps, the boot's wait for a framebuffer ends.
* *Badge cache.* One condition variable serves three conditions, and a flag is
  stored without the mutex. Required: each file once, everything served,
  shutdown ends, a restart begins empty.

## 2. Modules

| Module | Models |
|---|---|
| `ThreadQueue` | `thread_queue_insert` and `thread_queue_remove` on lists |
| `MesgRing` | the ring buffer of an `OSMesgQueue`: full, empty, put, jam, take |
| `Scheduler` | scheduler, calls and queues, composed from the two above |
| `MesgFifo` | abstract: bounded FIFOs with jams, and what each caller's request does to them |
| `SchedulerProofs` | theorems about `Scheduler` |
| `AtomicPak` | abstract: a directory that changes in one durable step |
| `ControllerPak` | the store, down to its three files; implements `AtomicPak` |
| `ControllerPakProofs` | theorems about `ControllerPak` |
| `GhostAutosave` | recording, the best of each course, its files |
| `GhostAutosaveProofs` | theorems about `GhostAutosave` |
| `GhostSlots` | the two manual slots, over a store as `AtomicPak` describes it |
| `GhostSlotsProofs` | theorems about `GhostSlots` |
| `BadgeCache` | the badge cache: worker, frontend and shutdown |
| `BadgeCacheProofs` | theorems about `BadgeCache` |
| `AchievementService` | accounts, clients, unlocks, worker, credentials and shutdown of the achievement service |
| `AchievementServiceProofs` | theorems about `AchievementService` |
| `SavingThread` | save buffer, saving thread and save files |
| `SavingThreadProofs` | theorems about `SavingThread` |
| `Runtime` | `main()`, the host threads from start to join, and the VI states |
| `RuntimeProofs` | theorems about `Runtime` |
| `MC*` | small instances for TLC |

**Scheduler.** `sched` is a record of the fields of the `OSThread`s
(`priority`, `state`, `queue`, `context`), the lists and the token holder;
`halt` records that the program threw, hung or faulted in the list code. Pure operators
named after the C++ functions transform it (`ThreadQueueInsert`,
`CheckRunningQueue`, `RunNextThread`). A step is what the holder does up to
the next point at which another thread can interfere, a dequeue from
`external_messages`: so `OsSendMesg` is `BeginCall`, any number of `DrainOne`,
`DrainDone`, then `DoSend`, `BlockOnSend` or `CallFails`, and a woken thread goes
on at `DoSend` or `DoRecv` as the loops of `do_send` and `do_recv` do. moodycamel keeps the
order of one producer's messages and no other: `DrainOne` takes the oldest message
of any producer. `thread_queue_remove` is modelled as written, with its
outcomes (removed, hang, null read). `MesgFifo` has, beside the queues' contents, the request of each caller and what the
host has posted, so that a message that enters a queue is the caller's own and goes where the call says, once.

**ControllerPak.** One port. Every call of the public interface is an action;
a save goes on in `OpenTemporary`, `WriteTemporary`, `PrimaryExists`, `StartCopy`,
`FinishCopy`, `Rename` and `Finish`, each of which may fail, and `Restart` may come
between any two. The mutex admits one call at a time. File contents are one value.

**AchievementService.** Every call holds `service.mutex`, so a call is a step, written as a function
on a record `service` with the fields of `Service` and of its `Session`s; `Pump` carries out the commands and answers
requests in order, each a recursive function on the numbers of those done. The worker's `TakeWork` and `FinishWork` come in between. A generation is a
client. Of rcheevos there is what it does to a client: a login, a load activated by a later idle,
one achievement whose submission is retried at once and then after a delay. A save or removal of credentials may fail, and
nobody is told (`FinishWork`; `unremoved` is history). A submission ends with the server's answer (`settled`), or, in a retired client, in `cancelled`
after an outage: `server_call` logs it as unconfirmed (`:250-258`, `:709-711`). `last_chance` is history: an outage was the answer after the client was retired.

**SavingThread.** `SaveWrite` and `Signal` are game code; the thread tests `exited`, collects signals
(`TakeSignal`, `TimeOut`), and saves in `Open`, `Write`, `StartBackup`, `FinishBackup`, `StartReplace`, `FinishReplace` and
`Remove`, as `update_save_file` and `finalize_output_file_with_backup` do; `Restart` may come between any two. Which build
it is (`in_place`: the Switch) is chosen once. `owed`, `sound` and `last` are history.

**Runtime.** `pc` holds where each host thread is; `Goes(t, from, to)` moves one. `quit()` is three steps (`exited`,
the exchange of `game_status`, the reset of `current_game`), `start_game` two. The VI thread's steps are its
test, `SetDummyVi`, `SwapStates`, `CopyState` and `SendVi`; a call of the game computes an address (`BeginCall`) and
stores through it (`Store`). A thread of the game starts with a read of `current_game` (`BeginThread`): the idle thread before
the first two calls, the main thread before the third, which registers the retrace event, others before its frames. `overlapped` records that a call met the VI thread between two of its accesses. After
`std::terminate` (`~Alive`) there are no steps.

**GhostAutosave.** All calls come on the game thread, so a call is one step, and an
operator maps a world (session, entries, disk) to the *set* of worlds in which failing
reads and writes may leave it. `Crash` leaves the disk of any such world. A run is its
time, the number of samples before the goal and of all samples.

**GhostSlots.** A call is a step per call to the store, with failures and `Crash` between.

**BadgeCache.** A critical section is a step. The worker's wait is three: test,
`Doze` (tested, mutex held, not yet a waiter) and `Sleep`. `stopping.store`,
`notify_all` and `join` of `shutdown()` take no mutex and are three steps.

## 3. Runs

| Run | Question | Instance |
|---|---|---|
| `game` | Do lists, token, priorities and types stay consistent in all interleavings of calls and events? Is a wakeup lost, or a requeued event dropped? | idle thread and two workers, two priorities, a queue of one slot, a requeued source and a sending host thread, two events in flight; 1,395,000 states |
| `api` | Does the inductive invariant hold with destruction and priority changes of other threads, and do calls on rings implement FIFO queues? | two workers, one a victim, two messages, priorities 0-2, a queue of one or two slots; 952,000 states |
| `remove` | Does `osDestroyThread` unlink the thread and return? *No.* | as `api` |
| `pak` | Does the store implement `AtomicPak`, and can it load what it writes? When files fail to open now and then, does an image survive, and is a refused Pak untouched? | two entries, three pages of two bytes, sizes 0, 3, 7, good and damaged initial files; 18,000 states |
| `badges` | Is each file fetched and delivered once, is a restart empty, is all served? | two badges (four files), names limited to three, room for one image |
| `badges_shutdown` | Does shutdown end? *Not always.* | the same |
| `ghosts` | Is the saved run saved, the damaged archive kept? Does an archive, or the best in memory, ever get slower? | one course, two times, three samples, any initial files, reads and writes fail; 39,000 states |
| `ghost_slots` | Are saved ghosts kept through failures and crashes, and better ones not replaced? | two slots, courses, times and trajectories |
| `achievements` | Do answers stay with their client and account, do credentials follow the commands, does every unlock get a last attempt, do sign-ins and shutdown end? | a saved account and a typed one, three commands, one refresh, every write and removal failing; 471,000 states |
| `saving` | Is a write forgotten or put off, does the image saved last survive? | both builds, two images, two signals, two per save; 96,000 states |
| `runtime` | Does RDRAM outlive the threads, do VI settings survive swaps, does the boot go on, does a quit end the program? | every failure of startup, one quit by the player, four calls of the game; 307,000 states |
| `runtime_quit` | Does a quit always lead to `main()`'s teardown? *No.* | the same, without failures |

**Why the bounds are enough.** Two workers beside the idle thread give lists of two,
a list head and a member behind it, and competition between two blocked threads. `api` has three
priorities, for above, between and below; `game` has two. A queue of one slot is full and empty
within a step of each other, and two slots let a jam move `first` backwards over the wrap.
Two messages tell the order in a queue of two, and a jam from a send. `MaxExternal` bounds the events in flight, two being what it takes for one to be
delivered while another is requeued. In the Pak, sizes of
3 and 7 bytes of two-byte pages, three in all, end inside a page, fit beside nothing and do not fit at all; the
directory, with an entry for each of two names, never fills before the data. Three file names against four
files, and one ready image, keep the badge worker at both limits. Three samples are
the fewest with a sample before the goal, one at it and a tail that fills the recording; two
times give a run that is faster than, equal to or slower than an archived one; courses share nothing
but the session, so one course is enough for its files. Three commands allow a sign-out and a sign-in
behind a sign-in whose answer is late, with a refresh (`RefreshedIn`) in the last account. A fourth command is beyond TLC here: the case of section 4 in which
`set_game_identity` restores a token behind a queued sign-out is in the theorems (any `MaxGeneration`) and not in the run. Two signals, two of them to a
save, are more than one and one that ends the wait. The game's four calls are the boot's two swaps with their waits, the registration
of its retrace event and a frame.

**Symmetry.** `game` permutes the workers, which nothing in the instance tells apart but
state; `api` permutes the messages. They check no liveness. Host posts (`posted` of `MesgFifo`) are absent from
`api`, whose `MaxExternal` is 0; `RingsAreQueues` covers them.

**Deadlock** is checked except in `runtime`, whose program ends, and in the scheduler runs: the game may stop for good
there (a `halt`, or an idle thread that waits for an event which the bound
`MaxExternal`, or an empty set of sources, excludes).

**Fairness.** In `BadgeCache`: `WF(Work)`, the worker is a running thread.
`SF(DrainImages)`: the frontend drains once per frame (`src/wr64_achievements_ui.cpp`) on
the thread that makes the requests; strong, because the worker holds the mutex for moments in
between, and a frame comes again and again. `WF(StopNotify)`, `WF(StopJoin)`: a shutdown
that began goes on. Requests, starts, spurious wakeups and exceptions are not assumed.
`badges_shutdown` does not depend on the strength of the drain: its counterexample ends
with the worker asleep and the main thread in `join`, where no fair action is enabled.

In `AchievementService` the worker runs, the frontend ticks in every frame of its own, a live game has frames, and
`main()` goes on with shutdown; each is a weak fairness condition, written with what enables the step where
`ENABLED` is too slow to evaluate. Of the frames and ticks, those without a trigger and without a due retry are fair: a
retry's delay is a second or more, so that most frames are of that kind. No answer is assumed to be good. In `SavingThread` the
thread runs, and game code that has written goes on to its signal. In `Runtime` no host thread is held up for ever; all but the
VI thread take finitely many steps that stay enabled until they are taken, or until a step of another that is bound to come, so one condition
on their disjunction is enough. The player need not quit and the game need not begin a call. `runtime_quit` needs
no more than that: after `std::terminate` nothing is enabled.

Each property has a mutant in `PROJECT.json`: a plausible bug in a mapped definition
that makes the property fail. Mutant forms stand before the definitions they
change and take part in no specification.

## 4. Disagreements between code and text

Three are shown by runs:

1. `remove`: `thread_queue_remove` (`threadqueue.cpp:46-54`) compares with the head of
   the list in each iteration instead of moving on. Removing a thread behind the head never
   returns. `osDestroyThread` of another thread reaches it.
2. `badges_shutdown`: `shutdown()` stores `stopping` and notifies without the mutex
   (`wr64_achievement_badges.cpp:394-395`). Both can fall between the worker's
   test and its sleep; `join()` then waits for ever.
3. `runtime_quit`: `quit()` resets `current_game` (`recomp.cpp:635`), which the game start thread reads without
   the mutex while it loads the game (lines 784, 790 and, in `init_saving`, 597), and each thread of the game when it
   starts (line 546, under a handler for `thread_terminated` only, `threads.cpp:234-238`). `value()` of the empty optional
   throws where nothing catches it and `std::terminate` ends the process, where `recomp.cpp:628` and `main.cpp:613` speak of
   joins and of `main()`'s teardown. `RuntimeInv` says that only a quit does this; it takes a quit during the ROM's loading or before a thread of the game starts.

More were met while modelling and follow from the same modules:

* The first save of a ghost slot allocates (a durable file of zeros) and then writes, although "One Store
  transaction includes metadata and both slots" (`wr64_ghost.cpp:387`). A crash between the two, or an undo that fails, leaves a
  file that every later save and clear answers with `CorruptData`.
* `LoadMods` stores `GameStatus::None` after an error (`recomp.cpp:826`) even if somebody has called `quit()` since, whose
  exchange found `Running`: the game start thread then waits for a status that nobody stores, and `start()` for the thread.
  `QuitEnds` excludes it by `mods_failed`.
* A framebuffer or a retrace event stored between the VI thread's swap and its copy (`events.cpp:121-122`), through an
  address computed before the swap, or before a late `set_dummy_vi`, is overwritten; the boot's loop on
  `osViGetCurrentFramebuffer` then never ends. `SettingsKept` and `BootEnds` exclude it by `overlapped`.
* `start_game` stores `Running` whatever the status was, a `Quit` included (`recomp.cpp:611`); the game then starts
  although `exited` is set. The game's threads are not joined before RDRAM is freed; only those the runtime makes are.
* `SavingThread`: the desktop build does not look whether the write succeeded (`pi.cpp:143-146`), so a part of an image
  may replace the primary, and the next save copies it over the backup; a crash in the last copy leaves a partial primary that opens,
  so the backup is not read at the next start; a failed save is not tried again until the next write; writes signalled after the
  thread's last wait before a quit are lost; and `exists()` (`files.cpp:39`), whose error is ignored, would skip the backup
  before the primary is replaced, which the model leaves out. `NothingForgotten` and `LastImageKept` are stated beside these (`sound`, `saving_failed`, `signals = 0`).
* `AchievementService`: a sign-out that is queued and not carried out yet, followed by another game with a user still signed in,
  gets a sign-in with the old token behind it (`set_game_identity`, `wr64_achievements.cpp:658-666`), which saves the credentials again, against
  `:544-546` ("a previous login cannot restore its token after a sign-out or account switch"). `CredentialsFollowCommands` takes the restore for a command like
  others. `main()` identifies its game once per process, so that the frontend cannot do this. `remove_credentials` ignores the error of
  `filesystem::remove` (`wr64_achievements_platform.cpp:221-222`), and `run_worker` swallows exceptions (`wr64_achievements.cpp:150-155`): after a sign-out whose removal failed the token
  stays on disk and signs its owner in at the next start (`unremoved`). `game_stopped` during a sign-in leaves `view.busy` set.
* A destroyed thread keeps `state` QUEUED and its `queue` field, and the test against destroying it
  again (`threads.cpp:322`) comes after `thread_queue_remove`, which then searches a list
  that does not hold the thread. `Scheduler` has this outcome; `SchedInv` says nothing after a halt.
* `ControllerPak` with damaged initial files and reads that fail: a process that loaded
  the backup because the primary failed to open copies that primary over the backup
  (`controller_pak.cpp:188-190`). If the primary is damaged and the rename fails, no image that
  loads is left. `FirstDisks` therefore has reads that fail with good files only.
* `GhostAutosave` with reads that fail: when the primary fails to read and its slower backup
  does not, a run that only beats the backup replaces the faster primary. `BestNeverSlower` is stated for
  the behaviours without such failures (`~reads_fail`); `BestKept`, about the best in memory, for all.

## 5. Proofs

The runs fix small sets; the theorems hold for every value of the constants that the named assumptions of
the modules allow. Each proof module extends the module it is about.

`SchedulerProofs`, for any threads, queues, capacities, priorities, event sources and victims:

| Theorem | Statement |
|---|---|
| `SchedulerInvariant` | `Spec => []SchedInv` |
| `TypeCorrect` | `Spec => []TypeOK`; with it, ring indices stay in their array |
| `ThreadInOneQueue` | `Spec => []OneQueue` |
| `QueuesStaySorted` | `Spec => []ListsSorted` |
| `PriorityRespected` | `Spec => []HighestPriorityRuns` |
| `AlwaysAThread` | `Spec => []NeverOutOfThreads` |
| `NoWakeupLost` | `Victims = {}` gives `Spec => []NoLostWakeup` |
| `RingsAreQueues` | `Spec => ImplementsFifo`, the refinement of `MesgFifo` by rings, calls and posted messages |
| `EventsKept` | `MQs` finite and `SourcesApart` give `Spec => RequeuedEventsKept` |

`ControllerPakProofs`, for any names, sizes, page size, capacity and first files:

| Theorem | Statement |
|---|---|
| `PakInvariant` | `Spec => []IInv` |
| `PakSafe` | `Spec => []PakInv`: types, and every directory held or saved can be loaded |
| `RefusedPakStays` | `Spec => RefusedPakUntouched` |
| `LastImageSurvives` | `ReadableFirst` gives `Spec => LastImagePreserved` |
| `PakIsAtomic` | `Spec => ImplementsAtomicPak`, the refinement of `AtomicPak` |

`GhostAutosaveProofs`, for any courses, times, lengths of runs and first files:

| Theorem | Statement |
|---|---|
| `AutosaveInvariant` | `Spec => []IInv` |
| `ArchiveSafe` | `Spec => []ArchiveInv` |
| `StaysReadable` | `Spec => ArchiveStaysReadable` |
| `DamagedStays` | `Spec => DamagedArchiveKept` |
| `BestSurvives` | `Spec => BestKept` |
| `NeverSlower` | `Spec => BestNeverSlower` |

`GhostSlotsProofs`, for any courses, times and trajectories:

| Theorem | Statement |
|---|---|
| `SlotsInvariant` | `Spec => [](TypeOK /\ CallOK)` |
| `SlotsTypeCorrect` | `Spec => []TypeOK` |
| `OtherSlotSurvives` | `Spec => OtherSlotKept` |
| `BetterSlotSurvives` | `Spec => BetterSlotKept` |
| `ShownSlotsAreSaved` | `Spec => []ShownIsSaved` |

`BadgeCacheProofs`, for any badge names and limits:

| Theorem | Statement |
|---|---|
| `BadgeCacheInvariant` | `Spec => []IInv` |
| `BadgeTypes` | `Spec => []TypeOK`; with it, both limits are kept |
| `FilesOnce` | `Spec => []EachFileOnce` |
| `StoppedCacheEmpty` | `Spec => []StoppedIsEmpty` |

`SavingThreadProofs`, for any images, builds and bounds:

| Theorem | Statement |
|---|---|
| `SavingInvariant` | `Spec => []IInv` |
| `SavingTypeCorrect` | `Spec => []TypeOK` |
| `NoWriteForgotten` | `Spec => []NothingForgotten` |
| `LastImageSurvives` | `Spec => []LastImageKept` |

`RuntimeProofs`, for any failures of startup and any bound on the game's calls:

| Theorem | Statement |
|---|---|
| `RuntimeInvariant` | `Spec => []IInv` |
| `RuntimeSafe` | `Spec => []RuntimeInv` |
| `SettingsSurvive` | `Spec => []SettingsKept` |

`AchievementServiceProofs`

| Theorem | Statement |
|---|---|
| `ServiceInvariant` | `Spec => []IInv` |
| `ClientsOutlive` | `Spec => []ClientsInv`: no answer meets a destroyed client |
| `CredentialsFollow` | `Spec => []CredentialsFollowCommands`, up to a removal that failed |
| `ShownCurrent` | `Spec => []ShownIsCurrent` |
| `LastChances` | `Spec => []UnlocksGetLastChance` |

### Assumptions

* `Scheduler`: the idle thread is a thread and not a victim, and null is no thread (`ThreadsAssumption`); priorities
  are naturals with the idle thread's 0 among them (`PrioritiesAssumption`); capacities are positive, requeued
  sources are sources (`QueuesAssumption`); null is no list (`NullAssumption`). `MaxExternal` is a guard of the
  enqueuing actions only, and any natural will do.
* `NoWakeupLost`: no thread destroys or reprioritises another. A destroyed thread that was woken takes its wakeup
  along, so the property is false without this; `game` has the same restriction. The recompiled game calls `osSetThreadPri` for the
  caller alone (`RecompiledFuncsPoint0/funcs_0.c:3214` passes null) and never `osDestroyThread`, which
  `recomp_overlays.inl` names for mods.
* `EventsKept`: finitely many queues, so that events in them can be counted, and the events of a requeuing source
  are told from what game and host threads send (`SourcesApart`), as `game` has it. Otherwise a dropped message of theirs would
  count as one of its.
* `ControllerPak`: there are entries, pages and bytes in them; sizes are naturals; the marks for a free entry, an absent
  or damaged file and no candidate are none of the values they stand beside. `LastImageSurvives` has `ReadableFirst`: a disk
  whose reads may fail holds at first no primary or one that loads. Section 4 has the behaviour that it excludes.
* `GhostAutosave`: times and the length of a recording are positive; a file holds an archived run, or is absent or damaged.
* `GhostSlots`: times are naturals, and the marks for an absent file, a file of zeros and no run are
  none of the values they stand beside.
* `BadgeCache`: one image may be ready; the mark for no task is no task.
* `SavingThread`: the image of a new game is an image, and the marks for no file and for a part are
  not (`ImagesAssumption`); `max_actions` and `MaxSignals` are positive (`ActionsAssumption`).
* `Runtime`: the kinds of failure are those of startup, and the game's calls are not cut off before the boot's (`RuntimeAssumption`).
* `AchievementService`: the mark for no work, no half and no catalogue is none of these (`NoneAssumption`), and the bound leaves
  room for the first command, with which the service starts when credentials are saved (`BoundsAssumption`). The accounts may be any.

### Arguments

*Lists and token.* None of the properties is inductive alone. That the running queue is never
empty when a thread blocks rests on the idle thread being listed or running, which rests
on each thread being in one list with the `queue` field that names it (else a pop could
take it elsewhere), and on the idle thread never making a blocking call. That the
holder has the highest priority rests on sorted lists: `check_running_queue` looks at the head
only. `SchedInv` conjoins them with the state before boot and the idle thread's places. Lemmas about `InsertByPriority`
(members, distinctness, order) come first, then one per list operator (`PopGood`, `ScheduleGood`, `InsertGood`, `CheckGood`, `RunNextGood`,
`BlockGood`, `WakeGood`) on `Good` scheduler records, then the rings (`PutType`, `TakeType`),
then one lemma per action, and the induction.

*Wakeups.* `Sound` strengthens `NoLostWakeup` by one fact: who is in the wait list of a queue is in `do_recv` (or `do_send`) on that
queue, so that whoever `WakeOne` moves to the running queue joins `OnTheirWay`. `Pending` is what there is to have, messages or slots. The
kinds of step are few: the token changes hands among ready threads, which changes neither side of the inequality; a message is put or
taken, and the change of `Pending` by one meets a woken thread; a thread that was on its way takes one, and both sides go down;
or it finds nothing and waits, and nothing is pending. Each is a lemma, and the actions are cases of them.

*Rings.* `SlotWraps` gives the index of the i-th message without a modulus, and from it `PutTailAppends`, `PutHeadPrepends` and `TakeHeadTakes`
say what the three operators do to `Contents`. `RingStep` sorts the steps of `Scheduler` into puts, takes, creations and those
that leave rings and the received word alone. That each is the step of `MesgFifo` which the caller's request allows needs two invariants beside `SchedInv`: `SendsOK` (a send has a
message, never null) and `CallsOK` (a thread in a call is alive, and no other but a destroyed victim has a request). `PostsAppend` and `PostsWithout` follow the host's messages through `external` and `requeued`.

*Requeued events.* The number of occurrences of an event in three places is compared through injections (`AsMany`): `Without(i)` loses one
message, a put gives one a place of its own and moves the others, a take moves all but the first. `EventsMarked` says that
a message of a requeuing source carries its flag wherever it is, also when another thread has enqueued it again; so what finds its queue full
is set aside and comes back.

*The Pak.* `SaveOK` says what the files hold at each step of a save, and `SeesDurable` that on a disk that reads well the process sees
what the next start would find, until the rename: with it every step maps to one of `AtomicPak`. That a saved directory can be loaded
rests on page counts: the model counts used pages as a set (`UsedPages`) where the code sums sizes, so that
what an allocation adds and a deletion removes follows from facts about finite sets.

*The archive.* Calls are functions from a world to a set of worlds, and so are the lemmas: each
takes a world that is in order (`WorldOK`) and says that every outcome is in order and `Follows` from it: no best gets
slower, no readable archive ceases to be, damaged files are equal. `Follows` is transitive, which composes reads, writes and retries
within one call; the action properties are read off it. The invariant relates entry and files: a clean best is among
the archived runs, and with files that can be read it is at least as fast as all of them.

*The slots.* The write comes some steps after the comparison that allowed it, and the file could
have changed in between if the call were not the only one. `CallOK` says it has not: while a call is about
to write, the runs it holds differ from the file's in its own slot only, and there with consent or by a
better run; and a file is there unless the call allocated it, which is all that an undo removes. `FileChanges`
then leaves the write as the only step that changes a file with ghosts in it.

*The badge cache.* `EachFileOnce` is about four stations at once; the invariant says that they share nothing (`StationsApart`), that all
of them were requested, and that a file is requested once (`QueueOK`), so that a request for a known file can only move it forward (`PromotedOnce`).
`WorkerOK` has where the worker holds a task, and that without a worker nothing is left.

*The saving thread.* `NothingForgotten` speaks of an idle thread, so the invariant follows a write through the save: what the buffer holds
is on its way as a signal, as a counted action (`Outstanding`), or in the file that the present step has reached (`TakenAt`).
`LastImageKept` needs where the last image is in each step of a save: in the primary until the copy to the backup ends, then in
the backup until the primary is whole again (`KeptAt`), which is why `StartReplace` may empty it. `Branch` says what the Switch build never reaches.

*The lifecycle.* `JoinedEnded` follows `main()` through its joins: what it passed has ended, and since the game start thread, which makes the
others, is passed first, none can appear behind it (`MadeInOrder`). `NamedUntilQuit` and `CallsInOrder` tie the name, the status and the game's calls to
the places of the threads; `SettingsInCopy` says in which of the two VI states the game's settings are between the swap and its copy.

*The achievement service.* Its calls are functions on the service, and a tick composes a dozen of them, so the invariant is stated of a service in
the middle of a call: `Good(S, c, n, k, cr, X)`, where n of the answers c were given, k is the last command carried out, cr the credentials on disk that it answers
for (`Accountable`: none, once a removal failed), and X the clients whose retries are yet to be flushed. Each function has a lemma on `Good`; an action composes them with n = 0 and X empty at both ends.
`ClientsInv` is inductive with little more (`Counted`, `Clients`): a request is in one of four places, and moving it keeps the sum. The others need to know what work is still
on its way. `Sent` has an answer outstanding for each unlock that was submitted, and `Retries` no retry scheduled by a retired client, since the answer that
would schedule it flushes it at once: with nothing outstanding, which is when shutdown stops the worker, every unlock is settled or cancelled. `Chances` says that a
cancelled one met an outage after its client was retired; the flush of a retired client's delayed retry therefore has to send it. `Kept` reads the queue as the
worker will: credentials the last command does not leave, on disk or about to be saved, have a removal behind them. A sign-in's `remember`
arrives with a login of the current client, which is the last command's (`Known`) and only the current client's login is saved; a sign-in with a token, which removes nothing,
is queued only when what is on disk or about to be saved fits it too (`Tokens`). `Shown` adds that the halves that have arrived are of the present refresh. That answers and commands are done in their
order is read off the recursive functions by `RespondsNext` and `CarriesNext`, which extend them by one, and from a least counterexample (`Steps`).

*Only model-checked.* Liveness (`Served`, `ShutdownEnds`, `BusyEnds`, `SavedEventually`, `BootEnds`, `QuitEnds`) is out of the prover's reach. The three properties
that section 4 begins with do not hold.

## 6. What is abstracted

Thread names, stacks and host priorities; message payloads (model values); the contents of
files; poses and bytes of a run; PNG validation, HTTP and file ages in the badge cache; port
numbers of the Pak; names, texts and secrets of accounts, leaderboards and more than one achievement; VI modes, blanking and the
registers that the VI thread fills from a state before it swaps; the renderer and RSP tasks. Only the
Windows build keeps credentials (`wr64_achievements_platform.cpp:151`); on the others every save of them fails, one of the outcomes of
`FinishWork`, and that a build has only this one is left out. A save file that is there but fails to open when the program starts, for which the
backup is then read, is left out, too. Left to the game's choice: which call a thread makes, and with which arguments,
except that the idle thread ends in `pause_self` at priority 0, as the game's does
(`RecompiledFuncsPoint0/funcs_0.c:3200`). The ghost storage directory is set once, as
`wr64_ghost_native.cpp:52` does.

## 7. Not modelled

* The timer thread's queue and set: the recompiled game calls neither `osSetTimer` nor `osStopTimer`
  (`RecompiledFuncsPoint0/recomp_overlays.inl` names them for mods only), so no state of it changes in this program.
* `change_save_file`, which only mods call.
* Diagnostic builds: the forensic recorder, render provenance, the timed run, the frozen composer.
* Renderer, menus, windows, input and the patches to courses and cameras: glue to libraries, or data transformations within one
  frame that the tests beside them compare with expected values.
* Generated code and third-party libraries, which are most of the repository's lines.

## 8. Plan

Done: (1) scheduler and queues with their proofs; (2) Controller Pak and its refinement;
(3) badge cache; (4) ghosts; (5) achievement service; (6) saving thread with its proofs; (7) runtime, with the VI states;
(8) the proofs of runtime, badge cache, Controller Pak and archive, and those of wakeups, rings and requeued events;
(9) the proofs of the achievement service. No safety property that holds is left to TLC alone.
