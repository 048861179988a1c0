# Verification project for sf64-psp

TLA+ models of the PSP port of Star Fox 64, checked with TLC and proved with
TLAPS. They cover the part of the program that the port added around the
decompiled game: its threads, queues, deadlines, interrupts, rings and files.
Every definition is translated from the source; `PROJECT.json` maps each one to
the lines it stands for.

    tlc -workers 2 -config MCTaskScheduler.cfg MCTaskScheduler
    tlapm TaskSchedulerProofs.tla

## 1. The system

The program is one PSP process of some ten threads over the message queues of
the console's original operating system. Five kinds of parts matter here.

| Component | State it keeps | Operations | Talks to |
| --- | --- | --- | --- |
| Task scheduler (`sys/sys_main.c`, `sys/task_pending.h`, events of `psp/platform.c`) | pending FIFO, active slots, current task, state of each `SPTask`, the vertical-interrupt latch | one loop of the main thread: receive an event, admit, start, run, answer | graphics and audio threads by queues; VI thread by a latch and a queue |
| Graphics loop (`Graphics_RunPspScheduler`) with frame scheduler and frame interpolation | deadlines on the wrapping VI counter, two pools of frame data, the task in flight, what each pool can be interpolated with | wake, apply settings, simulate, present, exit | the main thread, which draws the submitted pool concurrently |
| Timer service (`psp/timer_core.c`, thread in `psp/ultra_reimpl.c`) | table of slots with generations | set, stop, dispatch, complete, wait | any thread; posts to queues |
| Delayed actions (`sys/sys_timer.c`) | `sTimerTasks` | create, run, free | timer service |
| Saved game (`psp/eeprom_store.c`, `sys/sys_save.c`) | image in memory, last save, three files | init, begin, write, commit, read | serial thread; the memory stick |
| Audio output (`psp/audio_output.c`) | ring of eight blocks, two semaphores and a mutex | reserve, commit, output loop | audio thread, output thread, the audio device |
| Media Engine audio (`psp/audio_me.c`, `psp/audio_mode.c`, `AudioThread_CreateTask`) | shared state word, mixer owner, list in flight, modes asked for and in force | init, create task, set-async, submit, wait with timeout and soft interrupt; process, fault, interrupt | audio thread and a second processor; audio output |
| Audio commands (`audio/audio_thread.c`) | command ring of 256, schedule messages, spec changes | queue, schedule, process | graphics thread; audio thread |
| Serial thread (`sys/sys_joybus.c`, `engine/fox_save.c`) | one request queue, one answer queue per kind | read controllers, rumble, read and write the save | graphics thread; saved game |
| Settings (`psp/settings.c`) | selection, changes that wait for a frame boundary, three files | read, set, apply, save | menu; graphics loop at its boundary |
| Ad-hoc room (`psp/adhoc.c`) | places with tokens and sequence numbers; a watcher's join | accept, refuse, keep, prune, close; join, retry, leave | the other PSPs, by packets |
| Ad-hoc worker (`psp/adhoc.c`) | a request slot with a serial number, a published view, the layers of the radio | request; open, close, step | menu; the radio |
| Multiplayer menu (`psp/menu.c`) | screen, the room kept during a match | choose, retry, go back, continue, close the room | ad-hoc worker; the game |
| Renderer, synthesis, game, levels, profilers | large data | sequential | |

What is hard about them, and what makes each correct:

- **Task scheduler.** Five threads share one event queue with non-blocking
  posts whose failure is ignored; a lost completion event stops the picture for
  good. Tasks may interrupt each other and complete in two halves (SP, DP).
  Correct means: no event is ever dropped, a task is in one place, an answer
  belongs to the task in flight, a task starts once per submission, every task is
  answered.
- **Graphics loop.** Two pools are written by one thread while the other draws
  and interpolates between them; deadlines are compared on a counter that
  wraps; wakes may be late or doubled. Correct means: what is drawn does not
  change, what is submitted is the newest frame, motion does not run backwards,
  a steady game interpolates, a late game keeps presenting.
- **Timers.** A timer is taken from the table under a lock and delivered
  without it; in between its owner may stop it, set it anew, or lose its slot to
  another timer. The wait is prepared before it begins. Correct means: what a
  caller sees is a simple table of timers.
- **Saved game.** Power may go between any two file operations and each may
  fail. Correct means: a restart finds the old image or the new one, whole, and
  the result reported is true.
- **Audio output.** Blocks are filled and played without the lock. Correct
  means: no block is written while it is played, none is lost, repeated or
  reordered, and the semaphores agree with the ring.
- **Media Engine.** Two processors share a state word and the mixer's state, in caches
  that are not coherent. A list may fail, fault, be late by two timeouts, and finish
  after it was given up, while the player changes the mode. Correct means: one mixer at a
  time, from the newest state; a block is left alone while it is filled and never played
  unfilled; sound goes on.
- **Command ring.** The game's thread fills a ring and the audio thread empties it,
  by messages that may be dropped; STOP commands hold back what follows them until a later
  message, and a change of audio specification relies on one. Correct means: commands run in
  turn, none runs ahead of the reset it was queued behind, every STOP is left behind in
  the end, and both threads agree on the specification.
- **Serial thread.** Controller reads and saves share a queue and are answered through
  queues of one, all without waiting; a controller sample is older than the menu it
  is judged by. Correct means: what a call returns is true of that call, nobody waits for ever,
  and no press meant for the menu reaches the game.
- **Settings.** As for the saved game, with other rules of recovery, no checksum, and a menu
  that must go on saying that a save failed.
- **Ad-hoc room.** Packets are lost, late and out of order, also across joins and rooms.
  Correct means: one place for each watcher, a connection only where a place was given, a live
  place is never taken away, an abandoned one is freed.
- **Ad-hoc worker and menu.** A request replaces the one before at any point of the worker,
  and each of some forty system calls may fail. Correct means: the menu never
  sees the outcome of a request it replaced, layers are closed in order, and the radio is off when nobody
  wants it.

## 2. Modules

| Module | Role |
| --- | --- |
| `MesgQueue` | the operating system's message queue, as its callers use it |
| `TaskScheduler` | main, VI, graphics and audio threads around the task queues |
| `TaskSchedulerProofs` | its theorems |
| `FrameScheduler` | the deadline arithmetic of `frame_scheduler.c` as pure operators on a counter modulo `VIMod` |
| `GraphicsLoop` | the graphics loop over `FrameScheduler`, the pools, the interpolation and an abstract renderer |
| `GraphicsLoopProofs` | its theorems |
| `TimerParameters` | the timers, clock and queue of the next three, and how deadlines saturate |
| `Timers` | what `osSetTimer` and `osStopTimer` promise |
| `TimerService` | slots, generations, dispatch and wait; implements `Timers` |
| `TimerTasks` | the game's delayed actions over `Timers` |
| `TimerProofs` | theorems of the timer service, the refinement among them, and of the delayed actions |
| `AtomicSave` | what saving promises |
| `EepromStore` | the files, operation by operation, with failures and power loss; implements `AtomicSave` |
| `PcmStream` | what the audio output promises |
| `AudioOutput` | ring, semaphores, two threads and the device; implements `PcmStream` |
| `AudioOutputProofs` | its theorems |
| `AudioMe` | the audio thread and the Media Engine around the shared state word |
| `AudioThreadProofs` | theorems of `AudioMe` and of `AudioCommands` |
| `AudioCommands` | the command ring, its messages and the change of audio specification |
| `SettingsStore` | the settings file, operation by operation; implements `AtomicSave` |
| `SerialThread` | the serial thread and its clients, over `AtomicSave` for the store |
| `Saves` | the three systems on the memory stick side by side: `EXTENDS EepromStore`, instances of the other two |
| `SavesProofs` | its theorems, two refinements of `AtomicSave` among them |
| `AdhocRoom` | host and watchers over a bad radio |
| `AdhocRoomProofs` | its theorems |
| `AdhocWorker` | the request slot, the worker thread and the layers of the radio |
| `MultiplayerMenu` | the multiplayer screens, which `EXTENDS AdhocWorker` |
| `AdhocWorkerProofs` | theorems of the two together |
| `MC*` | instances for TLC |

How they compose: `GraphicsLoop` treats the main thread as a service that draws
one submitted task at a time and answers once; `TaskScheduler` is where that
service is modelled in full (`AnswerMatchesTask`, `GfxTaskAnswered`). `TimerTasks`
uses the abstract `Timers`, which `TimerService` is shown to implement. `AudioMe`
sees of the ring of `AudioOutput` only that a block is reserved and committed in
turn, which is what `audio_output` shows the ring to be good for. `SerialThread` uses `AtomicSave`
for the saved game, which `EepromStore` is shown to implement. `MultiplayerMenu` drives
`AdhocWorker`, to which a session is a step that goes on, shows something new or fails; `AdhocRoom`
is the session, in which either end may fail or leave at any time.

### Correspondence with the code

**TaskScheduler.** A variable per queue and per scheduler array, named as in the
comment beside it; `mainPc`, `gfxPc`, `audioPc` and `viPc` say where each thread is.
The slot arrays are the sequences of their non-NULL entries, because
`Main_HandleRDP` closes the gap it makes. One action per handler; the drawing of
a task (`Main_RunTask`, `PspPlatform_RunGfxTask`) is the time between `StartGfx` and
`PostSP`, `PostDP`, in which the other threads run. VI events have a latch
tested and set with interrupts off, and a send after they are on again: two
actions. A behaviour whose `audioPc` is "off" is the shipped build (`PSP_AUDIO=1` in the Makefile),
where the audio thread never submits; the other build is modelled too. There
`AudioThread_CreateTask` may return a task or none (`AudioBuild`).

**GraphicsLoop.** One pass of the loop is `Wake`, `Boundary` (settings),
`BuildBegin`/`BuildEnd` for each frame simulated and `Present`. A wait for the
renderer is joined to the step after it: nothing is in flight between the two.
The interpolation keeps for each pool the VI it was simulated for, a generation
and whether it may be interpolated (`sPools`); its matrices are left out.
`shown` and `steady` are history variables for two properties.

**TimerService.** What runs under `sTimerLock` is one action; the signal of
`sTimerWake` after it is another. A slot carries its generation, as in
`timer_core.c`, which is how a delivery notices that it was overtaken.

**EepromStore.** Each file operation is one step between two states of `disk`,
where a file holds an image, is torn, or is missing. Writing a file is two steps
with a torn file in between. `Crash` may come at any step and clears memory.
Rename fails onto an existing file. The lock is left out: only the serial
thread calls the store.

**AudioOutput.** What runs under `sMutex` is one step, and the waits and signals
of `sReady` and `sSpace` are steps of their own. The device reads the block it was given
until it has taken the next one; a refused block leaves it silent.

**AudioMe.** `pc` is the place of the audio thread in `PspAudioMe_Init`, then in
`AudioThread_CreateTask` and the functions it calls; `mePc` is the Media Engine's in `meLibOnProcess`. Each
read of the state word that decides something is a step of its own, because the other
processor may change it before the next one: `WaitEnds` or `TimeOut`, then `Done` or `NotDone`, then
`Recover` or `GiveUp`, then `MeStillRunning` or `TakeOver`. The mixer's state is modelled as its copies in
memory and in the two caches: which exist, which are dirty, which are up to date. A cache
may evict its copy at any time. The completion semaphore is left out: it only
shortens waits that have a timeout and read the word again. `SubmitToCpu` keeps the refusal of
`audio_me.c:6236`, which its caller's own test makes unreachable. Left out: the cache ranges of
voices and lists; that a fault may leave memory with part of a newer state
(the code validates it where it can); the calls that have no buffer to begin (`numBuffers` is 2, so
every second call returns at once), and `PSP_VME`, off in the shipped build.

**AudioCommands.** `Game` is `Audio_Update` on the graphics thread, `Audio` the frames of
`AudioThread_CreateTask`. The ring is written without a lock, but each thread writes its own
positions, so that a queued command, a message sent or received and a command executed are one step each. Positions
are bytes in the code and numbers modulo `RingSize` here. `due`, `ran`, `resets`, `barriers`, `overrun` and `overtaken`
are history. What a command does is left out but for STOP; the fade of each step of a reset takes any
number of frames. `Awaited` is the condition of `Audio_StartReset` (`audio_general.c:2733-2742`): a change from
the versus mode to anything but the title or the opening leaves the status as it was, and the game
goes on without an answer. No part of the game asks for such a change: a match is left through the title
or the opening (`fox_title.c:287`, `292`, `2298`) or through the menu (`fox_option.c:567`), so `ChangeSpec` has
`Awaited` as a guard, and what is said of changes is said under it. The two ways to wait, BLOCK and WAIT, are one `status`, "wait".

**SettingsStore.** As `EepromStore`. A torn file is one without the end of its last line. A write that
stops short may also end with the line of the backend: such a file can be read, and gives the quality its
default (`Short`). A loss of power leaves all of the new contents or none, because the file is less than a sector (512 bytes in
`psp_settings_read`).
`BeginSave` is where `PspSettings_SetGraphicsBackend` writes at once and `Apply` where a new quality
waits for the boundary between frames.

**SerialThread.** `Update`, `BeginTick`, `Tick` and `EndTick` are the graphics thread's frame, `Take...` to
`ReadSave` the serial thread's loop. All buttons are one, with its presses numbered, which is what tells an
old press from a new one. `Save_Write` and `Save_Read` are a send and a blocking receive.
`Save_Read` takes over what was read before it looks at the checksums: a blank image overwrites `gSaveFile`, and the call fails.

**AdhocRoom.** A place is an `AdhocPeer`; a watcher's row is `sToken`, `sSequence`, `sAcceptedSequence`,
whether it knows the host's address and the session it wants. A receive and the answer to it are one step, because the worker of
each PSP does nothing in between that the other could see. Nonces are numbered in the order they are drawn: the code
has 32 bits for a token and keeps 20 of them for a host's session, and two equal ones are out of scope. Timers become steps that may come at any time,
except that `AbandonedPlaceFreed` needs `adhoc_prune` to come at last. `Prune` too may free a place at any time: `LivePlaceKept` is
about the places the packets of others take, and says nothing of the three seconds after which the host gives a watcher up (`adhoc.c:17`).

**AdhocWorker, MultiplayerMenu.** One step of the worker is one system call of `adhoc_open` or
`adhoc_cleanup`, one pass of `adhoc_step`, or one look at the request's serial number. Of the serial
numbers only their equality matters (`current`). `layers` is `sResources`; modules that were loaded before
are `foreign` and stay. Each press in the menu is one step, because menu and game share a thread of higher priority.

## 3. Runs

| Run | Properties | Shows |
| --- | --- | --- |
| `task_scheduler` | NoEventDropped, TaskHeldOnce, AnswerMatchesTask, StartedOncePerSubmission, GfxTaskAnswered | both builds, chosen in the initial state: the shipped one, and the one without `PSP_AUDIO`, with two kinds of tasks and interruptions |
| `graphics_loop` | DrawnDataStable, SubmitsNewest, MotionNeverGoesBack, SteadyFramesInterpolate | the pools and the renderer, late wakes, settings, rates that change, deadlines dropped |
| `graphics_loop_live` | KeepsPresenting | the loop keeps presenting, through changes of scene |
| `graphics_exit` | ExitDrained (violated) | see Findings |
| `timer_service` | ImplementsTimers, EveryTimerFires | a full table, timers overtaken while delivered, a wait overtaken while prepared; refinement |
| `timer_tasks` | TaskInOnePlace, EveryTaskCompletes | delayed actions when the timer table is smaller than the task table |
| `saves` | ImageIsStored, SavesAreAtomic; ShownIsStored, SettingsAreAtomic; MenuKeepsItsPresses, ReturnIsTrue | failures and power loss, two refinements of `AtomicSave`; the serial thread and its clients; no deadlock in any of the three |
| `audio_output` | WakesMatchBlocks, NotOverwritten, StreamsInOrder | the ring, refinement with liveness |
| `audio_me` | MixersExclude, MixesNewestState, HandoverComplete, BlockLeftToMe, PlaysSoundOrSilence, SoundGoesOn | timeouts, faults, failed lists, late interrupts, changes of mode, evictions |
| `adhoc_room` | OnePlacePerWatcher, ConnectedWasGranted, LivePlaceKept, AbandonedPlaceFreed | three watchers, two places, two rooms, a bad radio |
| `multiplayer_menu` | PublishedIsCurrent, LayersNested, RadioGoesOff | every press against every point of the worker, any call failing |
| `audio_commands` | CommandsInTurn, BarrierHolds, SpecFollows, CommandsRun | a game that queues at any time and changes the specification twice |

`saves` runs the three systems of `Saves`, which share no state: `part` says which one moves, so nothing is
interleaved that does not meet. The type invariants have no run of their own: where a component has theorems
they are proved (`TypeCorrect`) and are part of the inductive invariant.

Each property of a passing run has a mutant in `PROJECT.json`: a plausible bug in
one action, under which the property fails.

### Bounds

- `MainCap = 5` (code: 32): the least capacity with which no event is dropped,
  so the run also says how many can be outstanding. The proof covers every
  capacity from 5 on. `TaskCap`, `PendingCap`: 16 in the shipped build, but 2 and 1
  here so that both fill up. One graphics task, submitted again and again, is the hardest
  case for what is said of resubmission; an audio task object may be submitted twice.
- `VIMod` 10 or 12 (code: 2^32): larger than twice every distance that occurs, so
  comparisons behave as on the full counter, and small enough that the counter wraps
  many times. `MaxElapsed`: at most two VIs between two readings, and several
  readings before the loop returns to its deadline, enough to drop deadlines at the rates 1 to 3.
  A modulus of 10 would be too small for the rate 3. `graphics_loop_live` has two scenes, which change at any
  frame; the other graphics runs have one. `Generations = 3`: two pools are never
  three generations apart.
- Timers: two slots for three timers, so that the table is full and slots are
  reused; three calls, which is stop and set anew during one delivery; a clock of four
  microseconds that saturates at its last; a wait of at most one, so that long
  waits are split; a queue of one, so that a post is dropped. `TimerTasks`: three tasks,
  two timers.
- Saves: two blocks of three values are enough for a mix of two saves to differ from both
  and from a blank image; two failing operations, so that the way back from a failure may fail
  too; power loss unbounded. The settings have two values of each kind and three failures. The serial thread
  has a queue of two requests (code: 8), which is enough for none to be lost; three presses are one before,
  one in and one after the menu; two saves or loads.
- Audio: eight blocks and a queue of three, as in the code; two lengths tell
  blocks apart in any order.
- Media Engine: finite without bounds or constants. Both timeouts may come at any time, however
  soon, an interrupt may be taken at any later time, and every list may fail.
- Commands: a ring of four slots and two messages, so that both fill up and the ring is lapped; four commands
  of the game's own and two changes among three specifications, one of them that of the versus mode and one the title; the second
  change may overtake the first; one STOP after a restart (code: three).
- Room: three watchers for two places, two rooms, three joins in either of them, of which the first sends two JOINs, and two packets in the
  air, which is what it takes to overtake. The watchers are alike, so the run fixes which of them
  draw the first two tokens (`InTurn`). Nothing in it counts, so more of each meets the same
  cases; the proofs hold for any number.
- Worker and menu: finite without bounds.

### Fairness

Weak fairness per thread: the PSP kernel runs every ready thread, and none of them
waits for ever on a lock (locks are held only for the length of one
action). In `TaskScheduler` the display interrupts for ever. In `GraphicsLoop` the loop and
the renderer keep running and VIs keep coming; a wake that finds no new
VI is not counted as progress. The timer thread has the highest priority of the game's
threads. In `AudioOutput` the output thread runs and the device takes or
refuses a block; only the last step of a commit is fair for the audio thread, which may
otherwise stop playing. In `AudioMe` the audio thread and the Media Engine run, a list on the
latter ends or faults, and an interrupt is taken at last. The ad-hoc worker runs whenever the graphics thread waits for
a frame, and all of its system calls return; in `AdhocRoom` only `adhoc_prune` is fair, which the host calls every
20 ms. In `AudioCommands` both threads run. The one strong fairness is there: each step of a reset fades
out over finitely many frames (`gAudioResetFadeOutFramesLeft` counts down), which the model's choice of staying
or going on does not say by itself.

## 4. Proofs

All theorems are for every value of the constants that satisfies the named
assumptions. The eight `*Proofs` modules have one shape:
an inductive invariant of named parts, one lemma per group of actions, and each
property from it.

- **TaskScheduler** (`TasksAssumption`, `CapacityAssumption`): `TypeOK`, `NoEventDropped`,
  `TaskHeldOnce`, `AnswerMatchesTask` and `StartedOncePerSubmission`. `NoEventDropped` is not inductive: one needs
  to know, for each kind of event, that it is in the queue at most once and
  when it is (`ViInv` for the latch, `SpInv` and `DpInv` for the current task, `ReadyInv` for
  the submission notice); with one `VI`, one `SP`, one `DP` and two
  `TASK_READY` five entries suffice. `AnswerMatchesTask` needs `GfxInv`, which places the one
  graphics task, and `FreshInv`, which says that a task waiting in a queue has not been started.
- **GraphicsLoop** (`LoopAssumption`): `DrawnDataStable` and `SubmitsNewest`, from `FlightInv` (what
  the loop's locals say about the renderer is so), `BuildInv` (the pool being built is
  not read) and `NewestInv`. They hold for every modulus, rate and number of VIs
  missed: deadline arithmetic plays no part.
  It does in `TypeOK` (every VI is on the counter, no sample is out of its range), `MotionNeverGoesBack` and
  `SteadyFramesInterpolate`. Their proofs place every VI on a line: `At` is its distance, to the nearer side of the wrapping counter, from
  the sample of the newest frame, and `PlacesType` and its neighbours say when sums and comparisons on the counter are those on the line.
  `ClockInv` says where the loop is between its deadline and the next frame; `ShownInv` and `DrawnInv` keep what is shown, and what is
  being drawn, between the two samples and not past the point that is to be shown now. For interpolation, `RateInv` says that the
  last two frames were recorded at the rate in force, `BuildingInv` and `SteadyInv` that their samples are one interval apart, and `LateInv`
  that when the counter has passed the next frame, the disturbance that allowed it is fewer than three frames ago.
  Two hypotheses. `WideCounter`: the counter has more than twice as many values as `Reach`, ten VIs and four times the most that
  passes between two readings, which no two VIs the loop compares exceed; the code's counter takes more than two years to come round.
  `Reach` is generous: the counters of the runs, which have a few rates only, do with less.
  `VIRates \subseteq 1..4`, for interpolation only: the game sets `gVIsPerFrame` to 2 or 3, and the frame scheduler clamps at 4.
  The invariant was first checked by TLC, on 4.6 million states with rates above 4 as well and a counter of 30.
- **AudioOutput** (`AudioAssumption`: the queue is shorter than the ring): `TypeOK`, `NoOverrun`,
  `WakesMatchBlocks`, `NotOverwritten` and `StreamImplemented`, which is `StreamsInOrder` without its fairness. `SpaceInv` and `ReadyInv` count each unit of the two
  semaphores in the one place it is; `IndexInv` ties the two indices to the
  count; `OutputInv` says which block is heard; `FilledInv` what lies in each queued block, so that a
  commit is the stream's `Give`, the device's turn its `Hear`, and every other step a stutter. One spare block is enough; the
  code has five.
- **AudioMe** (no constants): `TypeOK`, `MixersExclude`, `MixesNewestState`, `HandoverComplete`, `BlockLeftToMe`
  and `PlaysSoundOrSilence`. `WordInv` is the heart: while the Media Engine mixes the word says RUN, and
  while it says RUN the audio thread waits or has given up with an error and only asks again. `MixerInv` says
  which copies may be old: the CPU's only while the Media Engine owns the mixer, the
  Media Engine's only while the CPU does or the invalidation flag is set. The
  model is finite, so TLC has seen all of it; the proof says why it holds, and stays when the model grows.
- **AudioCommands** (`RingAssumption`, `CommandAssumption`, `SpecAssumption`: a ring of two slots or more, room for a message): `SpecFollows`,
  `CommandsInTurn` and `BarrierHolds`, for a ring and a queue of any size and any number of commands and changes. All
  places in the ring are measured from where the audio thread goes on (`Ahead`). `RangesInv`: the rest of its batch, the messages and what the
  game has not sent lie there one after the other, with gaps where a message was dropped or commands were given up;
  `OrderInv`: ids grow along them; `DueInv`: nothing that is due lies in a gap. `ChangeInv` follows a change from the game's message to the
  answer, one place at a time, and `AwaitedInv` says that the game will wait for it. `UpdateBarrier` and `IdleBarrier` say why a STOP is enough, although it holds back only the rest of
  its own message: until the answer the game sends no second one. The first says so before that message is sent, the second after.

- **AdhocRoom** (`RoomAssumption`): `TypeOK`, `OnePlacePerWatcher`, `ConnectedWasGranted` and `LivePlaceKept`. The
  last two rest on what is on the air. `TokenInv`: no packet, watcher or place has a token that was not
  drawn, so that a new join meets nothing of its own. `PacketInv`: while a watcher is engaged in a join, no LEAVE of
  that join is on its way, and an ACCEPT of it only if the host granted it. Tokens are what makes both inductive:
  with places looked up by the address alone an old LEAVE would take a new place, which is the mutant of the run.
- **AdhocWorker with MultiplayerMenu** (no constants): `TypeOK`, `PublishedIsCurrent` and `LayersNested`. `StartedInv` says that
  nothing happens before the first request; `OpeningInv` that what is opened is the layer above those that are open,
  `ClosingInv` and `SessionInv` that the others find them all.
- **TimerService** (`TimerAssumption`, `ServiceAssumption`: delays and intervals are numbers, `NONE` is nothing else, and there is a slot): `TypeOK` and `ImplementsTimers`. The invariant is `OwnerInv`, no two slots have one owner, and
  `DispatchInv`: while a timer is being delivered, its slot either still has the generation that was taken, and
  then it holds the registration as it was taken, or has a greater one. That is what the generation is for: `osSetTimer` and `osStopTimer`
  may run between the two critical sections of the timer thread, any number of times, and may reuse the very slot. The refinement maps a
  timer to its slot's registration, a valid dispatch included. A scan changes nothing there (`ScanRefines`), a delivery is
  `Fire` or nothing, a call is `Set` or `Stop`, and `Refuse` exactly when the other timers fill the table (`Room`,
  a count by a bijection between slots and owners). The table may be of any size, with any number of timers and callers.
- **TimerTasks** (`TimerAssumption`, and the hypothesis `TasksFit`, which the instance assumes: the tasks are numbered from 1 and the queue has an entry for each,
  as `sTimerTasks[16]` and `sTimerTaskMsgBuff[16]` have): `TaskInOnePlace`. The tasks in the queue are distinct and the one that
  fires is not among them, so by counting (`RoomForTask`) its message finds room.
- **EepromStore** (`StoreAssumption`, and `"tmp" \notin CanFail`: the rename that recovers an image from the temporary
  file does not fail): `ImageIsStored` and `SavesAreAtomic`, the refinement, for images of any size, any number of failures and
  loss of power at any step. `StageInv` says for each step of a save which files hold the old image and which
  the new one; `DiskInv` what a loss of power may leave behind: the backup is never torn, and a torn primary has a
  whole backup unless nothing can be saved any more; `RecoveryInv` and `SaveInv` tie memory to the files.
  The last rename is `Store`, the recovery from a temporary file `Adopt`, and every other operation on
  a file leaves what is stored as it was.
- **SettingsStore** (`SavesAssumption`: there is a setting, and a torn or missing file holds none): `ShownIsStored`
  and `SettingsAreAtomic`. Every operation may fail, the recovery too. Settings found in a temporary file alone are used
  (`settings.c:183`, `ReadAtStart`), but unlike an image of the saved game they do not count as stored: no save of them was reported done, and nothing is
  renamed at the start. `SettingsStageInv` says at each step of a save what a restart would find and in which file;
  `SettingsFilesInv` what the flag `recovered` is worth: while it is set the backup is the only readable file, and while
  it is not a torn settings file has no backup to lose. Only `rename_tmp` is a `Store`.
- **SerialThread** (the same assumption): `MenuKeepsItsPresses` and `ReturnIsTrue`, for queues of any length.
  `PressInv` follows a press through the places it waits in: the pad's sample, the serial thread's copy of it and the button that is still
  down are either no press or a press made after the menu was last open, or the gate is shut. `RequestInv` says that there is
  at most one request or one answer of the game's, and that nothing was stored since it asked; `AnswerInv` that an answer on its way is true.

Only model-checked: everything under fairness (`GfxTaskAnswered`,
`KeepsPresenting`, `EveryTimerFires`, `EveryTaskCompletes`, `SoundGoesOn`, `AbandonedPlaceFreed`, `RadioGoesOff`, `CommandsRun` and the liveness
in `StreamsInOrder`), which TLAPS cannot prove. Every other property of a passing run is a theorem.

## 5. Findings and observations

- **Exit while drawing** (`graphics_exit`). The comment on `PspPlatform_ExitGame` (`platform.c:1939`) says that the scheduler has
  drained the active task before the game is left. `Graphics_RunPspScheduler` does before it calls it
  (`sys_main.c:424-428`), but `main` leaves by a path of its own: it polls the same flag (`psp/main.c:119-125`) and leaves
  from the boot thread without waiting, and without `PspAdhoc_Shutdown`.
- **First save.** A loss of power during the very first save leaves a torn temporary file
  and nothing else; `PspEepromStore_Init` then refuses at every start. `AtomicSave`
  promises nothing before a first image is stored. This is a limit of the
  design, and no text of the repository contradicts it.
- **Recovery from the temporary file.** Init ignores a failing rename. With the backup that
  is harmless, and the run includes it. With the temporary file (`"tmp"` in `CanFail`) it is not:
  the next commit starts by removing the only copy of the image, and a save that
  changes nothing is reported done with no copy but that one.
- **Reads that fail for a moment** are not modelled: a primary file that cannot be read is
  taken for an invalid one, and the promise would not hold.
- **A late interrupt.** A wait that timed out sends the Media Engine an interrupt and may then
  find the list done. If the interrupt is taken only between the test of the state word
  at `audio_me.c:6235` and its store at line 6260, the Media Engine is halted while the word says RUN, no test leaves that
  state, and no audio task is created again. `SoundGoesOn` names this as its only exception
  (`HaltedUnseen`); without it TLC shows the behaviour.
  If it is taken a little earlier, after the result was stored but before the wait reads it, the finished list is
  mixed a second time on the CPU.
- **After a give-up** the write ranges of the list are forgotten, so what the CPU holds of them in its cache
  is not invalidated if the Media Engine finishes after all. The ranges are not modelled.
- **Without `PSP_AUDIO`** the audio thread may submit one task object twice at
  start-up, so `TaskHeldOnce` speaks of graphics tasks only, and audio may starve graphics, so
  `GfxTaskAnswered` speaks of the shipped build only.
- **The command ring** is checked for room against the position up to which messages were sent, not
  the one the audio thread has reached (`audio_thread.c:443`). Behind a STOP it may be lapped: `overrun`. What is
  said of commands excepts it; without the exception TLC shows commands lost.
- **Two changes of specification** in quick succession: the queue of one slot may drop the second
  id, or an old answer may be taken for the new one: `overtaken`, excepted in the same way. No property covers
  this case.
- **A layer that cannot be closed** stays open until another request tries again; `RadioGoesOff` excepts it.

## 6. Not modelled, and why

- Of the ad-hoc code: PROGRESS packets and round-trip times, which are displayed only, and equal nonces.
- Of the settings: the display mode and the performance overlay, which no other part reads back, and
  the lines of the file the program does not know, which are copied.
- Of the serial thread: the analog stick, rumble, the default contents `Save_Read` fills in, and the fault handler's own reads.
- The settings menu: what a row requests is in the models of those who are asked; the rest draws.
- Rendering, signal processing, the vector-unit diagnostics of `audio_me.c`, and the
  game and its levels: sequential code on large data.
- Overlays, profilers and the census: they measure; nothing depends on them.
- `lib/n64psp` and `lib/pspgl` are not in the repository; message queues are modelled
  by what their callers rely on.
- `PspAudioOutput_Submit` and `PspAudioOutput_Cancel`: the first is called only after a failed
  reservation, which `NoOverrun` excludes; the second is never called.
- Logging, statistics and formatting everywhere.

## 7. Plan

In this order:

1. An abstract `GraphicsService` that both `TaskScheduler` and `GraphicsLoop` use.
2. `TimeConversion`: the conversions between ticks and microseconds at their
   widths, against exact arithmetic.
3. The settings menu with the audio mode: what a selection requests and when it is applied.
