# TLA+ models of meta-beaglebone

The repository is a Yocto layer for a voice assistant built on a BeagleBone.
Most of it is build recipes, kernel configurations and patches of other
people's packages. The programs whose source it carries are:

* **mpg321 0.3.2**, a command line MP3 player with a remote-control shell,
  under `recipes-multimedia/mpg321/mpg321/mpg321-0.3.2/` (about 5,900 lines of C);
* **Adafruit_BBIO 1.0.10**, a Python extension for GPIO, PWM, ADC, UART and SPI,
  under `recipes-olli/python/Adafruit-BBB/Adafruit_BBIO-1.0.10/` (about 4,800 lines
  of C and 500 of Python);
* small **boot and restore** pieces: a U-Boot patch that looks at a button, and
  `restore-device.sh`, which replaces the root file system.

This directory models what is hard to test in them. Paths below are relative
to the program concerned.

## 1. Inventory

### mpg321

| part | state | operations | what must hold |
|---|---|---|---|
| frame buffer (`fbuffer.c`, `mad.c` `output`/`read_header`/`read_from_*`, `mpg321.c` `main`) | ring of `-b N` slots in shared memory, three System V semaphores, the unlocked words of `Decoded_Frames`, a ring position per process | decode a frame, play a frame, end a file, rewind, quit, react to signals | no slot is read and written at once, no token is lost, frames are heard in order, both processes get to the next file |
| remote shell (`remote.c`) | `status`, `remote_file`, `options.seek` | LOAD, PAUSE, STOP, JUMP, GAIN, QUIT, called from inside libmad's callbacks or while idle | the frame heard next is the one a command asked for; commands are read again |
| unbuffered player, seeking (`mpg321.c`, `mad.c`) | `playbuf` (`num_frames`, `max_frames`, `frames[]`, `times[]`, `done`), `current_frame`, `current_time`, `frames_played`, `status` | open, decode a frame, `pause_play`, `seek`, `move`, end a file | frame and time are those of the file; tables are read where they were written; `-n` ends the file where it says |
| playlist (`playlist.c`) | `files[]`, `numfiles`, `files_size`, the static index, `loop_remaining` | next in order, next at random, add, shuffle | no file is lost; indices stay in bounds; none is repeated too early |
| audio output (`ao.c`) | `playdevice`, the device flags of `options.opt`, the remembered format, the disposition of SIGINT | choose a default, open with fallbacks, reopen when the format changes, close | what the user named is opened; frames go to an open device in their format; no device is lost |
| keyboard and volume (`mpg321.c` `read_keyb`, `volume.c`) | `volume`, `muted`, `Decoded_Frames->bvolume` | up, down, mute, next song | unmuting restores the volume |
| network, options, tags, spectrum | descriptors, a flag word | - | - |

The decoder (parent) and the output process (child) share memory and
semaphores; signals go from the user to either, from the output to the decoder
(SIGUSR1) and, by the kernel, when a child ends (SIGCHLD).

### Adafruit_BBIO

| part | state | operations | what must hold |
|---|---|---|---|
| edge detection (`event_gpio.c`, `py_gpio.c`) | `fd_list`, `callbacks`, `py_callbacks`, `event_occurred[]`, `thread_running`, `epfd`, `exported_gpios[]` | `setup`, `input`, `add_event_detect`, `add_event_callback`, `event_detected`, `remove_event_detect`, `wait_for_edge`, `cleanup`; the poll thread | events are neither lost nor invented, callbacks run once, lists and descriptors stay consistent |
| PWM (`c_pwm.c`, `py_pwm.c`) | `exported_pwms`: cached `period_ns`, `duty_ns`, `duty`, four descriptors each | start, set frequency, set duty cycle, set polarity, disable, clean up | the cache agrees with the kernel; no write the kernel refuses; no channel is left enabled unknown |
| SPI (`spimodule.c`) | an object's descriptor and cached mode, bits per word, speed | open, close, set, transfer | the cache agrees with the device; objects do not share a descriptor; a transfer is whole |
| ADC, pin multiplexer, overlays, UART, Encoder, I2C | paths, open descriptors | single reads and writes | - |

The Python thread and the poll thread share all of the first row without a
lock; the interpreter's lock only separates a Python callback from a call of the
module that is in progress, and is released in `wait_for_edge`.

### Boot and restore

A button held at power-on makes U-Boot load `restore.txt` instead of `uEnv.txt`;
the recovery system then runs `restore-device.sh`: mount, remove, extract, sync,
unmount, reboot. Power can fail at each step and no exit status is looked at.

### What is hard here

Interleavings of two processes (frame buffer) and of two threads (edge
detection) over unlocked state; requests that arrive while the other side waits;
system calls interrupted by signals; descriptors and flags that outlive the thing
they describe; failures half-way through a call. `PROJECT.json` lists them line by
line under "hazards".

## 2. Plan

| order | module | what | state |
|---|---|---|---|
| 1 | `FrameBuffer`, abstract `PlaybackQueue` | buffered playback, refinement | done |
| 2 | `FrameBufferProofs`, `FrameBufferSafety`, `FrameBufferRefinement` | type correctness; `FilesInv` and the five safety properties that follow from it; the refinement of `PlaybackQueue` | done |
| 3 | `GpioEvents` | edge detection, poll threads, callbacks | done for input pins |
| 4 | `Pwm` | cached against kernel state, refused writes, failures and deaths | done |
| 5 | `Playlist`, `Player` | order, loops and random choice; status, frame, tables and seeks of the unbuffered player under the remote shell, composed with the playlist | done |
| 6 | `AoDevice` | default device, fallbacks, reopening, signals | done |
| 7 | `Spi` | cached settings against the devices', descriptors, lengths | done |
| 8 | `GpioProofs` | the inductive invariant of edge detection; `CallbackListsAgree` and `DescriptorsConsistent` for every program, `DetectionServed` and `NoSpuriousEvent` for those they hold of (`CallbacksBounded`: 11) | done |
| 9 | `PwmProofs`, `SpiProofs`, `AoProofs` | every safety property the runs check of the three | done |
| 10 | `PlayerProofs` | the inductive invariant of the player and all of its safety properties | done |
| 11 | `GpioProofs` | `CallbacksBounded`, from the reports on their way and the invocations still to come | done |

Theorems need modules without RECURSIVE operators and constants with named
assumptions; the modules are written that way. Every safety invariant, action property
and refinement that a passing run checks is also a theorem, some under a hypothesis on the
programs or inputs that the section names. What stays with TLC is
liveness (TLAPS proves neither leads-to under fairness nor ENABLED), eight properties in all,
and what a definition computes by induction over data.

The named assumptions (`FrameBufferAssumption`, `PlaylistAssumption`, `PlayerAssumption`,
`AoAssumption`, `PwmAssumption`, `SpiAssumption`, `GpioAssumption`) say what a constant is
and no more: gpio numbers are positive, since the code takes 0 for "not found"; a list is
played at least once; a file has a frame. TLC evaluates each of them in every run. All the
bounds (numbers of calls, threads, descriptors, signals, failures) are constants of the
theorems, so these hold for all of them.

## 3. FrameBuffer

`FrameBuffer.tla` is `main`'s loop over files with `options.opt &
MPG321_ENABLE_BUFFER`, libmad's callbacks (`read_from_mmap`, `read_from_fd`,
`read_header`, `output`) in the parent, and `frame_buffer_p` in the child.

* **Semaphores** `sem0` (free slots, starts at N-1), `sem1` (filled slots),
  `sem2` (end of file). Every `semop` and every `SETVAL` is an action.
* **Ring** `data` (which frame's samples a slot holds; `output` writes it after
  it has a token) and `info` (what `read_header` writes to the slot *before* it
  has a token: whether it is the last frame by count, and whether its remaining
  time is zero). A frame is its number in decoding order.
* **Shared words** `decoded`, `done`, `isHttp`, `isFile`, `stopShared`,
  `quitShared`. `decoded` is incremented in two steps (`LoadCount`, `StoreCount`),
  as `+=` on shared memory is.
* **Control** `dpc` of the decoder and `opc` of the output; the names are those of
  what comes next ("acquire": wait for a free slot).
* **Inputs** are records of a kind (`file`, `http`, `stdin`, `fifo`, `missing`,
  `bad`), the frames libmad will find (`len`) and the frames `calc_length`
  estimates (`est`).
* **Events** the user and devices may cause at any time are a constant, so that
  each run can have its own: remote commands at every frame, SIGINT to one or
  both processes, a device that does not open, corrupt and skipped frames.
* A **signal handler** runs before the next instruction of its process; a process
  blocked in `semop` then goes on as if it had succeeded (`DecoderInterrupted`,
  `SigintOutput`), because the code ignores the result.

The end-of-file test of the output, which reads four shared words and a slot, is
one action (`LookEnd`): the words it reads change in one direction while a file
plays. The uninitialised `seconds` of the default mode is a free choice in
`HeaderPassed`. Not modelled: a device that cannot be opened before the first
frame (`fbuffer.c:60`; `AoDevice` has it), the helper process of AudioScrobbler, counters that are
only displayed.

`PlaybackQueue.tla` is the promise to a listener: a bounded queue from which
frames are heard in order, and dropped only when the decoder is done with the
file. `ImplementsPlayback` says that `FrameBuffer` implements it.

### Runs

The program stops when the playlist has ended (and some of the violations *are* that
both processes wait), so deadlock is not checked.

| run | question | bounds |
|---|---|---|
| `buffer_files` | Are ring, tokens, order and end of file right for regular files under all commands of the remote shell? Is the buffer a bounded queue? | 3 slots, files of 0-4 frames estimated exactly or too long, 2 files, so that the ring wraps, fills and is reused |
| `buffer_faults` | Does a stream in which no frame is found end? Does the program end when the device cannot be opened? Is a request noticed when a frame is on its way, whatever signals come? | 2 slots, HTTP and stdin without a frame, a FIFO and a file after it, `-n 1`, 2 inputs, one SIGINT beside STOP, QUIT, a request while idle and a failing device |

A further run, `load_blocks`, shows the code against a sentence of the
documentation (section 10). `HeaderMatchesFrame` and `ResetAfterLastPost` follow from
`FilesInv`, which is what TLC checks; `SlotsSafe` proves them. In `buffer_faults` the
three leads-to properties make one exception:
an output killed by a SIGINT before it has opened the device (the default action
is in force until then) leaves the decoder waiting in `semop`, since nothing but
the output posts the third semaphore.

Three slots are the smallest ring in which header and samples of different
slots, a wrap and a full ring all occur; two files are enough for everything that
leaks from one to the next, since the state between files (`CleanBetweenFiles`) is
the initial one.

**Fairness** (`FairSpec`): weak fairness of each process and of the delivery of
signals. The kernel schedules both; `semop` wakes a waiter. Nothing is assumed of
the user. Each semaphore has one waiter, so weak fairness is enough.

### Proofs

`FrameBufferProofs.tla` proves `THEOREM TypeCorrect == Spec => []TypeOK` for every
N >= 2, every set of sources, every limit and every set of events. `TypeOK` is
inductive by itself; it is split into `FlagTypes` (Booleans, proved with Zenon)
and `DataTypes` (numbers, functions and records, proved with SMT), one lemma for
each group of actions, because neither prover handles both at once. The named
assumption is `FrameBufferAssumption`; a decrement of a semaphore is where a type
could be left, and its guard is what the proof uses.

`FrameBufferSafety.tla` proves the safety properties from an inductive invariant,
`FilesInv`, stated at the end of `FrameBuffer.tla` and checked by TLC in
`buffer_files`. The theorems are for every N >= 2, every limit `-n`, every number of
files and all their lengths, under the assumption `RegularRun`: sources are regular
files that are not estimated too short (or cannot be opened), and the only events are
the remote shell's commands, seeks and corrupt frames. Without it they do not hold:
section 10 says what signals, requests while idle, streams and short
estimates do.

| theorem | states |
|---|---|
| `FilesCorrect` | `FilesInv` is an invariant |
| `TokensSafe` | `TokensConserved` |
| `SlotsSafe` | `SlotExclusive`, `HeaderMatchesFrame`, `ResetAfterLastPost` |
| `NextFileClean` | `CleanBetweenFiles` |
| `OrderSafe` | `HeardInOrder` |

Why so much is needed: `TokensConserved` says that SETVAL of both semaphores invents no
token. It does not if the decoder holds none, that is, if it has posted its last frame
(`ResetAfterLastPost`). The output resets when it sees a flag or the last header; so
`FilesInv` has to say that `done` and the requests to stop or quit are only seen after
the last post (`QuietInv`), and that a header called last belongs to the last frame
although it is written before the slot is the decoder's (`RingInv`: what each occupied
slot holds, and where). After the reset the decoder must stay out of the ring until the
rendezvous is over (`PhaseInv`, which follows the output from SETVAL to SETVAL), also
when it rewinds or nothing was decoded. `OnlyRegularSteps` first removes the actions that
`RegularRun` disables; then there is one lemma for each conjunct (`QuietStep`,
`PhaseStep`, `TokensStep`, `CleanStep`, `RingStep`), with one for each action that
disturbs the ring, and `FilesStep` puts them together.

`FrameBufferRefinement.tla` proves `QueueImplemented`, that every step maps to a step of
`PlaybackQueue` or a stutter under the mapping of `FrameBuffer` (queue: the frames in the
slots from `outPos` on, by `InFlight`). `PostFrame` is `Put`, `PlayFrame` is `Play`,
`LookEnd` is `Drop`, and all others keep the queue; its lemmas follow that division.

Only model-checked: the liveness properties (TLAPS does not prove liveness under
fairness), which is all that `buffer_faults` checks outside `RegularRun`.

## 4. GpioEvents

`GpioEvents.tla` is `event_gpio.c` together with the part of `py_gpio.c` that calls
it, for input pins and a bouncetime of 0.

* **Library state** `exported`, `direction`, `fdList` (with `initial` and
  `is_evented`), `epfd`, `occurred`, `running`, `cCallbacks`, `pyCallbacks`. A
  callback is known by the number of its list node.
* **Kernel state** `sysfs`, `edge`, `used` (descriptor numbers, the lowest free
  one is given out, as numbers that come back matter here), `epLive`, `epSet`,
  `ready`: a descriptor is reported once when it is registered and once per edge.
  An instance closed while a thread waits in it goes on reporting to that thread.
  `epoll_wait()` fails on a closed instance, and with EINTR when a signal arrives or the
  process is stopped and continued; the poll thread ends on either (`PollEnter`,
  `PollInterrupted`), and so does `wait_for_edge()`, with an error (`WaitFailed`).
* **Python thread** `mpc`: one call at a time, split where another thread can
  tell. `GilFree` is where the interpreter's lock is not held by a call.
* **Poll threads** `thread[t]`: from `poll_thread()` down both list walks, one node
  per step. A node that was freed is read as anything: the process crashes or the
  walk goes to any node. New nodes go to the end, so a list is the set of its nodes in
  the order of their numbers.
* **`cleanup()`** closes one node of `fd_list` (`close_value_fd`) or unexports one pin at
  a step, since a thread may look between two of them.
* Not modelled: output pins and LEDs, bouncetime, a second Python thread, callbacks that
  call the module themselves, and programs that call both `wait_for_edge()` and `cleanup()`
  (`GpioAssumption`): the instance that a failed wait leaves open could be given the number
  that `cleanup()` left in `epfd`, and later calls would use it.

| run | question | bounds |
|---|---|---|
| `gpio_calls` | Do both callback lists agree between two calls, whatever the thread does, and does the library account for every descriptor and registration, also when it goes on after `cleanup()`? | 2 pins, one exported by someone else, 4 calls, 1 edge, 1 interrupted wait, 1 thread, 3 descriptors, so that the number left in `epfd` is given to a value file and opening fails |
| `gpio_detect` | Is an event only recorded after an edge, and is there a thread that waits, with `wait_for_edge` beside them? Is a reported edge recorded, and is every callback run, and none oftener than the two lists together make it? | 2 pins, one exported by someone else, 2 calls, 1 edge, 1 interrupted wait, 2 threads, 4 descriptors, under fairness |

Two pins are needed for list entries that are not the head, and for a second
`add_event_detect` before the first thread runs; four calls for add, remove, add beside
another pin, and for add, clean up, read, clean up. One interrupted wait takes away the only
thread, or one of two.

A signal that ends a thread's `epoll_wait()` leaves pins registered and nobody waiting:
edges go unnoticed until `add_event_detect` is called for another pin. The properties say
so and no more. `DetectionServed`: there is a thread between two calls, or a wait was
interrupted and `running` is false, so that the next `add_event_detect` starts one.
`EventNoticed`: a reported edge is recorded, or no thread is left after an interrupted wait
(`Deaf`). A ready descriptor is reported before a signal ends the wait.

`setup()` can be called at any time and so no state is a deadlock, except in
`gpio_calls`, where the process may have crashed. `DescriptorsConsistent` joins
`DescriptorsListed` and `RegisteredHasEdge`. It has two exceptions. `wait_for_edge` leaves
its epoll instance open on every early return, so with it descriptors are in use that
nobody accounts for. And `cleanup()` closes `epfd` but keeps its number, which `Stale`
names: that number may then be given to a value file, a second `cleanup()` closes the file
while it stays in `fd_list`, and the number is given to another file again.

**Fairness**: weak fairness of every poll thread and of a call in progress; no signal need
come. The
number of calls is bounded, so the interpreter's lock becomes free; CPython hands
it over after a switch interval.

### Proofs

`GpioProofs.tla` is for every number of pins, calls, edges, interrupted waits, threads and
descriptors.

| theorem | of which programs | states |
|---|---|---|
| `TypesCorrect` | all | `TypeOK` |
| `CallbacksPaired` | all | `CallbackListsAgree` |
| `DescriptorsAccounted` | all | `DescriptorsConsistent` |
| `DetectionAlways` | `NoCleanup`: no `cleanup()`, at least one thread can be made | `DetectionServed` |
| `NoneSpurious` | `NoRemoval`: also no `remove_event_detect()` | `NoSpuriousEvent` |
| `CallbacksLimited` | `NoRemoval` | `CallbacksBounded` |

The first three follow from `GpioInv`, which is inductive for every program. None of its
parts is by itself:

* `CallInv` is what a call knows at its steps. A value file is opened, and an entry made,
  after `fd_lookup` found none: `fd_list` has one entry for a pin only if nothing was
  added in between, so the result of the lookup is still what a lookup would give now.
* `ListsInv` follows the two lists through a call: one ahead while a callback is added,
  emptied of the pin while detection is removed; and it counts the nodes, two for each
  call, so that their numbers stay in the range of `TypeOK`.
* `EpollInv` and `DescriptorsConsistent` need each other: a registered descriptor is one
  of `fd_list` whose pin has its edge on, so closing or unlisting it must take it out of
  the set, and the descriptor of a new file, which is not in use, cannot be registered.

`ServeInv` says how the poll threads stay: without `cleanup()` the instance is open as soon
as there is one. Until a wait has been interrupted no thread leaves its loop, and while
`running` is false only threads that have not set it yet are alive, so reading it too early
makes two threads, never none. After that threads may be gone, but `running` is never true
without a thread, so it is false when they all are.

`ReportInv` says where the report that registration causes can be. As long as a pin has
had no edge it is ready, or in the hands of one thread, and never both; it finds the entry
marked as initial; and a pin that is not registered has none. That is false once
detection is removed: then a thread may hold a report of a pin that is added anew
(section 10), which is why the theorem has the second hypothesis. `gpio_detect` checks the
same programs. The lookups are proved of lists (`FdFound`, `PinFound`, `LongerLookups`,
`ShorterLookups`, `SameLookups`), once for each way in which `fd_list` changes.

`WorkInv` keeps the account behind `CallbacksBounded`. Nothing in the code limits how
often a callback is run; the limit comes from how reports are made. `Due(p)` is the number
of walks over the library's list that p's edges pay for: the edges, plus the report that
registration makes as long as it is not consumed (`First`), less the reports on their way,
ready or in the hands of a thread (`Tokens`). Taking a report changes neither side;
recording it turns a token into a walk, and ignoring the first one uses up `First`.

* `Flow`: the walks in progress are at most `Due(p)`.
* `Bound`: what was invoked of a callback, and the pairs of a walking thread and a node from
  which it will still be invoked (`Todo`), are at most `Due(p)` times the nodes. An
  invocation moves a pair from one side to the other. A new node grows `Todo` by one pair
  for each walk in progress at most, and the right side by `Due(p)`: this is where `Flow`
  is needed.
* `Fresh`: before the first report of p is consumed nobody walks for p and nothing of p has
  been invoked, so the walk that is given up with it was never used.
* `WalkOf` and `NodesInv`: a walk stands on nodes that are listed, a Python node has its
  number alone, and what is not listed was never invoked.

The second hypothesis is needed here for the lists, which must only grow: removal takes
nodes off the right side whose invocations stay on the left, and frees those a walk stands
on. `gpio_detect` checks the same programs.

Only model-checked: `EventNoticed` and `CallbacksRun`, which are liveness.

## 5. Player and Playlist

`Player.tla` is mpg321 without `-b`: `main`'s loop, `read_from_mmap`, `read_from_fd`,
`read_header`, `pause_play`, `seek` and `move`, the commands of `remote.c` and
`handle_signals`. It extends `Playlist.tla` (`playlist.c`) and decides when the next
file is asked for; with the remote control it is `remote_file` instead.

* **Where the program is**: `pc` is "next" (in `get_next_file`), "feed" (libmad asks
  for data), "frame" (libmad has found the next header) or "stopped" (`mad_decoder_run`
  has returned). A callback is one action: it is one piece of sequential code, and
  only signals can come in between, which set flags that `read_header` looks at first.
* **Where the file is**: `at.current_frame` and `at.current_time` are the program's;
  `at.pos` is the frame libmad really comes to. Bit rates are constant, so
  `frames[n]` is where frame n starts, and times are counted in frames.
* **Tables**: `playbuf.times` is a function of the entries that were written;
  `tables` tells whether its memory is allocated, freed, or neither. What `playbuf`, a
  local variable, holds before the first file is a choice in `Init`.
* **History**: `hist.goal` is the file and frame a command has asked for, set by the
  command and cleared when the frame is heard; `hist.rewound`, `hist.carried` and
  `hist.why` say whether the file was rewound, what `frames_played` was when it was
  opened, and what crashed.
* `i` of `Playlist` is also the counter of `shuffle_files`, whose rounds are steps.

| run | question | bounds |
|---|---|---|
| `player` | Are frame and time right, is the frame asked for the one that is heard, does `-n` cut no file short, what crashes, are commands read again, is the list kept and does nothing come twice in a row? | six files: exact estimate, too short, stream, corrupt, missing, directory; playlists of up to 4 of them, JUMP by 1 and 2, `-n` none, 1 and 3, `-k` 0 and 2, two rounds, 2 signals, rewinding up to time 3, PAUSE until the skip is 1 below 0 |

A list of four is the smallest for which "not repeated too early" always holds (with
three, `rand() == RAND_MAX` chooses the last one played again). Two of the files are
longer than two jumps, so that one can rewind into the file and past its start, and
one is longer than estimated. **Fairness** is weak fairness of the program without
the user's commands: `mad_decoder_run` calls on, and `main` loops.

What crashes is stated (`CrashesKnown`) and not excluded: the tables of a local file are
freed again after a stream that follows it; a stream has no tables to rewind in; a
file that is longer than estimated has times only up to the estimate; and
`rand() == RAND_MAX` chooses the file behind the last of one or two.

### Proofs

`PlayerProofs.tla` is for every set of files with any lengths and estimates, every
playlist, limit, skip and number of signals.

| theorem | states |
|---|---|
| `PlayerInvariant` | `PlayerInv` is an invariant |
| `TypesCorrect` | `TypeOK`: among other things the playlist has the files that were added, however it grows, is shuffled or played at random, and `times` never outgrows `num_frames` |
| `PositionKnown` | `KnownUnlessRewound` |
| `CrashesExplained` | `CrashesKnown` |
| `GoalsReached` | `GoalReached`, about the step at which a frame is heard |
| `LimitsKept` | `LimitKept`, about the step at which the limit ends a file |
| `NeverTwice` | `NotTwiceInARow`, for lists (`PlainList`) that name every file once and no missing one |

`PlayerInv` adds to them what the program knows without saying it. `FileInv`: the file that
is open is one of the files, and its tables are allocated and of its estimate unless it is
a stream, whose opening leaves the last file's. `PlaceInv`: libmad is inside the file, and
only a rewind makes it be elsewhere than `current_frame` says; a rewind goes back to a frame
that was played, which is why its entry of `times` was written unless the estimate is too
short. `CountInv`: `frames_played` is the position plus what an earlier file left.
`RemoteInv` and `GoalInv` follow a command: between the callback that reads it and the frame
it asks for, the decoder ends and starts again, and the position is kept in
`options.seek`, in `paused` or in the status, depending on what came in between.

`NeverTwice` needs `OrderInv` besides: at random, the file that was played last is the last
of the list, and no name comes twice, however the list was shuffled and reordered; with four
files or more the last one is not among the eligible. A list that names a file twice may play
it twice in a row. A missing file ends the player, but before the first file `filename` is
whatever is on `main()`'s stack, which the model lets be a missing file's name.

Only model-checked: that commands are read again (liveness).

Left out: GAIN, unknown commands, missing arguments, the splitting of lines; reading a
list from a file and walking directories (their files are `Songs`); `--loop 0`, which
never ends; FIFOs (in `FrameBuffer`); files that shrink, or that libmad cannot
read to the end; `calc_length` and `scan`, whose result is `Estimate`.

## 6. AoDevice

`AoDevice.tla` is `ao.c` with the places that call it: `output` without `-b`,
`frame_buffer_p` with it. `ao.c` has every function twice, and so has the module where
they differ: a failure exits, or returns NULL and asks the parent to quit.

* `opt` is the part of `options.opt` that names devices, which the fall-through adds
  to; `requested` is what the command line gave; `chosen` is what was set when the
  default had been chosen. `installed` is what libao offers, and any opening may fail.
* `pc` walks the chain in the order of the code; one attempt is a step, since
  opening a device may block, and a signal may come in between.
* `userdef` is opened as `playdevice_is_live` says (`OpenUserdef`), which goes by the first
  flag that is set and not by the type that was named, and which dereferences a driver
  libao lacks. An `AUDIO_DEFAULT` may be any name, a driver libao lacks or none at all.
* `format` is what the caller remembers; `playdevice.format` what it was opened with.

| run | question | bounds |
|---|---|---|
| `ao` | Is what the user named opened, first (but for `sun`, and `-w` with another file: section 10) and, with a device, alone (`UserObeyed`)? Is a frame played right (`PlaysRight`)? Which devices are lost, what segfaults, when is a device closed twice? | no or one `-o`, the options that name a file, three pairs of `-o`; seven installations of libao from none to all drivers, five defaults, two formats in any order |

Two formats make a reopening, and a reopening of a reopened device. The chain is short
enough to be modelled whole. Nothing is assumed of scheduling: all are safety
properties. The program ends, so deadlock is not checked.

### Proofs

`AoProofs.tla` proves all five properties for every set of options, formats, installations
and defaults: `LeaksOnlyBehindSun` (`Bookkeeping`), `UserIsObeyed` (`UserObeyed`),
`FramesSuitDevice` (`PlaysRight`), `CrashesExplained` (`CrashAfterFallback`) and
`ClosedOnceButOpening` (`ClosedTwiceOnlyOpening`), from `AoInv`. Its parts say how the
options grow while the chain is walked, since the code writes each fallback into
`options.opt` (`OptInv`, `AddedBehind`); which device the attempts of one opening hold
(`DeviceInv`, `OpeningInv`: none, or sun's); and that of the drivers libao lacks at most one
is set and not yet tried (`SeenInv`), which is what a crash of `playdevice_is_live` needs.
The one that asks for `userdef` is only reached when two types were named (`CrashedStep`).

## 7. Pwm

`Pwm.tla` is `c_pwm.c` with `py_pwm.c`, built for kernels from 4.1 on. A call is split
at every file operation: each may fail, and the process may die before each. The kernel's
part (`Accepts`, `Written`) is external: it refuses a duty cycle above the period, a
period of 0 or below the duty cycle, and a polarity while the channel is enabled, which is
what the order of the writes in the code is for. A kernel from 4.7 on (`strict`, chosen in
`Init`) also refuses every state of a channel without a period, disabling it included.

* `exported_pwms`, `cache` and `fds` are the library's list, head first; `kernel` is the
  truth. A node that was just allocated holds garbage (`AnyPeriod`, `AnyDuty`).
* `stale` is the set of channels not started successfully since a call on them failed:
  the cache is ahead of the kernel then, and stays so until `start()` reads it again.
* `orphans` are channels that a dead process has left enabled.
* `pwm_cleanup()` passes the key of a node that `pwm_disable()` frees and goes on reading.
  `CloseChannel` lets that read find no channel's key, or end the process (`Die`).

| run | question | bounds |
|---|---|---|
| `pwm` | Does the cache agree with the kernel, does `start()` repair what failed or died before, is a write refused for its order, does the list account for descriptors and running outputs, does `cleanup()` end? | 2 channels, 2 periods (one odd, so that a duty cycle is rounded) and a frequency above 1e9, duty cycles 50, 100 and an illegal 101, in pairs that `start()` takes together and the setters mix, both polarities, older and newer kernels, one failure and one death |

Channels are independent but for the list, so the second one has a single setting.
One failure is enough to leave every pair of files in disagreement; a second would
meet a state the first can also leave. **Fairness**: a call in progress goes on.
`cleanup()` ends because failures are finite, the assumption under which the code's loop
is written; `CleanupEnds` names the one case in which it does not (`Unstoppable`): a listed
channel without a period, on a newer kernel.

### Proofs

`PwmProofs.tla` is for every set of channels and settings, of any period, and any number of
failures and deaths: `BookkeepingCorrect`, `StartCorrect` (`StartRepairs`), `CacheCorrect`
(`CacheAgrees`) and `WritesAccepted` (`NeverRefused`) follow from `PwmInv`. A write can only
be refused in the middle of a call, so the invariant says how far a call has got. `FnInv`
and `Listed` tell which call is at a step and that its node is in the list; `PhaseInv` what
the cache and the kernel hold at it, for `start()` whatever was there before, for the
others if the channel is not stale; `AgreeInv` that they agree on all channels that no call
is busy with. `KernelInv` (no duty cycle above its period) and `call.duty` of at most 100
give the order of the writes its reason: `DutyNs` is at most the period. That
`cleanup()` ends is liveness and stays with TLC.

## 8. Spi

`Spi.tla` is `spimodule.c`. `obj` is what the objects cache, `device` what the kernel
keeps for each device, `file` which device a descriptor number stands for. Setting a mode
bit writes the whole mode from the cache; word size and speed are written only if the
cache differs. An ioctl may fail, and a controller may refuse a bit.

`trust` is history: which cached settings no other object has changed behind this one's
back, and no refused mode has changed in the cache alone (the setters of the mode do not
look at the result). `CacheAgrees` and `OthersKept` are about those.

| run | question | bounds |
|---|---|---|
| `spi` | Does the cache agree with the device, does a setter leave the other bits alone, are descriptors apart, is a transfer whole and inside its buffer? | 2 objects on one device, so that each can overtake the other, 3 descriptor numbers, one refused bit, values that fit only after truncation (258, 257, 66561), one failure |
| `spi_xfer` | Is every list of up to 1024 values sent? | one object, a list of 512 |

### Proofs

`SpiProofs.tla` is for every number of objects, devices and descriptors and all settings.
`BookkeepingCorrect`: `Bookkeeping` is inductive by itself; it says that descriptors are
apart, so that a close takes away nobody else's device. `CacheCorrect` (`CacheAgrees`)
needs it, and `trust`, to say which settings nobody has changed since;
`SettersKeepOthers` (`OthersKept`) is about a step and needs both: the mode that is written
comes from the cache. `TransfersCorrect` (`TransfersWhole`) is for every
length a program passes (`Lengths`). Nothing of the `spi` run is left to TLC alone.

Left out: the data and its conversion, a `close()` that fails, Python exceptions
left pending by a setter that returns success.

## 9. What is not modelled

The components marked `not_modelled` in `PROJECT.json`: keyboard and volume, network
input, tags, authentication, AudioScrobbler and spectrum (formatting, single calls, or no
state other parts depend on); ADC, UART, overlays, pin tables, Encoder and I2C (single
system calls and constant data); `restore-device.sh`, which is a straight line of
commands, and the scripts and recipes of the Yocto layer.

Some hazards have no property: the semaphore array that a killed player leaves behind, the
epoll instance `wait_for_edge` leaks, the device check before the first buffered frame,
standard input (no condition of the output recognises its end), and a report the poll
thread holds while `remove_event_detect` clears the flag. The models contain the last
three as behaviours or as a named omission; no document says what should happen.

## 10. What the code does otherwise than its documents say

Each of these runs has one property, taken from a sentence of the repository,
and TLC finds it violated. `PROJECT.json` quotes the sentence under "findings".

| run | what happens |
|---|---|
| `load_blocks` | LOAD once the buffer is drained: both processes wait for ever |
| `spi_xfer` | `xfer()` of 512 values or more sends none and returns |
| `player_limit` | `-n 1` decodes two frames, since `frames_played++ > max_frames` compares before it counts |
| `player_rewind` | after a rewind `current_frame` counts from 0 in the middle of the file |

The models show more of the kind, which have no run of their own.

*Frame buffer.* The frame that marks the end of a file is dropped instead of played, with
what is queued behind it when the remaining time is unset or below a second. A skip while
the decoder waits for the end of a file leaves frames and a request to the next song. At
the end of an HTTP stream an extra token may make a frame be played twice. QUIT blocks
like LOAD when the buffer is drained. "@P 3" ("Song has ended", `README.remote`) is printed
where decoding ends.

*Player.* `-n N` decodes one frame more (`player_limit`), less what a shorter file before it
left in the counter. PAUSE while frames are skipped only stops the decoder: the file is
opened again and skips from its start what was left. A forward JUMP beyond the estimated
length gives a negative skip, which never ends. LOAD of a directory opens it for ever.

*Audio output.* With `-o sun` the default device is opened first, because the mask of
`check_default_play_device` lacks `MPG321_USE_SUN`; after `sun` the chain goes on and the
device is lost. `playdevice_is_live` crashes when the first flag set is of a driver that
libao lacks, when a device is closed or while `userdef` is opened. "-w N ... will be
preferred if --cdr or --au are specified too" (`mpg321.1:68`; the comment at `ao.c:346` says
the same), but `open_ao_playdevice` tests au (`ao.c:313`) and cdr (330) before wav (348): with
`--au` and `-w` the au driver is opened. `UserObeyed` leaves this pair out.

*GPIO.* A signal during `epoll_wait` ends the poll thread, and edges are no longer noticed.
Detection removed and added again reports an edge that never was. After
`cleanup()` detection cannot be added any more. With k callbacks on a pin one edge runs
each of them up to k times. A second `add_event_detect` on a pin fails in `epoll_ctl` and
not as already added, because `open_value_file` makes an entry that is not marked; two
pins added quickly start two poll threads; an event may be recorded after its detection was
removed; `cleanup()` leaves detection on for a pin that someone else exported; and a second
`cleanup()` closes whatever file was given the number of the first one's epoll instance.

*SPI.* An empty list is accepted although one value is required; a mode the controller
refuses stays in the cache and is reported as set. *PWM.* A frequency the kernel
refused is taken as set: asking for it again does nothing and succeeds. On kernels from 4.7
on `cleanup()` never ends when a channel in its list has no period, after a frequency above
1e9 or a failure before the period was written. `pwm_disable()` compares with, and logs, a
key that it has freed when `cleanup()` passed it.
