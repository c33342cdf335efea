# TLA+ specifications of maxivmac

maxivmac is a 68K Macintosh emulator descended from Mini vMac: one binary that
emulates a dozen models, with shared drives, clipboard sync, SLIP networking,
input scripting and a debugger.  This directory holds models of the parts of it
that are hard to test because many steps, in many orders, decide whether they
are right; configurations that check the models with TLC; and proofs, checked
by TLAPS, of what matters most.

Paths below are relative to `src/` of the repository.

- [Files](#files)
- [The system](#the-system)
- [What is modelled](#what-is-modelled)
- [What is checked](#what-is-checked)
- [What is proved](#what-is-proved)
- [Disagreements found](#disagreements-found)
- [Not modelled](#not-modelled)
- [Plan](#plan)

## Files

| file | contents |
|---|---|
| `TaskClock.tla` | what the scheduler promises: a clock and deadlines, no slices |
| `ICTScheduler.tla` | the scheduler and the CPU's cycle accounting |
| `Interrupts.tla` | interrupt lines, levels, masks, trace; extends `ICTScheduler` |
| `Interrupts_proof.tla` | the scheduler's invariants and its refinement of `TaskClock`, those of interrupts and their refinement of `ICTScheduler`, proved |
| `VIATimers.tla` | the timers of a VIA, on top of `ICTScheduler` |
| `VIATimers_proof.tla` | deadlines, interrupts on expiry, extra time, proved |
| `Keyboard.tla` | the Macintosh Plus keyboard, the VIA's shift register, the guest's driver |
| `Keyboard_proof.tla` | the protocol in step, keys kept, the driver heard, proved |
| `InputEvents.tla` | the queue of timed input events, host, scripts and mouse device |
| `InputEvents_proof.tla` | the order of the queue and no stuck key, proved |
| `SoundRing.tla` | the ring between the emulator and the host's audio thread |
| `SoundRing_proof.tla` | what is played was written, and not touched once handed over, proved |
| `ADB.tla` | the Apple Desktop Bus: transceiver, mouse and keyboard, against any guest |
| `ADB_proof.tla` | whole answers, the place of a press, and the account of all input, proved |
| `SharedDrives.tla` | slots, volumes, working directories and handles, on host and guest |
| `SharedDrives_proof.tla` | host and guest agree, files reach their forks, proved |
| `HostVolume.tla` | a host directory as a volume: identifiers, catalogue, open forks |
| `HostVolume_proof.tla` | identity, open forks, writers and scans, proved |
| `CpuFlags.tla` | the CPU's lazily computed condition codes |
| `MC*.tla`, `*.cfg` | instances for TLC |
| `PROJECT.json` | runs, map from definitions to source lines, hazards, findings |

`tlc -config X.cfg MCX` runs a check, `tlapm X_proof.tla` checks the proofs.

In the modules, a definition marked *(Mutant)* is a bug that the definition
after it could plausibly have; each property is shown to fail when the one
replaces the other.

## The system

One thread emulates the machine.  The host's loop (`platform/imgui_backend.cpp`
or `headless_backend.cpp`, through `emulator_shell.cpp`) polls host events,
and for each sixtieth of a second that is due runs a *tick*
(`DoEmulateOneTick`, `core/main.cpp`), then possibly *extra time* at speeds
above 1x.  A tick is a number of cycles, run by `m68k_go_nCycles_1` in slices:
the task scheduler says how long the CPU may run until the next deadline, the
CPU runs that long or a little longer, the tasks that are due run.
Instructions reach devices through memory accesses, devices reach each other
through *wires* with change callbacks (`core/wire_bus.cpp`), and devices arm
tasks.  The only other threads are the host's audio callback and libslirp's.

| component | state | operations | interacts with | what is hard, and what makes it correct |
|---|---|---|---|---|
| task scheduler, `core/ict_scheduler.cpp` | armed tasks, deadlines, `nextCount` | `add`, `doCurrentTasks`, `doGetNext`, `zap` | CPU loop (remaining cycles), every device | arming in mid-instruction cuts a slice; instructions overshoot; deadlines are compared for equality. No deadline missed, no cycle lost |
| CPU loop, `cpu/m68k.cpp` | `MaxCyclesToGo`, `MoreCyclesToGo`, `ResidualCycles` | `go_nCycles`, `NeedToGetOut`, get/set remaining | scheduler, interrupts | leaving the loop early without losing cycles |
| interrupts, `core/machine.cpp`, `m68k.cpp` | wires, `CurIPL`, mask, pending and trace flags | wire change, `setSR`, exception entry | SCC, VIAs, interrupt button | a level is latched as a flag: none may be lost by masking, none be late |
| VIA timers, `devices/via_base.cpp` | counts, latches, flags, time of the last look | register accesses, tasks, extra time | scheduler, interrupts | lazily updated counters whose task must match the count; freezing |
| VIA shift register and ports | `SR`, `ACR`, flags, wires | register accesses, `shiftInData`, `shiftOutData` | keyboard, ADB, RTC | a byte shifted in while the register points outwards is dropped |
| keyboard, `devices/keyboard.cpp` | state, held result, second byte, timer | line edges, two tasks, tick | VIA 1, event queue, guest driver | a hand-shake with timeouts on both sides. Keys once and in order, never silent |
| event queue, `platform/common/event_queue.cpp` | immediate and future events | push, coalesce, peek, pop, clear | shell, scripts, keyboard, ADB, mouse | two sources, one order; one consumer per kind can block the others |
| host input, `osglu_common.cpp`, `emulator_shell.cpp` | key map, pointer, background flag | key, button, move, focus | event queue | keys held while focus is lost; cached positions |
| mouse, `devices/mouse.cpp` | lock counter, guest's low memory | start and end of a tick | event queue | debounce lock |
| sound, `devices/sound.cpp`, `platform/sdl_sound.cpp` | ring, three offsets, playing flags | write, publish, callback, start, stop | audio thread, tick timer | no lock between two threads; full and empty ring; wrap |
| tick timer, `platform/common/tick_timer.cpp` | deadline, fraction, emulated time | update, second boundary | shell, sound | wrap of the host clock, gaps, debt |
| shared drives, `storage/drive_manager.cpp`, the guest's `macsrc/init/drive.c` | slots, working directories, pending mounts; VCBs and FCBs | mount, unmount, poll, open fork, resolve | ExtFS commands, host volume, guest INIT | reuse of a slot while references to it survive on either side |
| host volume, `storage/host_volume.cpp` | catalogue ids, open forks, cache | catalogue, create, delete, rename, forks | host file system | the host changes files behind its back; cached paths and pointers into the cache |
| clipboard, `core/extn_clip.cpp` | sequence number, cached text | sequence, length, import, export | host pasteboard, guest INIT | length and contents asked in separate calls; feedback loops |
| real time clock, `devices/rtc.cpp` | shift register, counter, mode, parameter RAM | three wires, second | VIA 1 | transfers aborted at any bit |
| ADB, `devices/adb.cpp` | transceiver state, buffers | state lines, task, tick | VIA 1, event queue | re-armed task; a tick that fills the buffer the guest reads. No input lost, no answer mixed |
| condition codes, `cpu/m68k.cpp` | pending kind and operands, of X apart, computed flags | every arithmetic instruction, conditions, looks at CCR | exceptions, recorder | flags are computed later than they are set: the operands must still be there |
| PMU, `devices/pmu.cpp` | hand-shake state, buffers | ready line, task | VIA 1, ADB | a hand-shake of lines against a task |
| disks, `devices/sony.cpp`, `platform/common/disk_io.cpp` | inserted and mounted masks, delay | insert, mount, eject, reset | shell, guest driver | insertion and eject around a reset |
| SCC, serial, `devices/scc.cpp`, `serial_slirp.cpp` | channel registers, SLIP decoder | register accesses, bytes | interrupts, libslirp | interrupt conditions of two channels |
| reset, `core/main.cpp` | all of it | `EmulatedHardwareZap`, `DoMacReset` | every device | a device that is left out |
| debugger, tracer, recorder | breakpoints, steps, rings | commands, instruction hook | CPU loop | stepping against slices |

`PROJECT.json` lists the hazards line by line.

## What is modelled

### TaskClock, ICTScheduler

`TaskClock` is the promise to the devices.  It knows a clock, which
instructions advance, and tasks with deadlines on it; a task runs before any
instruction that begins at or after its deadline, earliest first; a handler
re-arms relative to the deadline, not to the late clock.

`ICTScheduler` is the code.  `pc` says where the emulation thread is: between
runs (`outside`), in `doCurrentTasks` (`dispatch`), at the head of the loop of
`m68k_go_nCycles` (`cpu`), in an instruction (`exec`), or about to decode the
next one (`decode`).  `active`, `when` and `nextCount` are the scheduler's,
`maxCycles`, `moreCycles` and `residual` the CPU's, `todo` is what is left of
the snapshot that `doCurrentTasks` walks, `stop` is `StopiCount`.  Actions:

| action | code |
|---|---|
| `StartRun`, `BeginSlice`, `EndSlice` | `m68k_go_nCycles_1`, and the head and tail of `m68k_go_nCycles` |
| `Dispatch` | one due task of `doCurrentTasks`, with what its handler arms |
| `EnterMaxCycles`, `EndExecute`, `DecodeNext`, `LeaveMaxCycles` | `m68k_go_MaxCycles` |
| `ExecuteAdd` | `ICTScheduler::add` from a memory access of an instruction |
| `NeedToGetOut` | the CPU's early exit |
| `OutsideAdd`, `Zap` | `SubTickTaskStart` and other notifications; a reset |

An instruction is its costs: cycles charged on decoding (`Costs`), on the way
(`Extras`), and for exceptions on entering the loop (`Entries`).  Counters are
mathematical integers: time is 64 bits wide, and the remaining cycles of a tick
stay far from 2^31.  The one difference that the code computes unsigned and
whose wrap would matter, the distance to a missed deadline in `doGetNext`, is
modelled as such (a missed deadline looks infinitely far), and the other,
`StopiCount - nextCount`, is the invariant `NeverPastStop`.

### Interrupts

Extends the scheduler with the interrupt `lines`, `curIPL`, the mask, `t1`,
`pending` and `tracePending`; the cycles that exceptions cost are members of the
scheduler's `Entries`.  A line changes from outside,
from a task, or from an instruction; the encoder (`NewIPL`, Mac II or compact)
and `iplChange` follow in the same step, as in the code.  `SetSR` and
`Trap` are what instructions do to the mask and the trace bit; `EnterCPU` is
one turn of the loop of `m68k_go_nCycles`, trace exception, interrupt and
`do_trace` included.

Left out: an exception from outside an instruction
(`DiskInsertedPsuedoException`, `cpu/m68k.cpp:8770`), which clears the trace bit and an
owed trace exception as `Trap` does, but between instructions.

### VIATimers

The records `t1` and `t2` hold the code's fields; `count` is the 16.16 fixed
point `T1C_F` in steps of 2^-6 of a VIA cycle, the precision of the code.
`doTimer1Check` and `doTimer2Check` are functions from a timer to a timer, and
every action composes them as the handlers do: change, look, arm.  The guest
programs one timer or the other (`uses`), as they share nothing but the
scheduler.  `ExtraTimeBegin` and `ExtraTimeEnd` are the notifications around
extra time.  The elapsed time wraps (`TimeWrap`), so that a negative one is
seen as the code sees it.  What is said of counts and deadlines
(`DeadlineMatchesCount`) is said of every moment, also within an instruction and
between two handlers.

### Keyboard

The device's handlers, its part of the VIA (`SR`, shift mode, CB2, interrupt
flag), the task scheduler reduced to a set of armed tasks (they may run at any
time after they were armed: both delays are far below a tick), the queue of
key events as the device sees it, and an external driver in the guest's ROM
that calls, sends a command, turns the line round, receives, gives up in the
middle (`Abort`) and, after a silence, begins again (`StartOver`).  `MacReset`
is `DoMacReset` as it acts on all of this.

### InputEvents

The queue holds events with the time left until they are due.  Host actions
(`Keyboard_UpdateKeyMap`, `MouseMove`, `MouseButton`, `EnterBackground`,
`LeaveBackground`) push immediate events between ticks, script commands
(`CmdType`, `CmdKey`, `CmdClearKeys`, `CmdClick`) push future ones.  The mouse
device takes button and position events at the start of a tick (`TickStart`),
under its lock; the guest's driver takes keys within a tick (`FindKeyEvent`).
Events carry their number among those of their source, which the program does
not have, to tell their order, and where a key event comes from: the host and
scripts may use the same keys, and `by` is which of them the guest heard last of
each (what it holds is what that one said).  `Chord` is a shifted letter of
`type` and a modified key of `key`; `cut` is of which keys `clearkeys` erased
events, which may leave them down until they are used again.
`TickEnd` tells the shell where the guest's cursor is.

### SoundRing

Two processes, `Emulator` and `Audio`, each with a program counter, interleave
between any two accesses to the shared offsets: begin a write, write, finish,
convert, publish on one side; read, ramp, copy, give back on the other.
A sample is its offset, whether it is in the host's format, and its `take`: after
an overflow the writer steps back a buffer and writes offsets again whose samples
were handed over, perhaps while the callback copies them.  The level `lastv` is
at rest or not.

### ADB

The guest does what it likes, in any order: `SetState` moves the two state lines
(port B of VIA 1), `SetShiftMode` writes the ACR, and `ClearSR` touches SR or
writes IFR, which clears the interrupt flag without moving a line.  Each line
change arms the task `kICT_ADB_NewState`; `doNewState` is the task, one action
for each state it may find (`StartCommand`, `TalkByte`, `ListenByte`, `Idle`);
`Tick` is the mouse device and then `ADBDevice::update`.  The host pushes
relative movement, which merges with a queued one, buttons, keys and
positions.  `MouseTalk`, `KeyboardTalk`, `EndListen` and the rest are the
functions of `adb_shared.h`; `buf` and `index` are the one buffer that answers
and listens share.  What answers tell, decoded as the guest would, is kept
beside it (`reported`, `told`, `press`, `answer`, `given`); a queued key carries
its place in what was typed.  There is no key code 127: no table of the host has
one, and its release would be the byte that says "no second key".

Left out: the interrupt wire, the changing low bits of register 3's address,
the remapping of a few key codes, the wrap of 16 bit deltas (the host would
have to move the mouse by 32768 between two answers), and what the VIA's other
registers do.

### SharedDrives

The host's side is `DriveManager` (`slots`, `pending`, `wdTable`, `defaultWD`,
`rootWD`) with the commands of `core/extn_extfs.cpp` that change it; the guest's
is the INIT's `vcb`, `driveCount`, `ejected`, the default volume and the file
control blocks.  A trap is one action on both sides, since the guest waits for
the command register: `Open` is `TrapOpen`, which resolves, opens on the host
and takes an FCB, or closes the fork again.  `Mount` is a drive given on the
command line, dropped, or mounted by the debugger; `PollMounts` is the guest's
event filter; `ForceUnmount` the debugger's unmount, which the guest does not
hear of; `Restart` a guest that boots again on a host that goes on.
Every volume has a number (`vol`) that the program does not have, to tell what
a reference was made for; `apart` holds the slots on which a forced unmount, a
restart, or a guest without memory for a VCB made the sides differ, `unseen`
those of whose volume a file was opened, through a working directory, before the
guest saw the volume.  `MountNewDrive` drops a drive whose slot has a VCB already
and one that the heap has no room for; `PollMounts` has taken it off the queue
by then.  The INIT of a guest that restarts finds the drives that are still
pending, and makes VCBs and its count from those that it has memory for
(`InitVCBs`, `InitCount`); of drives delivered before it is not told.

Left out: directories (a working directory is of a volume, its root or not),
names, `procID`, `GetVol` and `GetWDInfo`, and what the ROM does when the INIT
declines a trap.

### HostVolume

`disk` is the host's directory tree, by path; `vol` is the volume: the
`CnidTable` in both directions with the host path stored for each identifier,
the directories scanned, and the catalogue, a sequence because its order
decides what is found first and what a pointer into it points at.  Every
operation of the guest begins with a scan (`EnsureScanned`), which lists the
host's directory in any order, merges it entry by entry and prunes what is
gone; then it changes the host and the catalogue as the code does, including
what the code does not look at: `Move` does not check for a duplicate name,
`RemoveDir` goes on using a pointer after counting children, `Moved` updates the
paths of descendants in the catalogue only.  `InvalidateAll` is the periodic
refresh; `HostCreate` and `HostDelete` are somebody else on the host.

The guest has other names than the host.  `MacName` is what a scan makes of a
host's name: `MacNameFromHost`, the cut to 31 characters and the comparison
without case, in one map, so that two of the host's names can be one of the
guest's (`Merged` then gives the second the entry of the first, as the code
does); `Hidden` are the names that a scan skips, dot files and what MacRoman
does not have.  `Given` are the names the guest gives, each with what
`HostNameFromMac` makes of it: one that is longer than 31 characters comes back
from the host as another.  `Rename` refuses it, `CreateFile` and `CreateDir` do not.

The code stores where a thing is three times: as the pair of a directory's
identifier and a name, as the path in the catalogue, and as the path in the
table.  `PathsAgree` says that the three name the same place, and that no entry
of a directory says that it is a file.  Five things break it:

- two host's names in one directory that are one for the guest (`NoNamesakes`);
- a file or directory that the guest makes with a name that is cut when it is
  scanned again (`FirstIDEver` fails, see [disagreements](#disagreements-found));
- a move onto a name that is taken, on the disk or in the catalogue;
- a rename or a move of a directory while the table remembers names below it
  that are not in the catalogue, of directories that are there or are made there
  later (`StoredPathCurrent` fails);
- a file that the host replaced by a directory while its entry was cached.

With the first two left out, TLC finds no other cause in the small instance.
From then on, or once the guest uses the identifier of a directory whose pair
was given to another (`Stale`), the identifiers may mean other objects
and no promise is left, so that `astray` remembers it; what is said of
identity, handles, writers and listings is said while it is false.  Two ghosts
more: an object (`obj`) of the host has a number, and `known` is the identifier
under which the guest first saw it.

Left out: the bytes of forks and sidecars (a sidecar belongs to its file),
the characters of names, Finder information, text
conversion, the virtual `Icon` file, `invalidateDir` (nothing calls it).
A rename by the host is a deletion and a creation.

### CpuFlags

The registers `kind`, `arg`, `xkind`, `xarg`, `zsaved` and `flags` are
`LazyFlagKind` and its companions.  An instruction is what its `DoCode` does to
them; `Evaluated` is `NeedDefaultLazyAllFlags`; `Taken` is `cctrueDispatch`.
Beside them `ccr` is changed by the definition of the same instruction:
sums and differences by their numerical range, shifts and rotations bit by
bit.  Registers have four bits and short operands two, sign extended as the
code extends bytes and words, which it treats alike but for their width.  So one
short size stands for both: a wrong entry of a table for bytes only, or for words
only, would not be seen.

Left out: BCD, the instructions of the 68020 only, and CHK.

## What is checked

| run | property | says |
|---|---|---|
| `ict` | `NoMissedDeadline` | every armed deadline is at or after `nextCount` |
| | `RunEnds` | every run ends (liveness) |
| | `ImplementsTaskClock` | refinement of `TaskClock` |
| `interrupts` | `NoLostInterrupt` | a level above the mask is pending |
| | `ExceptionsBeforeInstruction` | no instruction begins with one waiting or a trace owed |
| | `ImplementsScheduler` | refinement of `ICTScheduler` |
| `via` | `DeadlineMatchesCount` | a timer that counts has its task armed, for its expiry |
| | `TaskInterrupts` | when the task runs, the interrupt is set and not put off |
| | `Timer1Frozen` | extra time neither interrupts nor ages timer 1 |
| `keyboard` | `TaskMatchesState` | a task finds the state that it was armed for |
| | `KeysInOrder` | every key taken is received, once, in order, or on its way |
| | `NeverSilent` | the driver's patience never runs out |
| | `AnswersAwaited` | an answer is given only while it is awaited |
| | `KeysArrive` | every key arrives (liveness) |
| `events` | `NoStuckKey` | a key that the host spoke of last is as it holds it, one that a script spoke of last is up unless its events were cleared; once nothing of it is queued |
| | `EventsInOrder` | the host's and the scripts' events are taken in order, none skipped unless cleared |
| | `EventsArrive` | every host event arrives (liveness) |
| `sound` | `PlayedIsWritten` | what is played was written for its place in the stream; converted, until an overflow |
| | `HandedOverKept` | what was handed over is not touched again, but for the last buffer when the ring is full |
| | `PlayingStarts` | sound starts, however often it is stopped (liveness) |
| `adb` | `InputKept` | movement and keys told, left and queued add up to the host's, keys in order |
| | `PressInPlace` | a button is told after all movement before it |
| | `AnswerWhole` | bytes given are of one answer, from its first |
| | `Announced` | queued input interrupts a guest that idles, with no answer pending, as often as it clears the flag; a pending answer does when the lines come to idle (liveness) |
| `drives` | `SidesAgree` | host and guest agree on which volume each slot is, but for slots in `apart` |
| | `FilesKept` | an open file is on the volume and fork it was opened on, but for slots in `apart` and `unseen` |
| | `Delivered` | a mounted drive comes to be known to the guest or is unmounted, unless its slot is in `apart` (liveness) |
| `volume` | `IdentityKept` | no two entries share an identifier; until `astray` an object keeps its own, and no other has it |
| | `OneWriter` | at most one writer of a fork, until `astray` |
| | `HandleReaches` | an open fork reaches its file over renames, moves and eviction, until `astray` |
| | `ScanShowsDisk` | a directory newly scanned shows exactly what is on the disk and not hidden, until `astray` |
| `flags` | `FlagsAgree` | looking at the flags gives those computed at once |
| | `ConditionsAgree` | so does every condition, from operands or flags |
| `volume_remove` | `RemovesWhatItNames` | fails: see [disagreements](#disagreements-found) |
| `flags_x` | `XKept` | fails: see [disagreements](#disagreements-found) |

Most modules have a `TypeOK` besides; those of `ICTScheduler`, `Interrupts`
and `InputEvents` are proved and not run, and so are `SliceNotEmpty` (the comment of `doGetNext`,
"at this point d must be > 0") and `NeverPastStop` (the unsigned rest of a run
does not wrap).

**Bounds.**  `ict`: two tasks, delays of 1 and 3 cycles, runs of 2 and 4,
instructions of 1 or 2 cycles plus extras, time up to 6.  That is enough for
both tasks to be due together, for a deadline within, at the end of and beyond a
slice, and for an overshoot longer than the next slice.  `interrupts`: one task,
masks 0 to 2 and trace, the Mac II encoder with all lines.  `via`: counters of
four VIA cycles in two steps each, instructions of 3 cycles, so that one
instruction can cross an expiry and a wrap; time up to 12, one and a half times
the longest count.  `keyboard`: three key events of both lengths, the device's
timeout and the driver's patience scaled from 16 and 32 ticks to 3 and 6.
`events`: two host events, four of scripts' keys (two keys down and up, or a
chord) and four of clicks (two clicks), at most five in all,
so that sources interleave, on one key too, and a clear meets keys
that are down; a modifier leads its key by one unit; a lock of two ticks.  `sound`: three buffers
of two samples (odd chunks leave blocks half written), offsets that wrap after
two rings, one overflow.  `adb`: two host events, one of
them a movement that needs two answers in both directions, one key, the commands
that talk to each device, change the mouse's address and reset; enough for merging,
for two keys in an answer, for an event that waits behind another, and for every
order of the task, the tick and the guest (for any number of events, what is safety
is proved).  `drives`:
two slots, three mounts (so that a slot is reused), three working directories,
one file (that closing a file leaves the others alone is left to the proof),
one upset, which is a forced unmount or a restart.  `volume`: a
directory with a file of the same name in it, four names, of which a scan hides one
and cuts one to another, depth two, two changes to the disk by anybody and two
open forks, for writing (the other permissions are left to the proof); the guest
gives all names but the hidden one.  `RemoveWrong.cfg` three changes and one fork.
`flags`: all programs of three instructions, with looks anywhere: two pending
operations and one that depends on them, operands at zero, one, the largest
positive and a negative number of each width, counts below, at and above the
width.  Every bound is a CONSTANT, named and commented in its module.

**Fairness.**  The emulation thread is a loop that waits for nothing, so its
steps are weakly fair (`ICTScheduler!FairSpec`, where an instruction, too,
comes to its end).  In `Keyboard`, ticks and tasks are weakly fair, and so is
the driver's progress but not its aborts; a tick that finds a key is strongly
fair, since an event of another kind can hold a key event back for a while only.
In `InputEvents` ticks are weakly fair, and the guest's asking for keys and its
enabling the mouse are strongly fair: it can ask within ticks only.  In
`SoundRing` both threads are weakly fair, and a ramp, which moves a step
with each sample, comes to its end (strong fairness of `RampUp`, which the model
lets stay on its way).  In `ADB` the task and the tick are weakly fair: both are run
by the scheduler, whatever the guest does.  In `SharedDrives` the guest's
polling is, as its event loop goes on.  No host action is assumed to happen, nor
any of the guest's in `ADB`.

Deadlock is checked in every run but `drives`, where everything that the model
may do is bounded (mounts, working directories, files, restarts) and a guest
without drives has nothing left to do.

## What is proved

`Interrupts_proof` first proves of the scheduler alone (`Spec`), for every set
of tasks, delays, budgets and instruction costs allowed by `SchedulerAssumption` (delays, budgets and costs
are positive, an instruction overshoots by at most `Overshoot`):

- `TypeCorrect`, `DeadlinesKept` (`NoMissedDeadline`), `StopNotPassed`
  (`NeverPastStop`) and `SlicesNotEmpty` (`SliceNotEmpty`);
- `Implementation`: `Spec => ImplementsTaskClock`.

None of these is inductive alone.  The inductive invariant `IInv` adds that no
cycles remain outside a slice (`IdleCPU`), that while tasks are dispatched every
task due is still listed in the snapshot and the run is not over
(`DueIsListed`: this is what makes slices non-empty), and that the CPU is never
behind by more than `Overshoot` (`Bounds`).  The refinement then goes action by
action: `add` is the abstract `Arm` because the current time is the abstract
clock (`AddIsArm`), steps that move cycles between the counters are stutters
(`Bookkeeping`).

and then, of the machine with interrupts (`MachineSpec`), `MachineTypes`,
`InterruptsKept` (`NoLostInterrupt`), `ExceptionsInTime`
(`ExceptionsBeforeInstruction`) and `MachineImplementation`
(`ImplementsScheduler`), for any status registers and costs of exceptions that
the scheduler's costs of entry include (`InterruptAssumption`).  The invariant
`MachineInv` is the scheduler's together with: the
level is the encoding of the lines; a level above the mask or a trace bit is
pending, and then no cycles are left to decode another instruction with
(`GotOut`).  Since the loop with interrupts implements the scheduler, the
scheduler's theorems hold of it.

`ADB_proof` proves `TypeCorrect`, `AnswersAreWhole` (`AnswerWhole`) and
`PressesInPlace` (`PressInPlace`), for every set of movements, keys, commands
and bytes, a buffer of two bytes or more (`ADBAssumption`) and queues and
behaviours of any length.  Its invariant has three parts.  `Reading`: a pending
answer is the first two bytes of the buffer, as much of it given as the index
says; with no answer and no listen the index is 0, and a listen is never the
last talk, so that an answer made by a tick or by the idle state starts at its
first byte.  `Devices`: the queue is `Placed`, that is, it holds at most one
movement, which is the host's latest; without one everything moved has been
taken; and a button ahead of the movement is behind what was taken already.
This is what the merging of movement into an entry in the middle of the queue
could break, and why a button at the head may be answered as soon as nothing of
the delta is left.  `Transceiver`: types.  What each talk keeps of them are the
lemmas `MouseTalkKeeps`, `KeyboardTalkKeeps` and `SilentTalkKeeps`, used by the
commands, the idle state and the tick alike.

The account of input, `InputsKept` (`InputKept`), is proved from the same
invariant and two more parts, `MotionIn` and `KeysIn`.  That the queue holds one
movement at most lets the account be said without a sum: what moved is what was
reported, plus what is left of the last delta, plus the one in the queue if
there is one.  Then taking it, merging into it and adding one are a lemma each,
and the lemma `Decoded` says that a clipped movement, as the two bytes of an
answer, is read as that very movement by the guest.  For keys, those not told
yet are exactly the ones in the queue, in their order.

`VIATimers_proof` proves `TypeCorrect`, `DeadlinesMatch`
(`DeadlineMatchesCount`), `DeadlinesKept` (the scheduler's `NoMissedDeadline`,
with the timers in it), `ExpiryInterrupts` (`TaskInterrupts`) and
`FrozenInExtraTime` (`Timer1Frozen`), for counters of any width and any costs of
instructions allowed by `VIAAssumption`: a counter has two steps or more and the
clock that the elapsed time is taken from wraps later than the longest count.
The invariant is the scheduler's own, used from `Interrupts_proof` through
`INSTANCE`, with `DeadlineMatchesCount`, with `ReadyKnown` (the code's `ready` is
up to date whenever timer 1 runs, which is why looking at the old one when a
register is written is enough) and `Frozen` (the timers run except in extra
time).  The argument that matters for interrupts is `RunOut`: when a task
runs, the time since the last look is a step more than the count that was left,
so that the look sees it expire; it needs the task to run for the very cycle of its
deadline, which is what the scheduler promises.  It is false for a load of 0,
which `TaskInterrupts` leaves out: see [disagreements](#disagreements-found).

`Keyboard_proof` proves `TypeCorrect`, `TasksInState` (`TaskMatchesState`),
`KeysKept` (`KeysInOrder`), `HeardOften` (`NeverSilent`) and `AnsweredInTurn`
(`AnswersAwaited`), for any keys, any length of typing, any number of aborts, and
any patience of the driver that is at least three ticks above the keyboard's
(`KeyboardAssumption`; `KeysAreNoOtherBytes` says that keys are told apart from
other answers).  The invariant is that of a protocol: `InStep` says, for each of
the driver's phases, in which state the keyboard may be, which task is armed
and how old it is, what the shift register holds and which way it points; and what
was taken from the queue is what was received followed by what is in transit
(`InTransit`: held, in the shift register, or the second half to come).  A reset
breaks both, as the keyboard is not reset with the rest, and the invariant then
keeps what is left: types, and tasks in their states.

`SharedDrives_proof` proves `TypeCorrect`, `SidesInStep` (`SidesAgree`),
`FilesReachTheirForks` (`FilesKept`) and `QueuedOnce`, for any number of slots
up to 8, files, mounts and upsets (`DrivesAssumption`).  The invariant: numbers
of volumes are new (`Drives`), the queue holds mounted drives, each once
(`Queue`), `SidesAgree`, and `Handles`: a file whose VCB is its slot's is on the
volume in the slot, its fork is open there, and no other such file has that
fork; a file whose VCB is another is of a volume that its slot will not hold
again.  So the reuse of slots, and of the numbers of forks by later volumes,
does no harm.  Where the code searches for the first free slot or file, the
proof uses the least-number principle, derived from the library's theorem on
well-founded relations.

`SoundRing_proof` proves `TypeCorrect`, `PlayedWasWritten` (`PlayedIsWritten`)
and the action property `HandedOverIsKept` (`HandedOverKept`), for rings of any size, chunks of any size and offsets of
any width that is a multiple of the ring and holds two of it (`SoundAssumption`;
the code's are 16 bits).  The shared offsets wrap; the invariant says that they
are remainders of numbers that do not: given back <= copied <= handed over <=
written, the first and the third within a ring of each other, the writer within
the block that follows, or, after an overflow, within the last block again; and
every slot in play holds the sample of its offset.  The comparisons of the code,
which are of differences modulo the wrap, are then comparisons of those numbers
(lemmas on remainders).  Each access of each thread is a step of its own, so no
order of the two is assumed.

`InputEvents_proof` proves `TypeCorrect`, `NoKeyStuck` (`NoStuckKey`) and `InOrder`
(`EventsInOrder`), for any keys, shared or not, places, times and numbers of
events in which a typed key is up before the next goes down (`InputAssumption`).
The invariant treats a key of the host and the same key of a script as two, each
with an account of its own of what the guest was told (`told`), and the guest's
keys are read from the account of the one it heard last (`Heard`).  `Queued`: the queue is sorted by time (`Sorted`); what each source sent and the
guest has not got is in it, in order, and none of it is missing unless scripts
were cleared (`Numbered`); and the last event of a key in the queue, or else
what the guest was told, is what its source holds, for every key of which no
event was cleared (`Told`).  It is kept because a source
never pushes for before what it pushed already.  Pushing
(`PushQueued`, `BatchQueued`), taking (`TakeQueued`) and clearing, which removes
all that satisfies a condition from a queue (`ThinnedBy`), are one lemma each,
used by every action; the last is by the least-number principle, where a reader
would expect an induction.

`HostVolume_proof` proves `TypeCorrect`, `IdentityAlways` (`IdentityKept`),
`ReachAlways` (`HandleReaches`), `WriterAlways` (`OneWriter`) and the action
property `ScanAlwaysShows` (`ScanShowsDisk`), for any names, any directory to
begin with, any depth and any number of changes and open forks
(`VolumeAssumption`).  The invariant `IInv` has a part that always holds and one
that holds until paths and names disagree.  Names enter as two arbitrary maps: from the host's names to the guest's, and from
what the guest gives to what the host gets (`Given`).  Always: the host's files are a tree
(`Tree`); identifiers are those given out, a pair that means an identifier is
the pair stored for it, and an entry of the catalogue is the only one with its
identifier and has the pair stored for it (`CatalogOK`); of two open forks of
one kind on one identifier at most one may write (`ForksInOrder`), which is all
that the conflict check can see.  Until then: `PathsAgree`, and `Agreed`: the
identifier by which an object is known leads to the place where the object is
(`KnownLead`), an entry whose path exists is of the object known by its
identifier (`KnownEntry`), and an open fork's object is known by the fork's
identifier and is where an entry of the catalogue, if there is one, says
(`ForksKnown`, `ForksFound`).

Why this carries over to the next step: a pair leads to one place only, because
a directory's stored path is the one place that its own pair leads to and holds
one object by the pair's name (`NoNamesakes`, a part of `PathsAgree`); so two
objects cannot be known by one identifier, and an entry that a scan adds for an
object seen before gets the identifier of old.  A scan is taken turn by turn,
for every order in which the host may list a directory (`ScanIs`), then pruned
(`Keeping`, as an order-preserving selection, `LeftOf`), and every operation
starts from what a scan leaves (`AfterScan`).  A rename or a move takes paths
at and below the old place to paths at and below the new one (`RedirectedIs`,
`RedirectedStep`), the same in the catalogue, in the table and on the disk: what
`PathsAgree` then says of the new state, which is how the history is defined, is
that no directory was left out.  Recursion over a listing or a catalogue is a
recursive function here, and its value for every length is by the least-number
principle (`Least`, `Upwards`), from the library's theorem on well-founded
relations.

The proof corrected the model twice, and TLC confirmed each.  `PathsAgree` did
not say that an entry of a directory may not be a file's, and without it is not
enough: the host replaces a file by a directory while its entry is cached, and a
rename then moves the paths of what is below on the disk but not in the
catalogue, since `move` and `rename` do so for entries of directories only.  And
`OpenFork`, which makes a missing file, could make one deeper than the bound on
depth.

Model-checked only:

- `CpuFlags` (`TypeOK`, `FlagsAgree`, `ConditionsAgree`): each instruction
  against its definition.  Both sides are remainders and quotients by powers of
  two, of a width and of a count of bits that are parameters, and the definition
  shifts bit by bit.  What these make of each other for every width and count is
  arithmetic with products and remainders by a power of two that is not a number,
  which the SMT solver does not do, by induction over the bits; TLC goes through
  all operands there are at the widths of the run.
- Liveness (`RunEnds`, `KeysArrive`, `EventsArrive`, `PlayingStarts`,
  `Announced`, `Delivered`), which the proof system does not reach, as it does
  not reach `ENABLED`.  Induction is out of reach, too, in the form of the library's
  higher-order theorems: where a proof needs it, it is by the least number left
  out (`Least`).

## Disagreements found

Two are runs that TLC must find violated, and findings in `PROJECT.json` with
the lines quoted.

| run | where | what |
|---|---|---|
| `volume_remove` | `src/storage/host_volume.cpp:483` | removing a directory counts its children, which may prune the catalogue under the pointer to its entry: another file of the host is deleted |
| `flags_x` | `src/cpu/m68k.cpp:3422` | a pending X of an arithmetic shift is computed from the operands of a later instruction |

The others are properties of the modules that no configuration lists.  Each is
violated within seconds or minutes when it takes the place of the properties of the
configuration named.

| property | in | where | what |
|---|---|---|---|
| `CountdownInterrupts` | `VIATimers.cfg` | `src/devices/via_base.cpp:264` | a timer loaded with 0 is due at exactly 0x10000 cycles, where neither condition of the expiry holds: it arms itself again and never interrupts |
| `Timer1NotEarly` | `VIATimers.cfg` | `src/devices/via_base.cpp:258` | timer 1 touched by an instruction that overshot a tick is looked at "before" at the start of extra time; the negative time wraps and it interrupts at once |
| `KeepsConnection` | `Keyboard.cfg` | `src/core/main.cpp:62` | a reset ("all devices to power-on state", line 58) empties the scheduler but does not reset the keyboard, which then waits for a task that never comes |
| `ButtonInPlace` | `InputEvents.cfg` | `src/platform/common/event_queue.cpp:90` | positions are merged with a queued one that has a press behind it, and dropped when equal to the guest's while another is queued; `src/devices/mouse.cpp:64-68` says why it matters |
| `ClicksInOrder` | `InputEvents.cfg` | `src/debugger/cmd_script.cpp:388` | a click asked for before the last one's button is up is sorted into it: down, down, up, up, which is not two of "click at absolute screen coordinates" (`docs/features/DEBUGGER.md:734`); typed keys are queued after `EventQ_LatestKeyTime` instead |
| `OverflowOverwritesBuffer` | `SoundRing.cfg` | `src/platform/sdl_sound.cpp:92` | stepping back from the middle of a block converts part of the previous one twice |
| `MinFilledNoted` | `SoundRing.cfg` | `src/platform/sdl_sound.cpp:287` | the fill level is not noted by a callback that copies all it needs, so the clock is never corrected for too many buffers |
| `AlwaysDelivered` | `SharedDrives.cfg` | `macsrc/init/drive.c:1080`, `macsrc/init/init.c:540` | a dropped folder "instantly mounts" (`README.md:68`): in a slot that the debugger unmounted under the guest it is polled and dropped, and a guest that restarts is not told of drives delivered before |
| `LeftAnnounced` | `ADB.cfg` with `Moves` of `<<70, 0>>` | `src/devices/adb_shared.h:263` | the rest of a movement interrupts only if it is left in both directions (`&&`), so that the end of a long one along an axis waits for the next event |
| `WDNamesItsVolume` | `SharedDrives.cfg` | `src/storage/drive_constants.h:13-27` | the reference of working directory 1 is the number of the volume in slot 1, though "they cannot collide with direct refs" (`docs/WD_DESIGN.md:23`); and working directories of an unmounted drive name the one that reuses its slot |
| `OpenedOnFork` | `SharedDrives.cfg` | `src/core/extn_extfs.cpp:341` | a working directory of an empty slot gives no volume and no error, against the comment on line 300: a file is opened on nothing |
| `FirstIDEver` | `HostVolume.cfg`; the second cause alone with `Names = {"a", "bcd"}` and an empty `InitialDisk` | `src/storage/host_volume.cpp:394`, `:1175` | identifiers tag an entry "for its entire lifetime" (`host_volume.h:61-62`), but of two host's names that are one for the guest the one listed last takes the other's entry; and `createFile` and `createDir` take a name of more than 31 characters, which a scan cuts (and `rename` refuses), so that the file then has another |
| `AlwaysOneWriter` | `HostVolume.cfg` with `Names = {"a", "b"}`, `MaxChanges = 3` | `src/storage/host_volume.cpp:716` | the conflict check compares identifiers; after a directory was moved onto a taken name, or its stored path went stale, one file has two, and two forks of it are open for writing |
| `StoredPathCurrent` | the same | `src/storage/host_volume.cpp:553` | rename and move keep the stored path current (`docs/CACHE_DESIGN.md`), but not below what is not in the catalogue: a pair remembered there keeps the old path, also for a directory made there anew |

Seen while modelling, without a property: a script's `clearkeys` between the two
events of a key leaves the key down in the guest (`cmd_script.cpp:307`); `ejected` of the guest is set when the
last drive goes and never cleared (`macsrc/init/drive.c:719-725`), so that
drives mounted later appear but are not served; a guest that restarts is not
told of drives delivered before; the debugger's unmount does not reach the
guest, which `docs/features/SHAREDRIVE_DESIGN.md` (5.2) asks for; names of
volumes are made unique with regard to case (`drive_manager.cpp:240`) and looked
up without; an ADB answer not fetched before the next command is dropped with
the input in it. And three found by attempts at a proof.  A file opened
through a working directory before the guest saw the volume has no VCB, and
`IsOurVCB` (`macsrc/init/drive.c:56`) then finds its null pointer among the
entries of unmounted drives, so that its close can take a fork of the same
number from a later volume (`FilesKept` leaves the `unseen` slots out).  The
host's Control key is mapped to code 0x80 (`platform/platform_config.h:9`,
`platform/sdl_keyboard.cpp:131`), which `Keyboard_UpdateKeyMap` masks to 0, the
key A (`osglu_common.cpp:542`), since the overlay that recognised it is gone
(`platform/common/keyboard_map.cpp:118-125`).  And a release of an ADB key 127
would be lost (see [ADB](#adb)).

## Not modelled

What instructions compute, apart from their flags, the FPU, video and image
formats are data paths, checked better against a reference implementation.  Parsing of
configuration, ROM recognition, the launcher, formatting and logging are
sequential.  IWM and SCSI are stubs that never transfer data.  libslirp, SDL and
the guest's ROM and INIT are external; the keyboard driver is modelled from how
the device uses it.  The parts that are planned are listed next; `PROJECT.json`
gives the status and the reason for each component.

Abstractions worth knowing, besides those named with each module: the
inversion of port B by timer 1, the SCC's and VIA's own interrupt enables (a
line is raised and lowered freely), and the correction of the clock by the
sound code are left out.  Interrupt level 7 is taken whenever the CPU looks,
as in the code, and not on its edge.

## Plan

In order; what is done is marked.

1. *(done)* `ICTScheduler` and `TaskClock`: everything else runs in this loop.
   Proved.
2. *(done)* `Interrupts`, composed with 1.  Proved.
3. *(done)* `VIATimers`, composed with 1.  Proved.
4. *(done)* `Keyboard`, with the VIA's shift register and a reset.  Proved.
5. *(done)* `InputEvents`.  Proved.
6. *(done)* `SoundRing`.  Proved.
7. *(done)* `SharedDrives`: slots, volumes, working directories and handles on
   both sides.  Proved.  To add: names.
8. *(done)* `HostVolume`, proved, and `CpuFlags`.  To prove: the algebra of the
   lazy flags, for fixed widths.  To add: catalogue queries
   that write through a pointer into the catalogue; the decimal instructions.
9. *(done)* `ADB`.  Proved.  To add: `PMU`, whose hand-shake drives the same
   devices.
10. `Clipboard`: host, extension and the guest's throttled `SyncClipboard`;
    abstract specification: the latest copy wins on both sides, eventually.
11. `RTC`: the bit protocol implements reading and writing whole registers.
12. `Sony`: insertion, mounting and eject around a reset.
13. The shell's tick debt and the debugger's stepping, against 1.
