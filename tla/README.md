# A TLA+ development of the KIV/OS kernel

This directory holds a verification development of the operating system in
`src/`: a kernel (`src/src/kernel`), its user programs (`src/src/user`) and the
simulated machine they run on (`src/src/boot`). The kernel, the shell and the
programs that filter texts are modelled in TLA+; small instances are checked
with TLC, and every invariant and action property that is checked there is also proved
with TLAPS for every value of the constants (section 4 has the one exception).
Everything was translated from the code; where the code and what it says of
itself disagree, a run shows it or section 5 lists it.

Contents: 1 the system, 2 the modules, 3 the runs, 4 the proofs, 5 where code
and comments disagree, 6 what is not modelled, 7 what could be next.

## 1. The system

One host process plays the whole machine. Kernel code runs on the host threads
of the programs that call it (`kernel.cpp` dispatches the system calls), so every
kernel data structure is shared memory between preemptive threads. Locks are
`Spinlock` (an atomic flag), `IntSpinlock` (an atomic counter, used as a
counting semaphore) and `Semaphore` (a counter with mutex and condition variable),
all in `Synchronization.h`.

| Component | State | Operations | Meets | Hard about it |
|---|---|---|---|---|
| **Pipe** (`PipeUtils`) | ring, two pointers, two flags, two counting locks | write, read, close of each end | IO table (owns the ends), shell (creates and closes them) | test / wait / test again on both sides; close hands out permits; EOT written by close; a lock that tests and decrements in two steps |
| **IO handle table** (`io.cpp`) | `openedHandles`, `ioHandleLock` | open, create pipe, read, write, seek, close, remove all | every object with a handle | pointers used after the unlock; number looked up twice; close runs with the lock held and can wait |
| **Process life, Wait_For** (`ProcessUtils`, `ProcessControlBlock`, `Blockable.h`) | process table, `Process::state` and `exitCode`, lists of listeners, semaphores | clone, exit, end of program, wait for any, read exit code | native handles, shell | state tested outside the list's lock; handle removed before the state is set; several notifiers with one semaphore; deletion by the reader of the exit code |
| **Native handles** (`handles.cpp`) | three maps and a 16-bit counter | convert, resolve, find by id, remove | processes, threads | value returned after the unlock; stale entries under a reused host id; wrap |
| **Threads of a process** (`Process.cpp`, `Thread.h`) | `tcb`, its lock, lists of listeners | clone thread, end, notify all | process table, shutdown | walks over tables whose entries are deleted; three nested locks |
| **Signals, shutdown, tasklist** (`ProcessControlBlock`, `kernel.cpp`, `PCBFile`) | signal handlers, `tableUpdated`, a file | Terminate to everyone, wake sleepers, end of `Bootstrap_Loader`, refresh of the list | everything | program code called under a table lock; code of the programs freed; a flag read and cleared outside of what it guards |
| **FAT12** (`fat12fs.cpp`, `fsutils.cpp`) | the table as integers, as bytes and twice on the disk, directory clusters | mkdir, rmdir, create, open, read, write, attributes | file handles | 12-bit packing, chains, index 0 as "not found", no lock on the shared table |
| **File handles** (`FileHandle.cpp`) | position, size, attributes | read, write, seek | FAT12 | unsigned arithmetic, two updates of the size, sizes that are old |
| **Paths** (`filesystems.cpp`, `io.cpp`) | working directory of a process | parse, resolve | FAT12, shell | `..`, absolute paths, drives |
| **Shell** (`shell.cpp`, `command_parser.cpp`) | commands, pipe ends, running programs | read a line, run a pipeline | all system calls | partial failure in the middle of a pipeline; indices; numbers that are given out again |
| **User programs** (`user/*.cpp`) | what they have read | filters until EOT; commands that print | pipes, files, keyboard | texts arrive in pieces |
| **Keyboard, console** (`boot/keyboard.cpp`, `KeyboardHandle.cpp`) | a queue of codes, a flag, one line | read and push a code, line editing, Ctrl+C | host thread of the console, IO table | Ctrl+C at any step of a read; a cancel that comes late |
| **Machine** (rest of `src/src/boot`) | - | interrupts, disk, screen | kernel | - |

What makes each component correct:

- *Pipe*: a bounded FIFO that loses, doubles and damages nothing, never
  overwrites an unread character, never leaves a thread waiting for an end that
  is gone, and ends every transmission with EOT.
- *IO table*: a number names one live object until it is closed; an object is
  closed once and freed once, by a close that asked for it; none is lost; the lock
  comes back unless a close has to wait.
- *Processes*: whoever waits is woken by the end of one of its processes and is
  told which; the exit code it reads is that of Exit; nobody is left holding a
  pointer to something deleted.
- *Native handles*: a live thread has a handle of its own, finds it, and its
  creator is told that one.
- *Threads, shutdown*: no walk meets a deleted object, no entry outlives its
  thread, everyone that waits for a process is released.
- *FAT12, files, paths*: the copies of the table agree; chains are disjoint and
  end; what is read is what was written; a call leaves other files alone; cd
  goes where the folders lead.
- *Shell*: whatever is typed, a running program keeps its handles; after a line
  that meant something nothing is left open, and the prompt comes back unless one
  of the named calls of the kernel holds it up.
- *Keyboard*: every key is given once, Ctrl+C gets through to a read that waits, and
  the cuts between two reads do not show in the result.

## 2. The modules

Granularity. In `Pipe`, `Processes` and `Console` one action is one access to
memory that another thread reads, because most of that code runs without a
lock. In `IoHandles`, `Handles` and `Threads` a body that holds its lock from
end to end is one action, enabled while the lock is free, and what the code does
after the unlock is an action of its own. In `Files` a system call is one
action, and in `Shell` one turn of a loop. The plain `bool` flags and pointers of a
pipe are not atomic in C++; the build (MSVC for x86 and x64) makes loads and
stores of an aligned byte or word atomic and stays in program order around the
interlocked operations between them, which is how the modules treat them.
Nothing is assumed about the order in which threads run.

| Layer | Modules | EXTENDS / INSTANCE |
|---|---|---|
| pipes | `PipeChannel`, `Pipe`, `PipeHandles` | `Pipe` instantiates `PipeChannel`; `PipeHandles` extends `Pipe` |
| handles | `IoHandles`, `Handles` | - |
| processes | `Processes`, `Threads` | - |
| disk | `Fat12Codec`, `Fat12`, `Files` | each extends the one before |
| shell | `CommandLine`, `Shell` | `Shell` extends `CommandLine` |
| texts | `Filters`, `Console` | `Console` extends `Filters` |
| proofs | `PipeProofs`, `HandleProofs`, `ProcessProofs`, `ThreadProofs`, `FilesProofs`, `TreeProofs`, `ConsoleProofs`, `ShellProofs` | each extends the module it is about (`PipeProofs` extends `PipeHandles`, `HandleProofs` both tables of handles, `TreeProofs` extends `FilesProofs`) |
| instances | `MCIoHandles`, `MCProcesses`, `MCThreads`, `MCFiles`, `MCShell` | each extends its module |

An operator called a mutant in its comment is a wrong version of the definition
that follows it; no specification uses it. Each property was seen to fail with
one of them.

### Pipe, PipeChannel, PipeHandles

The ring, the flags, `readLock`/`writeLock` (the counters of the two
`IntSpinlock`s) and three threads, each with a program counter named for the
statement it stands before:

| Thread | Actions in order | Code |
|---|---|---|
| writer | `WriteCall`, then per character `WriteCheck`, `WriteLock`, `WriteTake`, `WriteRecheck`, `WriteStore`, `WriteAdvance`, `WriteWrap`, `WriteSignal`; `CloseWriteCall`, one EOT the same way, `WriteMark` | `PipeOut::write`, `PipeOut::close` |
| reader | `ReadCall`, `ReadCheck`, `ReadLock`, `ReadTake`, `ReadRecheck`, `ReadFetch`, `ReadGrant`; on EOT `ReaderClose` | `PipeIn::read`, `PipeIn::close` |
| closer | `CloseReadCall`, `CloserStep` | `PipeIn::close`, called by `removeIoHandle` |

`...Lock` is the load of `lock()` that finds a permit, `...Take` its separate
decrement. `wsize = -1` says that the writer is inside `PipeOut::close`. `sent`
and `received` are history. A closing reader and the closer can both run
`PipeIn::close`, as in the code.

`PipeChannel` is the abstract specification: a bounded channel that can be
shut by its reader and ended by its writer; when it is shut, at most one put and
one take that had passed their checks still happen. The mapping is at the end of
`Pipe`: `Capacity <- pipeSize, shut <- readClosed, ended <- writeClosed`,
and `late` is computed from the program counters (a writer before its store and
a reader before its fetch).

`PipeHandles` is `Pipe` composed with `ioHandleLock`: Read_File and Write_File
take the lock for their lookup only, Close_Handle keeps it through the whole
`close()` of the object. The write end is closed by the shell after the writing
program ended, so that close takes the writer's place.

### IoHandles

The table with objects that go from new to open to closed to freed. A system
call enters with a number of its choice, also one that is not open. `FirstFree` is
the gap search of `addIoHandle`, `getIoHandle` the first lookup of a call, and
`RemoveLock`, `CloseObject`, `EraseHandle` the three parts of `removeIoHandle`.
`removeAllIoHandles` removes the first entry of the map, as the code does, in
spite of its name.

### Processes

A waiter is a program that clones processes, waits for any of those it still
has, reads the exit code of the one it was told and forgets it: the loop of
`Execute_Commands`. `wpc` walks through `cloneProcess`, `waitFor`,
`removeAssignedListener` and `readExitCode`; `cpc` through a process' program,
`exit` and `processStartPoint` with `notifyRemoveListeners`. The semaphore of a
wait is the triple `count, notified, notifier`, renewed by every call. A waiter
outside `Parents` learns a process from another one (`Learn`, the environment):
handles are plain numbers and may be passed on. Using a Process that is not in
the table is a null pointer (`"crashed"`), as is an index -1 from Wait_For, which
the `at` of the shell's vector does not take; the loop of `removeListener` that
meets somebody else's listener stays there with the lock (`"spinning"`).
`why`, `lastExit` and `report` are history.

### Handles

The three maps and `Last_Handle` with its step of 1 to 6 (`dis(gen)`), modulo
`Width`. Callers spawn a host thread (any id not alive, so ids are reused),
convert it and return; threads end through `processStartPoint`
(`Remove_Handle`, which leaves the entry of the id behind) or
`threadStartPoint` (`removeHandleById`). `std::map::insert` keeps an old entry
(`Insert`). The names of its specification (`HandlesSpec`, `HandlesNext`, ...) and of the
places of a caller (`stage`) differ from those of `IoHandles`, so that `HandleProofs`
can extend both.

### Threads

The actors are `Bootstrap_Loader` (`Kernel`), the processes and their threads; one
`pc` per actor. `master` is `lockMaster`, `tcbLock` the lock of each process;
`left` and `threads` are what a walk of `notifyAllListeners` or
`signalProcesses` has still to visit. Cloning a process or a thread has the
steps held / converted / entered / released; the end of either goes through its
own list of listeners under the locks the code takes. Exit, waiting for a
process and reading its code are coarser than in `Processes`, because here the
question is who still uses the object. An actor that touches a Process or Thread
after its delete is `"faulted"` and stops. A signal handler is something that
returns or something that makes a system call; the second kind is `"stuck"` on
`lockMaster`. `WaitCheck` has both tests of `waitFor`: it returns at once when the
handle does not resolve any more (`Returned`), with the state still to be set, and
`ReadExitCode` then fails and leaves the process in the table. So `FreeLibrary`, the
last step of the loader (`"leaving"`), can come while the shell's thread is at its end
and not `Terminated`. `Shutdown` goes through `"emptying"` (`RemoveAllIoHandles`) before
the signals: what it does to the table is in `IoHandles`, here it is a step that
may never be taken. `updated` is `tableUpdated`, and the three steps of `PCBFile` are test
and clear, collect, store. The store may fail or be cut short by a full disk
(`current' = FALSE`); `short` remembers that until a list is collected again or the table changes.

### Fat12Codec, Fat12, Files

`Fat12Codec` is arithmetic: the even and odd case of `num_to_bytes_fs`, the
unpacking of `convert_fat_to_dec`, the little-endian cluster numbers and sizes of
a directory entry, the 8.3 rule. `Fat12` is a set of operators that take a disk and
return the disk a function of `fat12fs.cpp` leaves. The unit of content is a
slot of 32 bytes, the size of a directory entry, so a cluster of 16 slots in the
code is one of `K` here; names are short sequences of letters. `Files` adds the
open handles with position, size and attributes and has one action per system
call, with `Reboot` for a restart that reads the table back. Where the kernel
would leave its memory or the file's clusters the system stops with `fault`.
`image` and `tainted` are history: what was written to a file, and whether a
write took two new clusters or more (which loses all but one, section 5).

The code does not ask whether the parent of a new item is a directory, and it knows the
root by the number 19 of a first cluster, which a new item may get as well
(`fsutils.cpp:594`). Both creates are in the model (`Misplaced`): an item inside a file
goes into slots of that file, and one that begins at `RootSector` is made like any
other. The call is modelled to its end, then the system stops with the fault
`"misplaced"` (`Astray`): the kernel would take a file for a directory or list the root
in place of a new one, and its disk is no tree any more. `Root` is the value that stands
for the root directory itself, and `Named` are the paths that lead through directories only;
nothing is found under the other ones, because the slots that files are written with carry no
name (`Datum`). On the disk that comes with the system
(`src/compiled/fdos1_2_floppy.img`, named in `src/compiled/boot.ini`) cluster 19 is in the middle of
a system file and the first of none, as `BootAssumption` asks (`Kinds`).

### CommandLine, Shell

`CommandLine` is `ProcessLine` and the paths, as operators on sequences of
tokens. `Shell` is `shell.cpp` and `Execute_Commands` over a table of handles that
gives out the first free number, with the working directory of the process.
`pc` is the loop it is in: the built-in commands (`"special"`), the pipes
(`"pipes"`, one turn for each), the programs from the last to the first
(`"start"`), the wait, and the four tests and closes that follow it (`"close"`,
where `closing` is the next of them). Programs may open, close and end at any of these steps.
Programs that were started are known by whether their input has ended, whether
their output has room, and by a file they open and close themselves. `index`,
`pipes` and `active_handles` are the locals of the code, and an `at` out of range
of `pipes` ends the system (`"crashed"`).

What the modules of the kernel show of its calls comes back here as actions that may be
taken and need not (`GivesUp`): `WaitOverlooks`, the lost wake-up of `Processes`
(`"asleep"`); `WaitGarbled`, an index of -1 that `at` throws on (`"aborted"`);
`CloseWaits`, the close of a full pipe with the lock of the table held (`"stuck"`), after
which nobody opens or closes a handle (`TableFree`). `StrcpyEndsSystem` is `strcpy_s`
in `GetWorkingDirectory` on a directory that fills the buffer to its last character; its other outcome,
an empty buffer, is in `GetWorkingDirectory`. A line of one command that fills the
256 characters of `command`, `command_result` or `argument_result` overruns them (`Overruns`,
`LineRoom`): the write behind the buffer is undefined, and either does no harm or ends
the system.

### Filters, Console

`Filters` is what `type`, `sort`, `find` and `freq` keep between two reads, with
the width of the two counters as constants (`LineCounts`, 2^16 in `find.cpp:21`, and
`CharCounts`, 2^32 in `freq.cpp`).
`Console` puts a reader, the keyboard's queue and flag, the thread of the
Ctrl+C handler and the host's input (a console, a file or a pipe) together with
the line editor, and feeds what the first program wrote to the four filters in
every cut.

## 3. The runs

| Run | Module, cfg | Shows |
|---|---|---|
| `pipe` | `Pipe` | `TypeOK` (no permit counter wraps below zero), `Fifo`, `UnreadIntact`, `PermitsBalance`, `GivesUpOnlyWhenClosed`; that the pipe implements `PipeChannel` (`ChannelSpec`); under fairness that a close of either end lets go whoever spins on the other (`EndsReleased`) |
| `pipe_handles` | `PipeHandles` | with room for everything that is written: `CloseEndsTransmission`, `LockReleased` |
| `pipe_handles_full` | `PipeHandles`, `PipeHandlesFull` | *violated*: `CloseEndsTransmission` when the ring can be full at close |
| `io_handles` | `MCIoHandles`, `IoHandles` | `TableSound`, `ClosesWhatItFound`, `ClosedOnce` |
| `processes` | `MCProcesses`, `Processes` | `RunningHasEntry`, `NoDanglingListener`, `ReturnsEnded`, `ExitCodeReported` |
| `processes_live` | `Processes`, `ProcessesLive` | under fairness: a waiter that is on the list before the process notifies is woken (`RegisteredIsWoken`) |
| `processes_wait` | `Processes`, `ProcessesWait` | *violated*: `WaitReturns`, the lost wake-up |
| `handles` | `Handles` | `LiveHandles`, `FindsItself` |
| `threads` | `MCThreads`, `Threads` | `TcbSound`, `FaultsOnlyAfterEnd`, `TasklistIsCurrent`; under fairness `ShutdownWakes` |
| `files` | `MCFiles`, `Files` | `TablesAgree`, `TreeSound`, `ReadBack`, `WildHasCause`, `LostOnlyByLongWrite`, `OthersUntouched` |
| `shell` | `MCShell`, `Shell` | `RunningKeepsHandles`, `NothingLeft`, `NeighboursShareAPipe`, `PopsNeedGap`, `PromptIsTrue`, `CdWalks`; under fairness `ShellReturns` |
| `console` | `Console` | `InputKept`, `EndsAreCaused`, `CutsDoNotShow`; under fairness `CtrlCWakes` |

The type invariant of a module is a run's `TypeOK` or a conjunct of one of its
invariants.

Deadlock checking is off in all of them: programs may stop making calls, bounds
on calls run out, and some of the disagreements below are precisely threads that
stop; what must not stop is stated as liveness.

Bounds.

- `pipe`: a ring of two slots is the smallest with a slot between the pointers;
  four characters (`MaxSent` 3 and a buffer of two) wrap the ring twice. Two
  letters, EOT and another, are what the code tells apart. Buffers of zero, one
  and two cover the empty buffer, the last and a middle character.
- `pipe_handles`: a ring of four holds the three characters that a writer with
  `MaxSent` 2 can have in it, and the EOT. `pipe_handles_full` is the same with
  two slots.
- `io_handles`: three threads and three objects: two that race for a number and
  one that puts a new object under it.
- `processes`: two processes that end while both waiters are in a call, with one
  exit code other than `Success`. One waiter, the shell, clones; the other learns
  of one process at a time. A program calls Exit at most once. An index of -1
  takes a third process, because both waiters have to be busy with the other two;
  `ReturnsEnded` covers the case, and TLC's simulation with three processes reached it.
  `processes_live` and `processes_wait` have one waiter and both codes.
- `handles`: three clones by two callers, three ids so that one can be reused,
  eight handle values, steps of 1 and 2. `HandlesAssumption` keeps the handles
  from wrapping.
- `threads`: the shell, one program with one thread, one call of Shutdown. Each
  actor makes each of the calls that `MCCalls` gives it; every store of the list may fail. Registered handlers
  make a system call, which is the harder kind; one that returns is the same as
  none. Two tasklist readers (shell and program) can overlap.
- `files`: six clusters of two slots, a root of three, four calls. The disk at boot
  has a folder with a file in it, and either room for one more entry in the
  root or none. Two of the paths lead into a file, one to a new file and one to
  a new folder; `RootSector` is 6, which the third new cluster gets. A write of 1, 3 or 5 slots stays in a cluster, adds one, adds two;
  a second handle on the same file has an old size; positions 1 and 3 are inside
  and outside. The sum of sizes stays below `W`, as in the code with 2^64, so
  that the only wraps are that of a subtraction and, at the position that a seek to
  before the beginning leaves, that of position and length.
- `shell`: two lines out of 28: every built-in command, every operator in its
  right place and out of it, a file that is opened or not, a program that does not
  exist, at the beginning, in the middle and at the end of a pipeline. A program reads its
  input to the end, writes more than a pipe holds, or neither.
  `BufferDepth` 2 stands for the 256 characters of the prompt's buffer, which a
  directory of three components fills to the last one. `LineRoom` 9 is one less than
  the longest line.
- `console`: a line buffer of two, a queue of one, four keys, two presses of
  Ctrl+C: the buffer gets full, the queue gets full, and a cancel can come late
  and meet the next read. A text of four codes is cut in all ways, and the counters of
  the filters wrap at 4 and 2, so that they do.

Fairness. Threads of the host system run: every action inside a call is weakly
fair per thread. Whether a program makes a call is left open, with these
exceptions. In `PipeHandles` the reading program goes on reading (`ReadFile`;
every reader in `user/` loops until EOT). In `Processes` programs end. In `Shell`
a program whose input has ended and whose output has room ends, and the shell
goes on (`ShellStep`); that one of the actions of `GivesUp` is taken is neither
due nor excluded. In `Threads` only steps inside the kernel are fair (`KernelStep`), but
`RemoveAllIoHandles` is not, because the close in it can wait for ever; no
program is assumed to end. In `Console` the steps of the Ctrl+C handler after
the key was pressed and those of the reader are fair, but not that a key is
typed. A thread that spins on a lock gets it if the lock stays free; none of the
liveness properties that hold relies on more than that. `EndsReleased`
exempts a reader that calls read again after it got an EOT (`ReadsOn`): it uses
up the permit of its own `close()` and may spin, but no program does that.
`ShellReturns` is about lines that mean something (`CleanLine`) and whose
redirections could be opened; section 5 has what happens with others. It does not say that
the prompt always comes back, because it does not: it says that the loop of the shell ends
at the prompt or at one of the three calls of `NotReturned` (`"asleep"`, `"stuck"`, `"aborted"`), so that nothing else, and in particular
no end of a pipe that is left open, holds it up.

Presses and reads. `CtrlCWakes` starts at the press: if a read waits for the host then, either
`Write_Char` accepts the press and the read returns, or the queue is full, or the
editor was told an end before (`ends > 0`): a late cancel has closed the input, and
`Write_Char` drops every press until a key is read. A press between the test of the queue and
`ReadFile` comes before the read waits, and need not wake it (section 5).

## 4. The proofs

All proofs are checked by TLAPS to the last leaf; the constants are any that
satisfy the named assumption of the module.

### Pipe

`PipeProofs` proves, from `PipeAssumption` alone (EOT is a character, the ring
has at least one slot, the bounds are natural numbers), that every behaviour of
`Pipe!Spec` satisfies `[]TypeOK` (`TypeCorrect`), `[]Fifo` (`FifoHolds`),
`[]UnreadIntact` (`UnreadIntactHolds`), `[]PermitsBalance`
(`PermitsBalanceHolds`) and `[]GivesUpOnlyWhenClosed`
(`GivesUpOnlyWhenClosedHolds`), for every ring size, alphabet, buffer length and
number of characters. `Implements` is `Spec => ChannelSpec`.

None of the properties is inductive. The argument is the conjunction `IInv`:

- `TypeOK`;
- `PermitSeen`: a thread between the load and the decrement of `lock()` still
  has a permit to take, which holds because each lock has a single consumer;
- `FlagFirst`: a thread past the first statement of `close()` has set the flag;
- `PermitsBalance`: while the read end is open each slot is accounted for once;
- `Claims`: a writer about to store has a free slot and a reader about to fetch
  has a character, *also after the read end was closed*. This is the heart: after
  a close the permits no longer balance, but the threads that were past their
  second test had their permit before;
- `Pointers`: the distance of the pointers is the number of characters in the
  ring, modulo its size, with the moment when `writePtr` is one past the end;
- `Fifo` and `UnreadIntact`.

`Init => IInv` and `IInv /\ [Next]_vars => IInv'` are proved action by action,
with lemmas on ring arithmetic. For the refinement `IInv` is strengthened by
`EOTEnds` (the reader that took an EOT goes into close and the last character
of a marked pipe is EOT unless the read end was closed); each action then maps
to one action of `PipeChannel` or to a stutter: `WriteStore` to `Put`,
`ReadFetch` to `Take`, the first `CloseFlag` to `Shut`, `WriteMark` to `Finish`.

All of it carries over to the pipe behind the handle table: `HandlesImplement`
is `HSpec => Spec` (the lock only takes behaviours away: each action of
`PipeHandles` is one of `Pipe` or a stutter), from which `HandlesAreChannel`
follows. `LockIsOfTheCloseHolds` says who has the lock between two steps: a
Close_Handle inside `close()` of its end, and nobody else.

### IO handles

`HandleProofs`: `TableSoundHolds`, `ClosedOnceHolds`, `ClosesWhatItFoundHolds`, for any
number of threads and any finite set of objects. `TableInv` adds to the types: no
object twice in the table (`Distinct`), the table has only open objects or one
that its closer is about to erase (`Listed`), no open object outside the table
and the hands of one opener (`NotLost`, `Adding`), and the closer that holds the
lock still finds under its number what it looked up (`Removing`). That
`addIoHandle` finds a free number is the lemma `Room`: there are as many numbers
as objects, and the one that is added is not in the table yet. `ClosesWhatItFound` is
about the gap between the two lookups of a close, which the lock does not cover. It rests on
`Found`: from the first lookup on, the object is under its number or has been
freed. A number loses its object to nobody but the closer that frees it, and `addIoHandle`
takes free numbers only, so that what the second lookup finds is either the object of the
first, or another one that came after the first was closed.

### Native handles

`HandleProofs`: `LiveHandlesHolds` and `FindsItselfHolds`, for any number of
callers, ids and clones as long as the handles do not wrap
(`HandlesAssumption`). The core of `HandlesInv` is that `Last_Handle` is at least every
handle ever given out and at most clones times the longest step (`NoWrap`,
`Old`), so that a new handle is new. The rest says what the maps have for
converted threads, and for whom what was told differs from what was inserted.

### Threads and shutdown

`ThreadProofs`: `TcbSoundHolds`, `TasklistIsCurrentHolds`,
`FaultsOnlyAfterEndHolds`, for any number of processes, threads, calls and
handlers, with a store of the list that may fail at any time and a wait that may return
before the state is set. `IInv` adds who holds which lock at which place (`LocksHeld`), what a
clone has in its hand (`Cloning`), that entries belong to what has not left
(`Entries`, `LeavesEnded`), that whoever takes itself down is Terminated
(`TakesDown`), what `Bootstrap_Loader` has seen when it leaves (`Loader`) and
where the file of the tasklist may be older than the table (`Tasklist`).

### Processes

`ProcessProofs`: `RunningHasEntryHolds`, `ExitCodeReportedHolds`,
`ReturnsEndedHolds` and `NoDanglingListenerHolds`, for any number of processes and
waiters. The parts of `IInv`:

- `Newborns`: a process that is being cloned is the last one in its creator's
  sequence, in nobody else's, and held back until it has its entries;
- `Life`: what a process has left at each stage, in particular that whoever
  notifies is `Terminated`;
- `CodesFinal`: the exit code does not change once the state says `Terminated`;
- `Indices` and `Notifying`: places in sequences and lists are in range, and a
  process with a listener in hand holds its lock;
- `Listed`: a waiter is in the list of a process of the table only at places of
  its sequence that `waitFor` has passed and `removeAssignedListener` has not. This
  is what keeps a Semaphore of a call that returned out of every list;
- `Notifiers` and `Posted`: a Semaphore that was posted names a process that is
  over and is waited for, unless a process was deleted while its thread still
  ran (the only way to an index of -1).

### Number formats

`FilesProofs` proves for all values what a run could only sample: packing an
even or an odd entry and unpacking it again gives the entry and leaves the
neighbour that shares the byte alone (`EvenEntryWritten`, `OddEntryWritten`), a
cluster number (`ClusterStored`) and a file size below 2^32 (`SizeStored`) come
back from a directory entry.

### Files

`FilesProofs` also has `TablesAgreeHolds`: after every call the integers and the bytes of the
table in memory and both copies on the disk are the same, for any size of
the disk, any disks at boot, any paths and any number of handles and calls. It assumes
`DiskAssumption` (among others that a directory has room for more than one entry per
cluster; that `Root` is the number of no cluster keeps the root and the cluster 19 apart, which
the code does not: see `RootSector` in section 2) and
`FilesAssumption`: the disk at boot is formatted (its tables agree and the
first two entries of the table, which stand for no cluster, are taken), and a
buffer and a disk full of data together are less than 2^64 bytes.

The invariant is `FilesInv`: the disk is in `Saved`, the disks whose table is
the unpacking of its bytes and whose copies are those bytes. The argument follows the calls:

- `SetEntryKeeps`: writing an entry as an integer and as packed bytes leaves the
  two in agreement (the lemmas on number formats, for every place in the table).
  Between two saves only the copies lag behind (`Sound`), so what has to be
  shown of each call is that it saves after its last change, on every path
  through its errors. `Refilled` has the steps that touch clusters only.
- `WalkLinked`: a walk along a chain that ends stays among the clusters, which is
  why what it frees or extends are entries of the table. This needs the
  first two entries to be taken: a free entry that is found is then a cluster (`FreeIndex`).
- `WalkSame`: a chain is the same in a table that has more entries. `create_file` takes
  a cluster and then lets the directory grow, along a chain it read before.
- `ItemsInAre` and `EraseInKeeps`: a directory lists at most as many entries as leave a slot
  behind them, so that moving entries up has a slot to erase.
- `PartsWritten`: `FAT::write` has written no more than the buffer holds when the disk is
  full, so that sizes stay in 64 bits.

Whether the chains of two files share a cluster plays no part in it.

`TreeProofs` has what the calls do to the tree and to the content of the files:
`TreeSoundHolds`, `ReadBackHolds`, `WildHasCauseHolds`, and the action properties
`OthersUntouchedHolds` and `LostOnlyByLongWriteHolds`. It assumes one thing more,
`BootAssumption`: the directories of a disk at boot are sound, nothing begins at
`RootSector`, and its files are empty. A disk that a host program formatted and
filled is as good, but what its files hold was not written through this kernel.

Any path may be given to a create. One that makes an item inside a file, or at
`RootSector`, is the last call, and the theorems say what they do not claim of it: of a create inside
a file neither that other paths keep their content nor that no cluster is lost, and of the
disk that either kind leaves nothing that needs a tree. That a create at
`RootSector` disturbs nobody by itself is part of `OthersUntouchedHolds` and `LostOnlyByLongWriteHolds`.
A create that fails is harmless wherever it leads (`ItemNotMade`).

The invariant is `SafeInv`: the system went astray, or `TreeInv` holds, which TLC also
checked on the instance of the run `files` before it was proved:

- `FilesInv`;
- `Tidy`: `TreeSound` and `Kinds` in a form that can be followed through a call. A directory
  *holds* a list (`Holds`): its slots are the two of its head, the list, and zeros, so
  that one statement has the search, the listing and the first free slot in it. `TidyFrom` and
  `TidyTo` say that it is the same as what the operations of the code find;
- `Shy`: no item begins at `RootSector`;
- `ImagesOf`: the clusters of a file that is not tainted hold what was written to it
  and then zeros, and its entry does not promise more than that (`Stored`). `ReadBack` says nothing of the
  slots between the size in the entry and the end of the last cluster, but the next write
  behind them brings them in;
- `FilesFor`: an open handle that was not deleted has the first cluster that the entry has
  now, and a size within the chain unless it wrote or set the size. That is what ties
  `WildHasCause` to the disk: it speaks of a step whose cause came calls earlier;
- `WildHasCause`, which reports the step that is just over.

The argument follows a path `t` through the operations of `fat12fs.cpp`:

- `ItemStep`: if the lists of all directories stay the same but for what is found under the
  last name of `t`, every other path leads where it led. It needs no induction on the
  depth of the tree, because a path is found in the directory in front of it.
- `Moves` is what one step of an operation does to the list of the directory of `t` and to the clusters
  of both; `MoveTidy` and `MoveLost` say that the disk stays tidy and what gets lost.
  The operations are sequences of such moves: a cluster that is taken (`ClusterTaken`), a directory
  that grows (`ParentGrown`), an entry that is put (`ItemPut`), changed (`EntryChanged`)
  or erased (`ItemErased`, with the entries behind it moved up), clusters that are freed (`ReleaseIs`), the head of a new
  directory (`FolderHead`). A failure in the middle gives the cluster back (`ClusterBack`).
- `LoopDone`: after k parts of a write the clusters of the file hold k parts and behind
  them what they held, where a part that found the end of the chain has hung one
  cluster behind it. A write that takes at most one new cluster hangs it behind the last one
  (`LoopHung`); that is the only place where the bound of `LostOnlyByLongWrite` comes from.
  `FlatFrom` turns it into slots of the file.
- `ReadWild`: a read past the chain is one whose sum of position and length passed the test against
  the size of the handle, so the size is too large or the sum did wrap.
- One lemma per system call (`OpenExistingTree` to `WriteTree`) puts it together.

Two things came out of the attempt. `FAT::read` compares the wrapped sum of offset and size, so that
a handle at a position near 2^64 goes past the chain with an honest size; `WildHasCause` names that cause now. And a seek to
the end does not make a size wrong, so it is no longer a cause.

### Keyboard and filters

`ConsoleProofs`: `ConsoleTypes`, `InputKeptHolds`, `EndsAreCausedHolds` and
`CutsDoNotShowHolds`, for any keys, sizes of the line buffer and of the queue,
and number of keys and presses.

- `InputKept` is inductive with the types. The work is in the operators: that
  leaving codes out of a text and counting them go through `Append` and
  concatenation. They are folds of the library, and the lemmas about them go over
  the length of the sequence (`Along`, `Follows`).
- `EndsInv` strengthens `EndsAreCaused`: an end that is on its way to the editor and a cancel
  that is still to come are counted as well.
- `CutInv` says what the filters keep after each code of a piece: `Counts` for
  `find` and `freq`, and for `type` and `sort` the case of a text that
  has not met a stop yet (`Open`) and the one of a text that has (`Closed`).

### Shell

`ShellProofs` is about any set of lines, any programs, any tree of the disk and
any number of lines. The properties of the run `shell` are all theorems, except
for the liveness `ShellReturns`.

`RunningKeepsHandlesHolds` rests on `HandlesInv` (`HandlesOwned`). Numbers are
given out again, so that nothing local says that a number is still what it was.
The invariant gives every number in use an owner (`Owns`): a place on the stack
of pipe ends, the file of a program, or one of the four flagged ends of an entry whose
program was started. An owner has one number and a number has one owner, which is
why no close takes what another one holds; an end leaves its owner at
the step that closes it (`Gone`), and `Behind` says that what a running program
reads and writes is behind the ends of its own entry. `Entries` and `Active` tie entries,
active handles and programs together: no program has two entries, and an entry that
is started has at most one of the two flags for a file, which is why the one file that
is opened is closed once (`LineType` shows it of what the parser returns).

`PopsNeedGapHolds` is about the stack of pipe ends alone: the other ways for the system to end
(`WaitGarbled`, `Overruns`, `StrcpyEndsSystem`) are open to good lines, and are actions of
their own. It rests on `StackInv`. With `r` the last entry in front of
the loop or a file behind it (`Ahead`), the stack still has two ends for
each pipe up to `r`, less one if the pipe behind `r` has been taken on its other side (`Owed`),
and for a clean line not one more. `LineInv` has what the line
keeps of its parsing: neighbours agree on the pipe between them unless a command is missing.
An entry that the shell handles itself, and one whose `index` is too high, leave
ends on the stack; in a line without a gap nothing takes one too many.

`NeighboursShareAPipeHolds` rests on `LinkInv`: the pipes of a line are numbered
from a base, the ends on the stack are those of the first pipes in their order
(`Numbered`), and the program that was started last reads the pipe that is on
top (`LastReads`).

`NothingLeftHolds` rests on `LeftInv`: in a clean line of which nothing failed
every number in the table is the console's or held by an owner (`AllHeld`, the
converse of `Owns`), entries with a handle are waited for, and the stack is
empty when the wait begins; so when nobody is waited for any more, nobody holds anything.

`PromptIsTrueHolds` and `CdWalksHolds` rest on `DirsInv` (both directories
are absolute). For `cd` the fold of `parse_path` over
the components is followed step by step beside the walk through the tree: as long as the walk exists
both are at the same place (`Matches`), and dropping a component at the root does nothing on
either side.

That `ProcessLine` returns well-formed entries for any text (`LineType`) is proved
from the positions of the operators in order (`InOrderLists`), which goes by
induction over the numbers.

### Induction

The library states induction with an operator as parameter, which the installed
provers cannot instantiate. Where it is needed it is done with sets: from the
well-foundedness of `<` on the naturals follows that a set of naturals with 0
and all successors is `Nat` (`NatSet`), and the same for a set of sequences that
is closed under `Append` (`SeqSet`). A lemma about all numbers or sequences
defines the set of those it holds for. That was enough for the folds of `Filters` and
`CommandLine`. The functions of `Fat12` that are defined by recursion (walks along a
chain, the parts of a write) have a value by `Recursion`, and keep what each of their
steps keeps by `Stays`.

### Only model-checked

- All liveness (`EndsReleased`, `CloseEndsTransmission`, `LockReleased`,
  `RegisteredIsWoken`, `ShutdownWakes`, `ShellReturns`, `CtrlCWakes`): fairness
  and ENABLED are out of the prover's reach.

Every invariant of the runs is a theorem, and every action property but the first half of
`CtrlCWakes`.

## 5. Where code and comments disagree

Two have a run that TLC ends with a counterexample.

1. **Closing a full pipe** (`pipe_handles_full`). `PipeOut::close` waits for a
   slot with `ioHandleLock` held; the reader needs that lock to look its handle
   up. The EOT that the comment promises is never written and no handle can be
   used any more.
2. **Lost wake-up** (`processes_wait`). `waitFor` tests the state and then adds
   its listener, with the process' notification in between.

The rest was met while modelling and is part of the models; properties are stated
so that they say where each of them ends.

*IO table and processes.* `getIoHandle` returns a bare pointer that another
thread may delete (`io.cpp:62`). Wait_For can return a process that is not yet
Terminated, because `processStartPoint` removes the handle first; Read_Exit_Code
then fails and the process stays in the table. `exit()` sets `Terminated` with
the program still running, and `readExitCode` deletes the Process under it
(`FaultsOnlyAfterEnd` says that this is the only way); a Process that is gone when
`processStartPoint` looks it up is a null pointer there (150). With two waiters for one
process `removeListener` does not advance past the listener of the other one
(`Blockable.h:20`); with three processes the thread of a deleted process can
notify a later wait, whose Wait_For then returns -1. `Convert_Native_Handle`
reads `Last_Handle` again after the unlock. A host id that is reused after a
process ended finds the old handle. After 2^16 handles the numbers meet live ones.

*Threads and shutdown.* A signal handler that makes a system call on processes
spins on `lockMaster` for ever. `FreeLibrary` comes after a Shutdown although
programs may still run, and after a wait of `Bootstrap_Loader` for a shell that has lost
its handle and is not Terminated (`kernel.cpp:94-99`), although its thread has its last
statements to do. Exit by a thread does nothing, Wait_For on the handle of
a thread uses a null pointer. Two overlapping readers of the tasklist can leave
an old list, and so can a full disk: the write fails (`PCBFile.cpp:15`) or is cut short, with
`tableUpdated` cleared before. Changes of state, exit code or working directory do not set
`tableUpdated`. `removeAllIoHandles` removes one entry, and a Shutdown whose one entry is the
write end of a full pipe does not get to its signals.

*Disk.* A write that takes two new clusters or more hangs all of them behind the
same last cluster and loses all but one (`fat12fs.cpp:414`). `FileHandle::write`
adds what was written to the size once more. Reads behind the chain leave the
vector; after a seek to before the beginning one passes the test of the size, because
the sum of position and length wraps. A handle on a file that was deleted works on free clusters. The handle
of the root has first cluster 19, which a write takes for the data cluster 19.
The bound of a read of a directory multiplies by the size of an entry twice.
Creating under a parent that does not exist follows cluster -1; under a parent
that is a file it takes over slots of the file; an item whose first cluster is 19 is
listed as the root (`fsutils.cpp:594`). A file of more
than two slots is taken for a directory that is not empty when it is deleted.
`set_file_attribute` cannot change the first entry, `get_file_attribute` never
reports that nothing was found. The `..` entry has attribute 10 instead of
hexadecimal 10. Opening without fmOpen_Always leaves the content of a file
that exists; every failure of an open becomes File_Not_Found; seek from the
current position takes the larger of the new position and the size.

*Shell.* `a < nosuch | b` waits for ever, because the loop leaves without closing
the write end (`command_parser.cpp:338`); so do `a > f | b` and `a || b`. `|a` pops
an empty vector, which ends the system. cd and `echo on` inside a pipeline shift
the indices of the programs after it (285). `a | nosuch` and a trailing `|` leave
handles open (366). `a < f > g` ignores `g`. cd accepts a file; absolute paths
are not resolved; a working directory of more than 256 characters leaves the old
prompt, and one of exactly 256 an empty one, or ends the system (`io.cpp:351-358`). A line of
one command of 256 characters overruns the buffers of `command_parser.cpp:158-195`. On good lines
too the wait can miss the end of a program (394), `at` can get an index of -1 (395), and
the close of a full pipe can wait for ever (440).

*Keyboard and filters.* An ETX that is pushed between the test of the queue and
`ReadFile` waits for the next key. A cancel that comes late makes the editor
report an end of input that is none, and Ctrl+C is dropped until a key is read.
At the end of a redirected input read returns Success and nothing, so that the
programs read on for ever. The queue has no lock. A BS at the beginning of a line
erases the prompt; the shell looks at `buffer[-1]` for an empty line. `type`
loses an unfinished line when a read fails, `sort` splits lines where a read of
the console or a pipe ends, `find` counts a line per read, in 16 bits. `rgen` calls
Close_Handle with the number of its thread, which is that of any IO handle.

## 6. What is not modelled

- The commands that make a few system calls and print (`dir`, `md`, `rd`, `echo`,
  `tasklist`), the numbers of `rgen`, and the parsing of the arguments of
  programs: sequential code without state of its own, whose system calls are in
  `Files`.
- Two file system calls at once: `fat_table` has no lock, and two threads in it
  can leave anything, so that there is nothing to state.
- The simulated hardware other than the keyboard: pure I/O. `SimpleIni.h` is
  vendored.
- In the modelled parts: functions that return a constant or that nobody calls
  (`try_lock`, `Peek_Char`, write of `PipeIn`), names and messages, the screen.
- Clone with an unknown program name and system calls with an unknown number
  return an error before they touch any state; the shell's side of it is in `Shell`.

## 7. What could be next

- What is left of a file after a write that took two new clusters: `TreeSound` holds of it, and
  `ReadBack` says nothing.
- The table of open handles as an abstract partial function with atomic
  operations, implemented by `IoHandles`.
- `rgen` and its thread, over `Threads`, `IoHandles` and `Pipe`.
