# A formal model of aceOS

TLA+ modules that model the parts of aceOS that keep state and make decisions,
TLC configurations that check them on small instances, and proofs, checked by
TLAPS, of the properties that matter most for every value of the constants.
Paths below are relative to the repository. Every definition that stands for
code is mapped to its lines in `PROJECT.json`.

## 1. Inventory

aceOS is one 32-bit kernel on one processor. It boots, initialises its parts in
the order of `kernel_main` (`kernel/kernel.c:1071`) and loops: take a key, run a
command, halt. Two things run beside the loop: the interrupt handlers
(keyboard, timer, serial), each to completion with interrupts disabled, between
any two instructions of the loop.

| Component | State it keeps | Operations | Talks to |
|---|---|---|---|
| Physical memory (`kernel/pmm.c`) | bitmap of frames, count of free ones, search hint | alloc, free, mark used, count | called by vmm, process |
| Virtual memory (`kernel/vmm.c`) | page directories and tables, in frames | create directory, map, unmap, translate, switch | pmm |
| Kernel heap (`kernel/heap.c`) | list of blocks in memory, statistics | malloc, free, calloc, realloc, validate | called by system calls |
| C library heap (`src/libc/stdlib.c`) | list of blocks in a static array | malloc, free, calloc, realloc | called by the filesystem |
| Process table (`kernel/process.c`) | slots, next PID, current process | create, destroy, exit, look up | pmm, vmm, scheduler |
| Scheduler (`kernel/scheduler.c`) | ready queue, statistics | add, remove, schedule, tick, yield | process slots; ticked by the timer |
| Timer (`drivers/timer.c`) | ticks, clock, callbacks | interrupt, sleep, register, unregister | scheduler |
| Keyboard (`drivers/keyboard.c`) | ring of characters, shift and caps lock | interrupt, pop, blocking read | read by the main loop |
| Serial (`drivers/serial.c`) | the UART's queues, a ring of received bytes | interrupt (with echo), write, read | written by everybody |
| Filesystem (`drivers/fs.c`) | entry table, directory table, contents, working directory | mkdir, create, delete, write, read, copy, move, list, chdir, find, tree | C library heap; called by the shell |
| Disk (`drivers/disk.c`) | table of drives; the channel's selected drive | detect, read, write by polling | complains on the serial port |
| Shell and terminal (`kernel/kernel.c`) | command line, cursor, history | one character at a time; about forty commands | everything |
| System calls (`kernel/syscall.c`) | counts, errno | dispatch on `int 0x80` | heap, filesystem, timer |
| Interrupt plumbing (`isr.c`, `idt.c`, `pic.c`, `interrupt.asm`) | table of handlers, masks | register, dispatch, acknowledge | all drivers |

What makes each correct, and what is hard about it:

* **Physical memory.** The three representations of what is free must agree
  whatever the callers pass; no frame may be lost, lent twice, or be the bitmap
  itself. Hard: a hint that is trusted, double and foreign frees, roundings, a
  second allocator in the same memory.
* **Keyboard and main loop.** Characters come out once, in order. Hard: the
  handler runs between any two loads and stores of the consumer; the loop
  halts after a test that may be out of date; the ring fills.
* **Scheduler.** An intrusive list stays a list; one process runs; nobody
  starves or is overtaken. Hard: long sequences of calls, the empty queue in the
  middle of a switch, slots cleared while queued.
* **Process table.** A creation takes four frames one after another and any may
  be refused; slots, numbers and frames are reused.
* **Filesystem.** Two tables tied by names tell one story; contents are never
  shared or lost; composed calls undo what they cannot finish. Hard: limits,
  entries never reused, partial failure.
* **Heap.** Blocks tile the heap under splits and merges in any order. Hard:
  unsigned arithmetic, stale pointers.
* **C library heap.** Nobody gets memory somebody holds, contents survive
  `realloc`. Hard: a merge that looks at one side only, a walk that goes on through
  headers that have just disappeared.
* **Virtual memory.** A call changes one page, in the spaces that share it, and no
  frame in use is lent again. Hard: tables shared from the moment a directory is
  copied, tables that cannot be had, frames freed by unmapping.
* **Serial and disk.** No character is lost between two writers that poll, a
  successful transfer has moved its sectors, every call returns. Hard: the handler
  between a poll and a write, an edge-triggered interrupt taken one character at a
  time, commands left running by a time-out, waits without a bound.
* **Timer.** No callback is missed while the table is shifted under the tick
  handler; the clock is the ticks; a sleep is long enough. Hard: the tick between
  any two stores, counters that wrap.
* **System calls.** The answer reaches the caller, errno is of the last call. Hard:
  a frame of registers copied twice, and interrupts off while a call waits.
* **Shell and terminal.** The cursor, the buffer, the prompt and the directory
  change in different functions and must agree; output must be seen. Hard:
  scrolling inside printing, wrapping, `clear`, extra slashes, deleted directories.

The list of everything here that is hard to test, line by line, with the
properties that would catch it, is "hazards" in `PROJECT.json`; those without a
property say why.

## 2. Modules

| Module | Role |
|---|---|
| `PmmOps` | `pmm.c` as functions on its record, used by two machines |
| `Pmm` | those functions called by anyone; also the disciplined callers of the build |
| `FrameAllocator` | abstract: a set, the lowest free member is taken |
| `PmmProofs` | lemmas about the functions of `PmmOps` |
| `Vmm` | `vmm.c` over `Pmm`: directories, tables, callers that map and unmap |
| `AddressSpaces` | abstract: maps from pages to frames, some regions in common |
| `VmmProofs` | proofs about `Pmm` under any callers, and about `Vmm` over it |
| `Keyboard` | `keyboard.c`, the loop of `kernel_main`, interrupts |
| `CharQueue` | abstract: a bounded queue of characters |
| `Scheduler` | `scheduler.c` and what `process.c` does to its fields |
| `Process` | `process.c` over `Scheduler` and `PmmOps` |
| `ProcessProofs` | proofs about `Scheduler` under `Process`, and about the frames of processes |
| `FileSystem` | `fs.c` |
| `FileTree` | abstract: a tree of paths |
| `FileSystemProofs` | proofs about `FileSystem` |
| `Heap` | `heap.c` |
| `HeapProofs` | proofs about `Heap` |
| `Stdlib` | the heap of `libc/stdlib.c`, with the contents of its blocks |
| `BlockStore` | abstract: what a caller may assume of a malloc |
| `Serial` | `serial.c`: the thread and the receive handler over the UART |
| `Disk` | `disk.c` over drives that are slow, fail or are absent |
| `Drivers` | `Serial` and `Disk` on one processor |
| `DevicesProofs` | proofs about `Keyboard`, `Disk` and `Drivers` |
| `Timer` | `timer.c` and the thread it interrupts |
| `Syscall` | `syscall.c`, the stub of `int 0x80`, over `Timer` |
| `ProgramProofs` | proofs about what a program relies on: `Stdlib`, and `Timer` under `Syscall` |
| `Terminal` | screen, cursor, prompt and line editor of `kernel.c`, as functions on a record |
| `Shell` | the shell's characters and commands, over `FileSystem` and `Terminal` |
| `ShellProofs` | proofs about `Shell` |
| `MC...` | instances for TLC |

How state and actions correspond:

* **Pmm.** The record `pmm` is the static `pmm`, its `bitmap` the set of frames
  whose bit is set; `AfterAlloc`, `AfterFree`, `AfterMark` are what the three
  functions leave, and each action is one call. The two loops of
  `pmm_alloc_frame` are two sets and "the lowest of". `lent` is history: what was
  handed out and not given back. Calls are atomic because no handler allocates.
* **Keyboard.** The variables are the statics of `keyboard.c`; `pc`, `head` and `c`
  are the loop's place and its registers. The objects are compiled without
  optimisation, so each comparison of the two indices is two loads and the
  handler may run between them. A handler is one action. Scan codes are keys of
  four kinds (letter, symbol, shift or caps lock, no character); a character is
  the key and the map it was read from. `down` (the shift keys held) and
  `irq0_unmasked` (whether the firmware left the timer's line open, which
  `timer_init` does not ensure) belong to the environment.
* **Scheduler.** The record holds the queue's three fields, `current_process`, and
  of each slot its state, next pointer, slice and use. Slots are the addresses.
  `Next` is callers who keep to the calls' order; `KillNext` adds callers who
  destroy whatever they find, which `process_destroy` allows. Statistics are left
  out; the context functions are stubs in the code.
* **Process.** Adds PIDs, the frames in each control block and the allocator.
  Creation is one action per outcome: refused at the first, second or third
  frame, or returned, with or without the page table that `vmm_map_page` wanted.
  `RunnableHasDirectory` is about callers who add what `process_create` returned.
* **FileSystem.** The two tables and their counts, and blocks of memory with their
  contents. Each call is a function from a state to a state and an answer, so
  `fs_copy` and `fs_move` are compositions, as in the code. Of the C library's heap,
  which `Stdlib` models, it keeps that malloc gives any free block or, whatever is
  left, none. A path is the sequence of
  its parts, so the tokeniser is the identity on it; names are short enough not to
  be cut at 31 characters, and the dead stack frame into which `fs_parse_path`
  returns pointers is assumed intact. The working directory is in `Shell`.
* **Heap.** `block` maps an address to the header there; merged headers leave the
  map. Sizes are modulo `WordSize`. `asked` is history: who holds what, and how
  much was asked for. Any nonzero size may be: the rounding wraps as in C, and a
  `heap_calloc` whose product rounds to 0 clears more than its block, after which, as after
  a split that wraps, nothing more is modelled. Callers free what they were
  given: the header of a block swallowed by a merge is not freed again.
* **Vmm.** `vm.dir` and `vm.table` are the contents of the frames that are
  directories and tables, by address; the kernel's directory is static and no frame.
  A step makes at most one call of `pmm.c`, so every step is a step of `Pmm` or
  leaves it alone. An entry is the address it holds, or `NoEntry`: callers map present
  pages, and nothing in `vmm.c` reads the writable and user bits.
  `vmm_switch_page_directory` stores a pointer nothing reads and
  `vmm_enable_paging` has no caller: both are left out. `placed` is history: the entries that
  are as a caller mapped them. Callers map frames they were lent and do not use
  yet, and unmap what they mapped: a page still as boot mapped it may be anyone's
  frame, and unmapping it frees that (section 4). Other callers use `pmm.c` as
  they like on frames nobody uses.
* **Stdlib.** `block` maps an address to the header there, `asked` and `content` say
  who holds what and what is in it. `free` merges with the block before or, only if
  there is none, with the one after, and the walk goes on with the merged block.
  Its one caller is `fs.c`, whose sizes are the lengths of strings in memory; so sizes within 7 of 2^32, which would round to 16, are not asked for.
  The product of `calloc` wraps. The build calls neither `calloc` nor `realloc`.
* **Serial.** The transmit queue is a sequence of who wrote; the receive queue a
  number. The UART is what `serial_init` programs: the receive line rises at
  the trigger or at the character timeout, and the interrupt controller latches the edge. The
  handler is two steps, its read and its echo, with the wait between; while it
  runs the thread does not. Its ring is the keyboard's code without a reader, and
  is left out.
* **Disk.** `stage` is the wait the thread is in, `polls` the looks it has left. A drive
  that is executing serves a sector or fails at any time, or never answers. BSY is
  taken to be set with the last word of a sector; while it is set RDY may show or not,
  and DRQ does not. A command written to a busy drive is ignored or replaces
  its own. The second channel is a second copy of the first. Tests and
  listings of the file are calls of these.
* **Drivers.** The thread is in the disk driver or in `serial_write_string`, which a
  time-out calls; the handler comes between any two of its steps.
* **Timer, Syscall.** `pc` is the kernel thread: between calls, or between two stores
  of a registration, a removal or a sleep; `timer_handler` may run there whenever
  `interrupts` holds. `held` and `moving` are history: which callbacks are registered,
  and which is coming or going. `elapsed` counts the ticks without wrapping. The gate
  of `int 0x80` is an interrupt gate, so a call is one step, except `kernel_sleep`,
  whose loop halts. What a call answers is the set of what its implementation can
  return, with the errno it leaves; its effects on files and heap are those modules'
  actions. `caller` is the call that returned last, none while a sleep runs.
* **Terminal, Shell.** The record `term` holds `cursor_row`, `cursor_col`,
  `command_length` and what each row shows: blank, output of the last command, older
  text, or a command line. `covered` and `tallest` are history. A text is its number of
  rows and whether it ends with a newline, which is all that `k_print_string` lets
  reach `cursor_row`. The commands that only print are one action for each shape of
  their output; an unknown one repeats the line, which then may take two rows. `FileSystem`'s functions are the commands' effects. A command
  line is its length and, on Enter, any command; names are one character long, so
  a path's length is its parts'. `reply` is not used.

## 3. Runs

| Run | Shows | Bounds, and why they are enough |
|---|---|---|
| `Pmm` | `Vmm` over `Pmm`: bookkeeping, exhaustion, both refinements, frames in use | 6 frames of 4 bytes, every address around them, 4 regions of 5 pages: one bitmap frame and two boot tables as in the real layout, three frames to lend: a directory, a table and a page, or two directories and a table; boot's identity pages lie over its own tables and over a frame that will be lent. Exhaustion, reuse, misaligned and foreign frees all occur |
| `Keyboard` | ring against handler, refinement, liveness | one key of each kind, 3 slots: fills, wraps and drops in the middle of a pop |
| `SchedulerKill` | violation | 4 slots |
| `Process` | list, states, order and liveness of the scheduler; ownership of frames through failures | 4 slots: head, middle and tail beside the running process; slices of 1 and 2; 15 frames: each allocation of a creation is refused in some state |
| `FileSystem` | tables, blocks, refinement | 3 paths on 2 levels, 4 entries, 3 directories, 2 per directory, 3 blocks: every limit is met |
| `FileSystemFull` | violation | the same |
| `Heap` | tiling, coalescing, pointers, statistics | 244 bytes, up to four blocks; requests that split, do not, do not fit, overflow `heap_calloc`, and round to 0, at once and as its product |
| `HeapSplit` | violation | the same |
| `Syscall` | callbacks, clock, sleeps, errno | 26 ticks with a counter of 8 and seconds of 3: the counter wraps three times inside a second, the clock reaches a day; 4 interchangeable callbacks for 3 places; every call, with arguments that succeed and that fail |
| `Stdlib` | tiling, one-sided merges, refinement of `BlockStore` | 144 bytes, up to five blocks: a freed block has free and held neighbours on either side; requests below the minimum, rounded, with a surplus too small to split, too large, and a product of `calloc` that wraps |
| `Drivers` | transfers, transmitter, receiver, calls that return | 2 drives, the second only detected; transfers of 0, 2 and 3 sectors where the drive has 2 and the count register holds 2; waits of 2 looks; queues, trigger and window of 2: a poll, an echo and a write meet in every order |
| `Shell` | cursor, line, output, directory | 4 rows of 12 columns, lines of 2 characters, 3 entries: the prompt fits, fits without room for a character, or wraps; output scrolls, and is taller than what the prompt spares; directories on two levels, of which the current one, or both, are removed, or replaced by files |

Bounds of the models themselves: `time_used` stops at its slice (the code compares
with `>=`); `FreeSizeCap` stops `Heap` once the drifting `free_size` exceeds it;
`FileSystem` stops after an entry past the table, `Heap` after a wrapped split.
`Shell` stops with `FileSystem`; `MaxElapsed` bounds the ticks of `Timer`, where a
`kernel_sleep` also stops everything (see below). `CHECK_DEADLOCK FALSE` is set only for
these, which stop there. In `Shell`, `help` prints one line more than the screen has
rows instead of 27: from there on every further line leaves the same screen.

In the run `Pmm` the hint moves only because arbitrary callers may free the bitmap's frame
or mark frames; with the build's callers frame 0 is always taken, so the hint
stays at 0 and every search starts there.

**Fairness.** `Keyboard` assumes the processor executes the loop's instructions and
that, if its line is open, the timer's interrupt ends a halt: the PIT is
programmed as a periodic source (`timer.c:49`). `Process` assumes the tick is
taken again and again while multitasking is enabled, for the same reason. `Drivers`
assumes that the processor executes the handler and, where no handler runs, the
thread, and that the UART sends what it holds and raises its timeout; nothing of
the drives or of the other end of the line. No fairness is assumed of keys, callers, or
the choice between them.

Two liveness properties of `Drivers` have a condition because the code needs one.
`CallsReturnInSilence`: a disk call ends because its waits count down, but the wait
for the transmitter does not, and a stream of characters whose echoes refill the
queue can hold the thread there. `ReceiverServed` needs a window no larger than the
trigger: one character more, and the line never falls after a read, no edge
comes, and the receiver is dead (`serial.c:55`; with `Window = 3` TLC shows it).

**Deadlock.** Checked in `Pmm`, `Keyboard`, `Process`, `Stdlib` and `Drivers`: a key
may always come, a caller always has a call to make, the other end or the thread
can always go on.

## 4. Findings

Each is a run that expects a violation; the counterexample is the behaviour.

1. `QueueWellFormed` under `KillSpec`: a queued process's slot is cleared at once,
   and the list is cut (`process.c:158`).
2. `EntriesFit`: `fs_mkdir` writes past the entry table (`fs.c:238`).
3. `BlocksInBounds`: the surplus of a split wraps (`heap.c:74`).

Met while modelling, without a run of their own. The first eleven are stated as
definitions that TLC refutes when they are added to the component's run:

* `HeapMemoryNotHandedOut` (`Pmm`): the allocator's 30 MB contain the heap's 4 MB,
  which nobody marks used (`kernel.c:1103`).
* `ShiftTracksKeys` (`Keyboard`): one flag for two shift keys (`keyboard.c:62`).
* `RelativeToCurrentDirectory` (`Shell`): `mkdir`, `rm`, `cp`, `mv`, `ls`, `tree` and `stat`
  pass a relative name to `fs.c`, which begins at the root; only `cd`, `touch`, `cat`
  and `write` join it to the current directory. `test_filesystem.md` promises relative
  paths.
* `PidsUnique` (`Process`): "Get next available PID" (`process.c:39`) counts on and wraps
  onto live ones (line 44): after four creations and one destruction two processes are
  namesakes.
* `RoomForAnySize` (`Heap`): the seven largest sizes round to 0, and their caller gets
  32 bytes (`heap.c:139`); `SYS_MALLOC` passes any size on.
* `ResultInEax` (`Syscall`): "Return result in EAX" (`syscall.c:134`) stores it in a copy of
  the registers, and the caller finds its call's number there.
* `SuccessfulWriteStored` (`Disk`): a write whose last sector the drive refuses returns
  success, since nobody looks at ERR (`disk.c:297`).
* `SuccessfulReadFromDisk` (`Disk`): a command that timed out is left running
  (`disk.c:236`), and what the drive answers to it passes for the answer to the next.
* `CdEntersDirectory` (`Shell`): `fs_change_dir` checks that what it enters is a directory,
  but `cd ..` cuts the path and looks nothing up (`fs.c:750`), so it can lead to a
  directory that is gone, or to a file in its place.
* `Coalesced` (`Stdlib`): a block freed between two free ones joins the one before,
  and the one after stays beside it (`stdlib.c:103`).
* `IdentifiedDriveAsked` (`Disk`): RDY is asked of the drive selected before
  (`disk.c:212`), which after detection is the channel's second one. If there is
  none, every call times out.

The others are seen in the models:

* A count of 0, like 256, asks the drive for 256 sectors, of which none is taken for
  0, and leaves the command running; an address is cut to 28 bits (`disk.c:221`).
* Unmapping a page boot mapped gives the allocator the frame under it, whoever has
  it (`vmm.c:139`). A page directory's user bit is that of the first mapping in its
  region (`vmm.c:100`).
* A `kernel_sleep` of a second or more halts inside the gate with interrupts off, and
  nothing wakes it (`syscall.c:274`); `SleepHalts` is where `Syscall` stops.
* The prompt covers the third row of an output printed in one piece (`kernel.c:220`),
  so `ls` of three entries loses one: `ShortOutputKept` says that no shorter one does.
* The first character of a command line cannot be erased: the bound is two columns
  too far (`kernel.c:1040`).
* After `cd a/` the directory is `/a/`, and `cd ..` leads to `/a`, whatever is there now.

## 5. Proofs

Assumptions are those the modules name: `PmmAssumption` (frames, frame size and
start are positive), `HeapAssumption`, `VmmAssumption` (the kernel's directory lies below
the managed memory, which is aligned and has room for boot's two tables),
`CallerAssumption`, `KeyboardAssumption` (at least two slots, and 0 is not a
character), `SerialAssumption` (a transmit queue of at least two, no empty string),
`SchedulerAssumption` (at least two slots, slices that are not empty), `ProcessAssumption`
(room for boot's two frames), `DiskAssumption`, `TimerAssumption` (a counter, a second and a table that are not empty,
delays that fit the counter), `SyscallAssumption`, `StdlibAssumption` and
`HeapSizeAssumption` (the word's size is a multiple of 16, the memory holds a header and ends
below it, and requests are any nonzero words); `FreeSizeCapAssumption` (the bound on `free_size` and the whole
heap together are no word that wraps). `FsAssumption` asks of the filesystem that its tables are not
empty, that a path is a nonempty sequence of proper names and what it is below is a path
too or "/", that contents are sequences, and that what stands for a free block, for
memory nobody wrote, for a directory and for a lost content is no content.
`TerminalAssumption` (at least one row and seven columns, a buffer that is
not empty, and a shell that starts on the screen) and `ShellAssumption` (what a user
types are names, parts that may be empty, at least one that is not). TLC
evaluates them in the runs.

**`PmmProofs`, and `Pmm` in `VmmProofs`.** `PmmSound` says that the record has its type, the count is the
number of clear bits and no clear bit is below the hint. It is inductive: of each
function of `PmmOps` one lemma shows it preserved (`AllocSound`, `FreeSound`,
`MarkSound`), with `CountMoves` for what one frame does to the cardinality and
`LowestExists` for the search. From the invariant follow `TypeCorrect`,
`Bookkeeping`, `Exhaustion` (which needs the count and the hint together: the
first test and the two searches must fail together or not at all) and
`Refinement`, where the two-part search is the lowest free frame only because
nothing free is below the hint. `Ownership` is a stronger invariant of the
disciplined callers: taken is the bitmap's own and what is lent, exactly.
(TLC does not check `OwnershipExact` in a run of its own.)

**`VmmProofs`.** `FramesInUse` is not inductive: that a new directory's frame is new
needs `lent` inside the bitmap, and that a table is written in one place only needs
every entry of every directory to name a table. `VmmIInv` adds both to the allocator's
invariant: `Sound` is `Shaped` (types, and addresses of frames), `Backed`
(what is used is lent), `Apart` (directories, tables and mapped frames are distinct)
and `SharedByKernel` (a table two directories have is the kernel's). One lemma for
each way the structures change: `SoundNewDirectory`, `SoundNewTable`, `SoundPlaced`, `SoundCleared` and
`SoundRelent`. From it `InUse`; and `SpacesRefined`, where one step of a table is shown to be,
entry by entry, one change of the page in the spaces that see it (`AbsChange`), and
a copied directory to be a new space (`AbsNewSpace`). As a step of `VmmSpec` is a step of `Pmm` or
none, `BookkeepingUnderVmm` and `RefinementUnderVmm` carry the allocator's theorems over
to the specification the run `Pmm` checks.

**`DevicesProofs`: the keyboard.** The type invariant and `FetchedIsOldest` are not inductive:
that the fetched character is the tail's says nothing about how the loop got
there. `LoopKnows` adds what the loop knows at each place (once it has seen the
ring nonempty it stays so, because a handler moves only the head and never onto
the tail) and `RingFilled` that occupied slots hold characters. `PushKeeps` is the
handler's side, at any place of the loop; `SuccValue` removes the modulus. From it
`TypeCorrect`, `PopUndisturbed` and `GetcharNeverEmpty` (`keyboard_getchar` never gives the
loop the 0 of an empty ring), for every ring size. `QueueRefined` reads the ring as a
sequence from tail to head: `RingPush` and `RingPop` say that a store and a move of an index
are an append and a tail, and each step of the loop or the handler is one step of `CharQueue` or
none.

**`DevicesProofs`: serial port and disk.** `NoCharacterDropped` and `NoPhantomCharacter`, whatever the disk
and the drives do. `WritersInv` says that a thread that has polled and not written
can find at most one character, the handler's echo, because the handler writes only
into an empty queue; `ReceiverInv` that an edge is latched only with a character
there, and only the handler takes one. `SuccessMovesEverySector` is `CallDelivers` for every
number of sectors, drives and looks. What is true when a call returns follows only from what is
true at each wait before, so `Progress` follows a command that went to a free drive: the drive has refused;
or it is at sector i with the sectors before it done; or it is storing the last one it was
given (`Storing`: the driver is then a sector ahead of the drive); or it is done. That the
command went to a free drive, and that the drive took the last sector of a write, are
provisos the statement needs: without them it is `SuccessfulReadFromDisk` and
`SuccessfulWriteStored`, which do not hold (section 4).

**`ProgramProofs`: the timer.** Three invariants, one for each property. `TableInv`: whatever store
of a registration or a removal the thread has reached, the places counted, but for the
gap a removal is closing, hold each registered callback once, and the gap holds the one
that goes or a copy of one that stays; so the walk of a tick calls every registered
callback (`NoCallbackMissed`). `ClockInv`: the seconds shown are those of every turn of
the counter plus those since it last wrapped, from which `ClockBounds` gets how far the
clock can be off (`ClockNeverBehind`). `SleepInv`: the target of a sleep under way is where
it started plus the delay, modulo the counter (`SleepNotShort`).

**`ProgramProofs`: errno.** `AnswerTells` goes through what each call can answer: its errno is set
exactly if its result tells a failure. For `kernel_time` that needs a nonnegative count of
seconds, from the invariant of the timer (`SecondsNat`); a step of the timer answers nothing, and
`kernel_sleep` answers at its end (`SleepTells`). So `ErrnoAlwaysOfLastCall`: the clearing on
entry (`syscall.c:58`) suffices, and no earlier failure shows through.

**`ProgramProofs`: the C library's heap.** `BlocksTile` is not inductive as it stands: that a merge leaves a list
needs the blocks to be apart. `HeapInv` is `Tiled` (the headers have types, each block
ends where its successor begins, each but the first has a predecessor, no two overlap)
and that the pointers held are those of the used blocks, each with room for what was
asked. `TakenTiled` and `FreedTiled` say what a split and the merges of a `free` do to a tiled
list; `FreedAlwaysJoins` follows from the second. For `HeapIsBlockStore` a found block is
vacant memory of the abstract store because blocks are apart, and `realloc` is the
abstract one, its bytes kept.

**`HeapProofs`.** The same idea on a list linked both ways: `LinksAgree` shows `next` and
`prev` inverse, so `BlocksTile` follows from `Tiled`. `Shape` adds that the two counters
count the used and the free blocks, `Compact` that no two free blocks are neighbours,
`Holders` that the pointers held are those of the used blocks, each with the room
that rounding left of what was asked. In the middle of
`heap_free` the list is compact but for the block being freed (`CompactBut`):
`MergeNextKeeps` and `MergePrevKeeps` bring that down to compact. `HeapInv` holds all of it
until a split wraps, and the types afterwards, since the new header still begins inside
the heap (`TakeTypes`). `ListTiles`, `FreeBlocksApart` and `PointersAlwaysValid` follow. The last says of a
block that it holds what was asked for unless that is within 7 of the word's size, and then
that it has the minimal 32 bytes: `RoomForAnySize`, which has no exception, does not
hold (section 4). The cap of `heap_calloc` does not help, as its product may be such a size.
`FreeBytesCovered` is about a sum over the free blocks. The library's fold is, expanded, a
recursive function on sets, so what it needs (`TotalWithout`: any element may be counted
first) comes from a least counterexample once more. `free_size >= FreeBytes` is not inductive: a
`heap_free` that merges on both sides adds one header and frees two. `Covered`,
`free_size + Header >= FreeBytes + Header * blocks_free`, is: a split makes
a header and a block, a merge takes one of each away (`SplitCovers`, `MergeCovers`).

**`ProcessProofs`.** The ready queue is a list threaded through the process table, and
`Chain`, the walk along it, is a recursive function. That the walk exists and is the only
one comes from a least counterexample (`LeastNat`, `WalkExists`, `ChainUnique`): a shortest
prefix that fails would follow one that does not. `Line(s, q, n)` then reads a list as a
function `q` from its `n` positions, `ChainLine` and `LineChain` say that it is the same as
`WellFormed`, and `AddLine`, `DequeueLine` and `RemoveLine` what each function of `scheduler.c`
does to the positions; `LineShort` shows by counting that a process outside the list leaves
room for it. `SchedInv` joins list, states and the kernel's place; it is broken in the
middle of `process_exit`, where nobody runs, and `BeforeSchedule` is what `Schedule` needs there.
From it `ListUndamaged`, `OneRuns` and `KernelNeverLost`; `NobodyOvertakes` compares positions
before and after (`NotBack`).
For the frames, `GetAll` follows the four requests of `process_create` to wherever they stop:
as many frames, all different, that were free. `Owners` says that the addresses in the
control blocks of created processes are those of taken frames, not boot's, and that no
address occurs twice; `OwnersAdd`, `OwnersElsewhere` and `OwnersRemove` are a creation, a failed one and a
destruction. `Attached` adds that only created processes are queued or current, and their slots
not free. From them `NoFrameShared` and `DirectoryOfNext`; and `ProcessTypes`, the types, which
are proved and have no run of their own.

**`FileSystemProofs`.** Neither `TablesAgree` nor `BlocksOwned` is inductive. `Sound` is four
parts: `Shaped` (types, and the root in slot 0), `WellListed` (every entry made that has a name is in its
parent's list, once, and siblings' names differ; slots not yet made are blank, or a
new directory could begin with a list), `Paired`
(one slot to each directory entry, one entry to each named slot, and a
slot's parent is an earlier one: deletion and lookup find the slot by name, so a second
match would be the wrong one) and `Owned` (an allocated block has one owner, a listed file; an unlisted entry
owns nothing). What an entry more, an entry less and another content leave of the parts is
said once, whatever call it belongs to (`ListingGrows`, `ListingShrinks`, `ListingRewritten`, and
the same of `Owned`), then per call (`CreateKeeps`, `MkdirKeeps`, `DeleteKeeps`, `WriteKeeps`);
`fs_copy` and `fs_move` are compositions, and so are their proofs. fs.c's walk along a
path is a recursive function; that it exists and stays in slots that are in use is again a least
counterexample (`WalkExists`, `WalkLives`). `TablesAlwaysAgree` and `BlocksAlwaysOwned` follow.

For `FilesAreATree` the tables must be read as a tree. `OnePath`: no two paths reach one
slot, because two that did would, going up, reach the root at different depths (`Descent`).
`Local` says what a call on a path changes: one entry, in the list its last
part is looked up in, and what the path then reaches, which has an empty list.
So every other path finds what it found (`ReachedBut`, `FoundBut`) and, blocks having one
owner, with the content it had (`LocalElsewhere`). The calls are then changes of one path
(`CreateDoes` to `MoveDoes`), and each is a step of `FileTree` or none (`MkdirSeen` to `MoveSeen`). The
invariant needs one thing more, `Sized`: the size of a file is that of its content.
`fs_copy` copies nothing when either its block or its size is missing, and
without `Sized` a file of size 0 could have something in it.

**`ShellProofs`.** None of the shell's three invariants is inductive: where the cursor is
says nothing about the line in front of it, and the next prompt depends on how long the
path is. `ShellIInv` joins the filesystem's invariant (`Whole`, from `FileSystemProofs`)
with `EditorOK`: cursor on the screen, buffer below its limit, the cursor as far from the
prompt's end as the buffer is long where the prompt leaves room in its row, and no
output covered unless a text of three rows was printed. Scrolling happens inside printing, so the
argument goes along the text: `RowPrintedIs` and `PrintedRows` are one row and then all rows of
a text, `PutIs` and `OutputIs` one text and then a command's, `PrintedCellsIs` the parts of a
prompt that wraps. That a recursive function is defined and keeps what each of its steps
keeps comes from a least counterexample (`UpTo`, `Iterates`), once for all of these and for
`Clean`. `ShortOutputAlwaysKept` needs to know where output can be: `OutputNear`, not further
than two rows below the cursor, unless the cursor is in the last row or a text of three
rows was printed (`Reachable`). For `AlwaysStaysInDirectory` each command that changes
something leaves directories directories (`KeepsDirectories`, from the changes of one path
in `FileSystemProofs`), `cd` looks up what it enters, and `cd ..` needs no look because the
walk to a directory goes through directories (`ChangeDirUpOK`). It has something to say
of every step: only the removal of the current directory itself leaves the shell
nowhere, nothing makes a file of the directory it is in, and from nowhere it gets to a
directory or, by `cd ..`, one part up.

**Only model-checked.** Liveness (`InputConsumed`, `QueuedRuns`, `CallsReturnInSilence`,
`ReceiverServed`), since TLAPS does not prove statements under fairness or about
ENABLED. Every other property of the passing runs is a theorem.

## 6. Not modelled, and the plan

Left out for good: drawing and windows (`graphics.c`, `gui.c`, the second not even
built), string and formatting functions (`string.c`, `stdio.c`, conversions), boot
code, device programming of the PIC and the IDT. They hold no state the properties
are about.

Could follow:

1. **Scheduler, preempted**: calls split at their stores, the tick of `Timer` between
   them. Nothing in the build enables multitasking, so today no tick comes between.
2. **Shell, interrupted**: `fs_parse_path`'s dead frame against the interrupts that
   arrive while a command runs; the outcome depends on the depth of the handler's stack.
3. **System calls over the modules**: `Syscall` composed with `Heap` and `FileSystem`, where
   now the answers of a call stand for its effects.
