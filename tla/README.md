# keonOS in TLA+

TLA+ specifications of parts of keonOS, a 64-bit x86 kernel in C++ and
assembly, with TLC models and TLAPS proofs. Paths below are relative to the
repository.

## The system

keonOS runs on one CPU. Concurrency is preemption: the timer (IRQ 0) and the
keyboard (IRQ 1) interrupt whatever runs with interrupts enabled, and the timer
handler calls `yield()`. Code with interrupts disabled (handlers, `cli`/`sti`
pairs, irqsave locks, system calls up to their first `yield()`) is atomic.
There is one address space; every program is loaded at the same addresses.

| Component | State | Operations | What is hard |
|---|---|---|---|
| Threads, scheduler (`kernel/arch/x86_64/thread.cpp`, `switch.asm`) | circular run list, zombie list, ids, states, sleep counts | add, exit, kill, sleep, yield, wake-up, cleanup, lookup | one `next` field for two lists; interrupts between unlock and yield; unlocked walks |
| Timer (`drivers/timer.cpp`) | ticks, sleep counts | handler, sleep | wake-ups, starvation |
| Keyboard (`drivers/keyboard.cpp`) | ring buffer, shift and caps lock | handler, getchar | test and block are not atomic; a full ring looks empty; one flag for two shift keys |
| Interrupts, panic (`idt.cpp`, `idt_flush.asm`, `panic.cpp`) | handler table | dispatch, faults, halt | a handler runs on the interrupted thread |
| System calls (`kernel/syscalls/`, `syscall_entry.asm`) | GS base, call table | entry, exit, process, memory, file and console calls | swapgs balance over switches and exits |
| Kernel heap (`mm/heap.cpp`) | block list | kmalloc, kfree | splitting, merging, growth that fails halfway |
| VMM (`mm/vmm.cpp`) | kernel break | sbrk | partial failure |
| Frames and paging (`paging.cpp`) | bitmap, page tables | alloc, free, map, unmap | a mapping that fails silently; ownership of frames |
| Loader (`kernel/exec/kex_loader.cpp`) | image range, break | kex_load, kdl_load | runs preemptibly; fails halfway |
| Shell (`kernel/shell.cpp`) | line, history, cwd | line editor, completion, commands, run and wait | polls for the end of a program; redraws by relative cursor moves; keeps the cwd twice |
| Screen (`drivers/vga.cpp`) | cells, cursor | write, scroll, move | wrap, scroll and clamping at the edges |
| Boot (`kernel/kernel.cpp`, `boot/`) | | kernel_main | order of initialisation |
| VFS and file calls (`fs/vfs.cpp`, `sys_file.cpp`, `sys_stat.cpp`) | mounts, nodes, reference counts, descriptors | open, close, read, write, create, unlink | shared nodes, leaks |
| Ext4 and journal (`fs/ext4_vfs.cpp`, `fs/ext4_journal.cpp`) | bitmaps, inodes, directories, log | create, write, mkdir, unlink, commit | power loss between block writes |
| FAT32 (`fs/fat32_vfs.cpp`) | cluster chains, short and long names | the same | full disk, order of sector writes, stale handles, orphaned long names |
| RamFS (`fs/ramfs_vfs.cpp`) | an archive in memory | lookup, read | its nodes are never deleted |
| C library (`libc/`) | | number conversion, printf, strings | widths, zero, wrap-around |
| ATA, serial, speaker, GDT, user programs | | | port I/O; code above the kernel |

`kernel/arch/i386` is not built (`ARCH_TO_COMPILE = x86_64` in the Makefile).

`PROJECT.json` maps each definition to source lines and lists the components
and, at their lines, the hazards, with the properties that watch them.

## Modules

| Module | Models | Proofs |
|---|---|---|
| `Scheduler` (`MCScheduler`) | threads, timer and keyboard handlers, the shell's run-and-wait loop, blocking and exiting system calls | `SchedulerProofs` |
| `Heap` (`MCHeap`) | kmalloc and kfree over VMM::sbrk | `HeapProofs` |
| `Memory` (`MCMemory`) | frame bitmap, page tables and everyone who takes frames from them | `MemoryProofs` |
| `Ext4` (`MCExt4`) | the ext4 driver and its journal on a disk that can lose power | |
| `Fat32` (`MCFat32`) | the FAT32 driver on a disk that can fill up and lose power | |
| `Vfs` (`MCVfs`) | nodes, reference counts, path walks, RamFS, descriptors, the file commands of the shell and the file calls of a program | |
| `KeyQueue` | what the keyboard driver promises: a bounded queue | |
| `Keyboard` (`MCKeyboard`) | scan codes, shift, caps lock, the ring buffer; implements `KeyQueue` | `KeyboardProofs` |
| `Terminal` | the text screen, as operators | |
| `Shell` (`MCShell`) | the line editor on `Terminal`: keys, history, completion | |
| `Libc` (`MCLibc`) | conversions, vprintf, memory and string functions, the rounding of timer_sleep | |

The modules meet where the code does: `Shell` is composed with `Terminal`, and
`Vfs` with the shell's commands, RamFS and thread exit. `Scheduler` has the
keyboard buffer as a count; its order and its overflow are in `Keyboard`.

### Scheduler

An action is a stretch of code that cannot be interrupted; `pc[t]` is where
thread `t` stands when it can be. The variables `current`, `next`, `state`,
`sleep_ticks`, `id`, `next_id` and `zombie_head` are the fields and globals of
`thread.cpp`; `gs` is the side `swapgs` has selected; `umap` says whose
frames are mapped at the fixed user addresses. `alloc` says whether a
`thread_t` is allocated. `job`, `pid` and `temp` are locals of the shell's
thread: the thread `kex_load` made, its id, and the cursor of
`thread_get_by_id`.

* `TimerIRQ`, `KeyPress`: the two handlers, whole: counts, wake-ups, `Yield`.
  `IRQWhileExiting` is the same handlers striking a thread that is already on
  the zombie list: their walk back to `current_thread` never ends.
* `Yield`: wakes expired sleepers, then takes the first ready thread behind the
  caller (behind idle if the caller is a zombie), idle last. The walk is stated
  by distance along `next` (`Hops`).
* `Bury`, `ThreadKill`, `ThreadAdd`, `CleanupZombies`: the list operations, with
  the pointer assignments of the code.
* `CheckInput`, `Block`, `Take`: `keyboard_getchar`, and `sys_read` after it has
  blocked once, in the three steps between which interrupts are enabled.
* `KexLoad`, `KexLoadDone`, `KexLoadOom`, `WaitStart`, `WaitWalk`, `WaitSleep`:
  the shell loading a program and polling for its end.
* `Sys...`, `SysRet`, `UserFault`: the program. It may make any call at any time.

Abstracted: the registers that `switch_context` saves; which character was
typed; why a command does nothing; `timer_ticks`. A sleep lasts 1 to `MaxTicks`
ticks. The keyboard buffer is a count that stays below its size. `kmalloc` for
a new thread is taken to succeed. `sys_read` takes one character, from the
keyboard only.

### Heap

Addresses count from `heap_start`; `blocks`, `size`, `free` and `next` are the
headers, `curr` and `last` the loop variables, and an action is one iteration.
`held` and `want` are the callers' view: what they hold and what they asked for.
kfree's first merge (with the following block) is part of `Kfree`, the sweep
from the start of the list is `Merge`, `MergeOn` and `MergeDone`. `GrowFails` is
an sbrk that ran out of frames after any number of pages; the break keeps what
it gained. The statistics are left out. Callers pass to kfree only what they
were given, once.

### Memory

A page is a number; pages below `TotalFrames` are the boot's identity map, in
which programs are linked to run (`user/kex.ld`). `pt` and `user` are the page
table entries, `tables` the page-table frames `get_pte` created for a region,
its levels collapsed to a count. The loops of `VMM::sbrk`, `thread_create_user`
and `sys_sbrk` run with interrupts disabled and name themselves in `cpu`; the
shell's `kex_load` and `testpaging` do not, so everything else can come between
`pfa_alloc_frame` and `paging_map_page`. `Sbrk` may start at any such point,
since any kernel code may call `kmalloc`. `CleanupZombies` frees by address, as
the code does.

Abstracted: `mapped_pages`, `used_frames` and the allocation statistics;
contention on `pfa_lock` and `paging_lock`; frame contents; the direct map (the
kernel heap's page tables are assumed to exist and to stay reachable). A user
break moves by whole pages and is not lowered below its start. The load of a second program while a first one
waits to be cleaned up is included; a process that runs before it is loaded
(see the findings) is not. When a load fails the heap range of the zombie is
empty: `thread_create_user` sets `user_heap_break` to 0x600000, below the 1 GB
at which `cleanup_zombies` begins to look.

### Ext4

File calls come one at a time: the shell waits for the program it started, and
no handler touches the disk. What can come between two block writes is a power
cut. An action for a call (`Create`, `Mkdir`, `Unlink`, `Write`) therefore
works out the call's block writes in order, reading the disk as the code does;
`WriteOne` carries them out, `Return` ends the call, and `Crash` may strike at
any time, after which `init` starts with an empty transaction. `disk` maps cells
(bitmaps, group descriptor, inodes, data blocks) to contents, `log` is
`current_trans`, `files` holds the `Ext4File` objects with their cached inodes,
`journal` says whether `s_journal_inum` is set. `names`, `text` and `twice` record
what the calls promised.

All reads go to the disk and none to the open transaction, so with a
journal a call does not see what earlier calls only logged: `allocate_block`
hands out a block again until the next commit, and even one write of two blocks
gets the same block twice. That is why block ownership, counts and file contents
are stated for disks without a journal, and why `ReadsSeeWrites` fails with
one. The `mkfs.ext4` of the Makefile makes a disk with a journal.

Abstracted: one block group; a block write is atomic; the blocks of the journal, which
nothing reads; link counts, which decide about nothing; the counts of
the superblock, which are never written; permissions, always granted; `kmalloc`
succeeds. An inode is a cell of its own, since nothing else writes the
inode table. Contents are the number of the call that wrote them. A directory whose block a file has overwritten (possible
only with a journal) is not walked further. Paths have up to two
components; names may occur twice, as `touch` and `mkdir` do not look first.

### Fat32

As in `Ext4`, a call works out its sector writes, `WriteOne` carries them out,
and `Crash` may come before any of them. `disk` holds the entries of the first
FAT and the sectors, one directory slot or one piece of a file each; `table` is
the size of the FAT, which need not be that of the volume; `handles` are the
`FAT32_File` objects with their own size and remembered slot; `text` and
`twice` record what the calls promised.

Five things spoil a disk for good: growing on a full disk (cluster 0 is linked
in), a cluster behind the end of the volume, a write through a handle whose file
was removed, a directory that grows by a cluster with old contents, and a power
cut inside `unlink`. `faults` records them, and no call is made on such a disk. The
properties say that there is no sixth way.

Abstracted: names are a stem, a mark for what does not fit eight characters,
and extensions; one slot of long name per entry; the second FAT, which the
driver neither reads nor writes; dates and attributes other than
directory, label and long name; `mkdir` is in the root, as deep as paths go.

### Vfs

`heap` holds the node objects (kind, inode, parent, reference count, size) and
is the same for all users: the shell's `cwd_node`, the descriptors of the
program that runs, and the mount points. Lookups on Ext4 and FAT32 make a new node
each time; `.` and `..` differ between the two, and so do `open` and `close`.
A walk opens and closes what it passes, as `vfs_open` does. `cwdText` is
`current_working_directory` cut into components. The disk below is a tree:
how it is stored is the business of `Ext4` and `Fat32`.

`Cd`, `Ls`, `Cat`, `ShellStat`, `Complete`, `Echo`, `Touch`, `ShellMkdir`, `Rm`
and `Run` are commands, `Sys...` system calls, `Exit` the end of the program,
which leaves its descriptors open. Using a node that was deleted is undefined
and sets `ub`, after which nothing happens. A node that nothing points to is
dropped from `heap`, so leaks do not fill the bound.

Abstracted: contents (a file has a length); user pointers are valid; a failing
disk. The initrd has one file.

### Keyboard and KeyQueue

The tables and the tests of `keyboard_handler` are translated entry by entry;
the ring buffer keeps its two positions and its size is a constant. `held` and
`both` are what the user's fingers do. `KeyQueue` is the promise: a queue of
one character less than the buffer, in order, which the character that
overfills it empties. The mapping takes the characters from the read position
up to the write position. Waking the threads is in `Scheduler`.

### Terminal and Shell

`Terminal` has the cells, row and column of `vga.cpp`, without colours and the
hardware cursor. `Shell` has one action per key; each performs the writes
and relative cursor moves of the code in order. `line` is `input_buffer` up to
`buffer_pos`; a write behind its end sets `overrun` and ends the behaviour.
Commands print any of `Outputs`. Lines fit on the screen with their prompt
(`ScreenAssumption`; the code has 1024 characters on 2000 cells). `stale` notes
that Enter was pressed above the last row of a line.

### Libc

The functions are operators, with the width of words as a constant so that all
values can be tried; the state machine makes one call with one input per
behaviour and keeps the result for the properties, which compare it with a
definition that does not follow the code. Formats are one conversion with its
flags. `TicksFor` is the arithmetic of `timer_sleep`, here for its width.

## Runs

| Run | Checks |
|---|---|
| `SchedulerSafety.cfg` | the run list is one cycle of the live threads; the zombie list holds each dead thread once; the running thread is not freed; one process at a time, and nobody reads an empty buffer; switches go to ready threads; the shell's wait ends only after the exit |
| `SchedulerLiveness.cfg` | dead threads are freed, threads that sleep or are ready run again, the prompt returns; user code runs with the user's GS base, and no sleep is cut short. No key is pressed while a program is being loaded: a key then runs the program early, and the loader sets it READY wherever it is |
| `Heap.cfg` | allocations are disjoint and large enough; free neighbours are merged; what lies between blocks is whole pages of a growth that failed; every call returns |
| `Memory.cfg` | every frame in use has one owner and its bit set, until a load fails; the kernel heap stays mapped; a frame that is allocated and belongs to nobody was lost in one of two ways: a page table could not be made for it, or a page was mapped over the one that had it |
| `Ext4.cfg` | with power cuts anywhere: entries name written, allocated inodes and tile their block; a directory changes as a whole, and what returned is kept; without a journal also: blocks have one owner, counts match bitmaps, what was written is read |
| `Fat32.cfg` | with power cuts anywhere and until one of the five faults: chains end, stay inside the volume and are disjoint; sizes fit chains; what was written is read; what readdir lists is found, and what was created is found |
| `Vfs.cfg` | open descriptors stand for live nodes; nodes in use are deleted in two ways only (a relative walk, `..` on FAT32); a path opens what it names; files shrink only if opened twice; the prompt names the directory, until `cd` is given dots inside a path |
| `Keyboard.cfg` | the driver implements the queue; the shift flag follows the keys; an ASSUME of `MCKeyboard` evaluates that every printable character of ASCII can be typed |
| `Shell.cfg` | the screen shows the prompt and the line with the cursor in its place, and nothing behind it; the buffer is overfilled only by completion |
| `Libc.cfg` | numbers are written in full and read back; fields have their width; memmove is simultaneous; comparisons agree; sleeps are rounded down to ticks, to at least one, until the product wraps |

Type invariants: `Ext4` checks its own as an invariant, `Fat32`, `Vfs` and `Shell`
check theirs as a conjunct of `ChainsAreSound`, `DescriptorsAreLive` and
`ScreenShowsLine`, and those of `Scheduler`, `Heap`, `Memory` and `Keyboard` are
proved. `Libc` keeps nothing but the last call.

Two more runs each check something a comment or a test of the repository says
and end in a counterexample:

| Run | What happens |
|---|---|
| `BlocksOnlyWithoutInput` | a key between the test for input and the change of state wakes nobody |
| `ReadsSeeWrites` | with a journal, `write` only logs and neither `write` nor `close` commits, while `read` takes the block from the disk: the sequence of `user/tests/test_file.c` reads back old bytes |

The modules state five more such properties that do not hold. They are not
among the runs; adding one as an INVARIANT to its module's configuration shows
the behaviour:

| Property | What happens |
|---|---|
| `Scheduler!NotRunBeforeLoaded` | a key during `kex_load` makes the BLOCKED, half-loaded process ready |
| `Memory!FramesHaveOneOwner` | after a load that ran out of frames, cleanup frees frames of others through the identity map |
| `Memory!HeapIsFreedWithProcess` | pages above a lowered break are never freed |
| `Memory!HeapIsAccessible` | `sys_sbrk` succeeds although the page could not be mapped |
| `Ext4!CreateIsAtomic` | a power cut inside `commit_transaction` leaves an allocated inode without an entry, and no boot replays the journal |

Three more weaknesses show up as actions rather than as runs. `WaitWalkLost` is
the shell's unlocked walk in `thread_get_by_id` standing on a thread that exits
and is freed. `IRQWhileExiting`
is an interrupt between `thread_exit`'s unlock and its `yield()`, whose handler
walks off the zombie list. `UserFault` with `umap` of another process is a
program whose pages were freed by the late clean-up of the one before it. All
end in a halt, which is why the safety properties speak of the states up to it.

### Bounds

* Scheduler: two process structures, so that one can be a zombie while the next
  is loaded, interchangeable and hence a symmetry set; sleeps of up to two ticks, so that
  a tick may or may not end one; two unread keys, one to read and one to come;
  ids up to 4 (two for start_user_code and the shell, two for programs). The
  liveness run has one process structure, used for two programs in turn, and
  no symmetry.
* Heap: header 3, alignment 2, pages of 8 units, two pages growing to four;
  sizes 0, 3 and 6. They meet both outcomes of the split test, exact fits, a
  request that spans pages, and growth by one and by two pages.
* Memory: 10 frames, one of them reserved, two stack pages (the code has
  four), two table levels, segments, heaps and kernel growth of up to two
  pages. Every allocation runs out of frames in some behaviour.
* Ext4: four calls that write and one power cut between any two block writes;
  three free inodes; six blocks of which one or two are in use, so that a file
  meets adjacent and scattered free blocks; blocks of two parts and writes of one or
  three, so that a write is partial, whole or both; two extents per inode (the
  code has four), six images per transaction (sixteen), and directory blocks
  with room for one or two names. Full directories, full extent lists, full transactions,
  and allocation failing for inodes and for blocks all happen. Both kinds
  of disk, with and without a journal, are initial states. Descriptors are
  interchangeable.

* Fat32: six clusters of two sectors, with a FAT that ends with the volume or
  one entry behind it; a file of two clusters in a root directory of two, whose long name and
  entry lie in different clusters; four calls that write and one power cut; two
  handles. Directories and files grow, the disk runs full, slots are used again.
* Vfs: either file system, two nested directories, two descriptors, six node
  objects, paths of one and two components, relative and absolute, with dots.
  Depths, sizes and reference counts up to two: enough for a shared node to be counted twice
  and for `..` to lead above where a walk began.
* Keyboard: a ring of three places (256 in the code), one key of each kind that the handler
  tells apart. `EveryCharacterCanBeTyped` is about the whole table.
* Shell: a screen of three by three, lines of four, two lines of history and
  eight keys: lines wrap, the screen scrolls while a line is typed, and a
  completion overfills the buffer.
* Libc: words of 8 bits, all of them; bases 2, 8, 10, 16, 36; widths around
  those of pointers; milliseconds of all 8-bit values at three rates.

### Fairness

`SchedulerLiveness` assumes weak fairness of the timer interrupt (the PIT is
periodic and interrupts are never disabled for good short of a panic) and
strong fairness of each thread's kernel steps (a thread that gets the CPU again
and again executes; a tick is far longer than a step). User code is under no
obligation: it may loop for ever. `Heap` assumes that a call, which runs
with interrupts disabled and waits for nothing, takes its next step. A panic
discharges every liveness property.

## Proofs

All theorems hold for every value of the constants that satisfies the
assumptions named in the modules (`DistinctThreads` and `Bounds` of `Scheduler`,
`Layout` of `Heap`, `Layout` of `Memory`, `SizeAssumption` of `Keyboard`): any
number of process structures, any sizes, any number of frames, any buffer.

* `SchedulerProofs!ListsAreSound`: types, `RunListIsOneCycle`,
  `ZombieListIsComplete`, `CurrentIsAlive`, `IdsAreUnique`. "One cycle" is
  stated without counting: `next` is injective on the run list, and no proper
  nonempty subset is closed under it. Inserting behind the running thread and
  unlinking a thread preserve that (the list lemmas); the rest is one step per
  action. The strengthening says that ids on the run list are below `next_id`
  and positive except for kernel and sys_idle (`IdsInRange`), and where threads
  can be (`Places`): only start_user_code is interruptible inside `thread_exit`,
  idle is always ready, and `kex_load` has a thread to load.
* `SchedulerProofs!OnlyReadyThreadsAreResumed`: a switch goes to a thread on the
  run list that is ready. It needs that idle is always ready.
* `HeapProofs!HeapIsSound`: types, `MemoryIsExclusive`, `HeldBlocksAreBusy`,
  `FreeBlocksAreMerged`. The inductive invariant says that the list is ordered
  by address and skips no block, each block ends at or before the next, the
  loop variables stand on blocks, and behind the cursor of kfree's sweep no two
  free neighbours are left.
* `HeapProofs!NothingFallsBetweenBlocks`: `BlocksTileTheHeap`. On top of that
  invariant, the gap behind every block is a multiple of the page size (`Tiled`):
  a split leaves none and passes the old one on, a merge adds up two, a new
  region starts behind the gap of the last block, and only a failed sbrk widens
  one, by pages.
* `MemoryProofs!MemoryIsSound`: types, `OneOwnerUnlessLoadFailed`,
  `KernelHeapStaysMapped`. The invariant adds the ranges of the cursors (`Bounds`)
  and, until a load fails, that the pages
  a zombie names are user pages or not mapped (`Clean`), no longer the boot's
  identity mapping: this is why freeing by address frees only frames that
  belong to processes.

* `KeyboardProofs!RingImplementsQueue`: the driver implements `KeyQueue`, with
  the characters from the read to the write position as the queue. Initial
  states map to the empty queue; a character that leaves the positions apart
  appends; one that makes them meet empties the queue, which is when
  it held size - 1; a read takes the head. The arithmetic modulo the size is in lemmas
  of its own. `TypeCorrect` and `ShiftFollows` are invariants by themselves.

`ZombiesAreListed`, `RunningThreadIsAlive`, `IdsNameOneThread`,
`BusyBlocksAreHeld`, `NoFreeNeighbours` and `KernelHeapIsMapped` restate single
conjuncts of these results. `IdsAreUnique` and `HeldBlocksAreBusy` are proved
only; no run checks them.

Only model-checked: liveness and everything under fairness (out of the prover's
reach, as is ENABLED); `UserRunsWithUserGs`, `SleepIsNotCutShort`,
`OneProcessAtATime`, `WaitEndsOnlyAfterExit`;
`FramesAreLostTwoWays`; `EveryCharacterCanBeTyped` (an assumption TLC evaluates);
everything about `Ext4`, `Fat32`, `Vfs`, `Shell` and `Libc`, whose loops over
data are recursions and folds, about which the prover has no induction.

## Not modelled

* Contention on `pfa_lock` and `paging_lock`: plain spin locks which `kex_load`
  takes with interrupts enabled and others with interrupts disabled. On one CPU
  a switch at the wrong moment spins for ever. In `Memory` each lock section is
  one step; `PROJECT.json` lists the hazard.
* The direct map over which a very large kernel heap would grow.
* `kdl_load`, `RootFS`, `DeviceNode`, `SimpleDirectory` and `vfs_mount` by a
  driver: nothing calls them after boot.
* The library and the programs in `user/`, and streams (`FILE`): they run
  above the system calls, which a program of the models may make in any order.
* ATA, serial port, speaker, PIT programming, GDT and the boot assembly: port
  I/O and tables, done once and waited for in a loop. A disk that answers with
  an error is not modelled for this reason.
* Commands of the shell that print or compute and change nothing else.
* `kernel/arch/i386`, which is not built.
