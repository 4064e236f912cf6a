# A TLA+ verification of advos

advos is a small x86_64 operating system: a kernel in C with a few drivers and
servers in user mode.  This directory holds TLA+ modules that model the parts of
it that keep state, TLC configurations that check them on small instances, and
proofs of the most important properties for every size, checked by TLAPS.

Paths below are relative to the root of the repository (`src/kernel/...`); the
entries of `PROJECT.json` carry the lines each definition models.

## How the system runs

Three facts about the execution environment decide what is one step of a model.

* Only the bootstrap processor runs processes.  `ksignal_clock` returns at once on
  every other local APIC (`arch.c`), so the other processors stay in their idle
  tasks.  Until they are there they run beside it, and take memory: that part is
  in `Smp`, the only module with several processors.
* A system call runs with interrupts masked (`FMASK` is 0x0202), and so does an
  interrupt handler.  A handler therefore runs to completion and is one action,
  unless it loops over bytes (devfs) or over entries (zones), where a step is one
  turn of the loop.
* What interleaves is the order of system calls of different processes, timer
  ticks, device input and, inside one call, the point at which an allocation
  fails.

Because of the second point a spin lock taken twice on the way through one
processor is not contention but the end of the system.  The exception to it is the
handler of FPU traps, whose gate leaves interrupts enabled (`Fpu`).

## Inventory

| Part | Code | State | Operations | Module |
|---|---|---|---|---|
| Scheduling | `sched.c`, `task.c`, `arch.c`, `asm.S` | process table, task states, credits, run queue, current task | fork, exit, tick, refill of the queue, switch | `Sched` |
| Kernel timer | `syscall.c`, `timer.h`, `arch.c` | list of events, jiffies | nanosleep, firing of events | `Sched` |
| Buddy system | `physmem.c` | a sorted free list for every order | add region, split, allocate, release, merge | `BuddyOps`, `Buddy` |
| ACPI tables | `acpi.c` | `acpi_t` | search for the root, parse of its tables | `Acpi` |
| Zones at boot | `physmem.c`, `arch.c` | DMA, kernel and NUMA zones | one step for every entry of the memory map | `Zones` |
| Slab allocator, kernel heap | `slab.c`, `kmem.c`, `kmalloc.c` | caches, three lists of slabs each, marks | create cache, allocate, release, kmalloc, kfree | `Slab` |
| Virtual memory | `memory.c`, `tree.c` | entries, free spaces, two trees of them | allocate by size, at an address, release | `VMSpace` |
| Process memory | `proc.c`, `memory.c`, `arch.c` | frames, entries and contents of processes | fork with its failures, device mappings, stores | `ProcMem` |
| Page tables | `pgt.c`, `arch.c` | tables, pools of pages for tables, CR3, cached translations | map, unmap, prepare, refer, new space, switch | `Pgt` |
| Character devices | `devfs.c`, `sysdriver.c` | devices, two rings each, locks, blocked readers | register, putc, getc, write by drivers; read, write by programs | `Devfs` |
| FPU registers | `arch.c`, `asm.S`, `task.c` | TS flag, owner of the registers, save areas | switch, trap, fork, exec, computation | `Fpu` |
| Console driver | `drivers/tty` | line under edit, text screen, marks | key, echo, program output | `Tty` |
| Keyboard | `drivers/tty/kbd.c` | state of the modifier keys | scan code to character | `Kbd` |
| Kernel initialisation | `arch.c`, `kernel.c`, `kvar.h`, `task.c`, `vfs.c`, `initramfs.c`, `devfs.c` | what is set up | the steps of `bsp_start` | `Boot` |
| Application processors | `arch.c`, `trampoline.S`, `ap_entry32.S`, `ap_entry64.S` | where each is, lock of the boot stack | start-up messages, stacks, idle task | `Smp` |
| Allocation on several processors | `slab.c`, `physmem.c`, `arch.c`, `proc.c` | the two locks, free lists, allocations under way | lock, take, give, undo | `Smp` |
| Power management timer | `acpi.c` | counter, waits | start, poll and end of a wait | `PmTimer` |
| VFS, initramfs | `vfs.c`, `initramfs.c` | modules, mount points, vnodes | register, mount | `Boot` (steps only) |
| Descriptor tables, interrupt controllers | `desc.c`, `apic.c`, `i8254.c`, `tsc.c` | registers | set-up | `Boot` (steps only) |
| Formatted output | `strfmt.c` | none | conversions | - |
| Boot loader, libraries, init | `boot`, `lib`, `servers` | - | - | - |

The parts meet in these places.  `Sched` and `Devfs` share the task states: a
reader blocks like a sleeper.  `ProcMem` stands on `Buddy` (frames) and
`VMSpace` (entries), whose promises it uses as single steps; `Slab` takes its
pages from the buddy system; `Zones` fills the lists that `Buddy` works on, and
both extend `BuddyOps`.  `Pgt` maps and unmaps the `page_t` of the entries that
`VMSpace` places.  `Tty` is composed of the keyboard (`Kbd`) and the line buffer
and screen, and uses the devices of `Devfs` as the receiver of lines and the source
of output.  `Zones` runs the parser of `Acpi` and builds zones from what it leaves.
`Smp` is composed of the steps of `Boot`, the waits of `PmTimer`, the other
processors and everybody's allocations; `Slab` and `Buddy` model what an allocation
does inside the locks.

## Modules

### Sched

Variables are the fields of the code: `procs` the used slots of `g_kvar->procs`,
`state` and `credit` of tasks, `runqueue` the run queue, `cur` the current task and
`timer` the event list.  Actions are `Fork`, `Exit`, `Nanosleep` (system calls of
the current process), `Tick` (`ksignal_clock` and the switch that follows) and
`HltLoop` (the loop at the end of `sys_exit`).  Only the difference between the
time of an event and jiffies is used by the code, so an event keeps that
difference and a tick ages all events: there is no bound on time.

`sys_nanosleep` turns seconds and nanoseconds into ticks with a division that
rounds down (`Ticks`; `HZ` ticks and `Nano` nanoseconds make a second).  `asked` is
history: what a sleeper still misses of the time it asked for, in units of
`1 / (HZ * Nano)` seconds, so that a tick is `Nano` of them.  `EarlyByLessThanTick`
says that less than one tick is missing when a process is woken.  That nothing is
missing, as the comment of the function has it, does not hold (see below).

The timer list is sorted latest first, and the firing loop stops at the first
event that is not due.  A sleeper behind a later one is therefore woken late.
`OverdueBounded` says how late at most: `MaxSleep` ticks for every other process.

### BuddyOps, Buddy, PageAlloc

`BuddyOps` has the list operations (`AddRegion`, `SplitBuddy`, `InsertBuddy` with
its merge that advances past an element); `Buddy` has `Alloc` and `Free`.  The
number of blocks of a region is an unsigned difference narrowed to `int`, and is
modelled with its widths (`AddrBits`, `IntBits`).  `PageAlloc` is the promise:
free pages are taken as one block by one holder and come back whole.

### Acpi, Zones, MCZones

`Acpi` is the parser as a function of what the firmware left in memory: two areas
with places for a root pointer, right or wrong, and the tables a root lists.  A
table is the list of its entries with a type and a size; `Walk` is the loop over
them with its test against the length of the table, `TakeApic` and `TakeSrat` are
what an entry adds to `acpi_t`.  A parse of the first area that fails leaves what it has
found, and the second area is parsed on top of it.

`Zones` is the boot-time filling of zones, with one action for each turn of a loop
over the memory map and one for each area that `acpi_load` searches.  The memory
maps are all sequences of `MapLen` entries that do not overlap, aligned to pages or
not and of either type; the firmware's tables are the constant `Roms`, for which
`MCZones` has five: without affinity, with two domains that meet inside a page,
with more regions than the parser has room for, with a malformed table after an
affinity table, and with no root.  The list heads of the NUMA zones are not cleared
by the code (`arch.c:462` passes the size of an `int`), so they start with a value
that is chosen; `clean` tells the two cases apart.  `CoreZonesComplete` says that
the DMA and the kernel zone leave no page of their ranges out, have no other page
and none twice.  It does not say that the two are apart, because they are not: an
entry across the boundary is in both (see below).

### Slab

Lists are modelled with their pointers, since `slab.c:156` makes one list alias
the rest of another.  A search that walks into a loop is the action `FreeHangs`,
the use of a NULL slab in `memory_slab_create_cache` is `CreateFaults`.  The
history variable `joined` records whether a slab with a successor was ever taken
from a full list, by which the lists run together: `ListsSound` says that the
lists are right up to that point, while `MarksAgree` and `FreeFindsSlab` hold
after it as well.  `Kmalloc`
and `Kfree` work on the caches `Kmallocs`, whose numbers are their sizes; `Kfree`
tries them from the smallest on.

### VMSpace

`btree_add` and `btree_delete` pass the tree node where the comparison expects the
data.  The module works out what they do then: the trees by address become lists
in the order of insertion, the tree by size keeps its pointers.  In the tree by
size a right child is never found by `btree_delete`, so that the assertion at
`memory.c:420` fails when such a space is taken or joined: `Panic` is that state,
with the space out of one tree and in the other, and the model ends there.  `split`
is history: an entry was placed inside a free space, which gives the lower part
the wrong size.  `TreesAgree` and `FitFindsOneOfTwo` hold up to the assertion;
`Tiling` holds up to it or a split.  The search for a fit is complete with up to two
free spaces; with three it may miss one.  The
operations that allocate differ in the frames and the `page_t` they map, which
are in `Pgt` and `ProcMem`; in the block they share `AllocFit` or `AllocAt`.

### Pgt

`mem` holds the entries of every table, `pool` the pages a page table has left
for tables, `pages` the `page_t` that are mapped, `tlb` what the processor has
cached.  `Enter` is the step from one level to the next that `pgt_map`,
`pgt_prepare` and `pgt_refer` repeat.  Actions: `New` (`arch_memory_new` and the
block of a process), `MapPage` (`arch_memory_map`, with the undoing of a partial
mapping), `UnmapPage` (`arch_memory_unmap`), `SetCr3`, and `Access`, by which the
processor walks the tables and caches what it finds.  Pages of the kernel are
unmapped only in error paths, before anybody used them: `memory_free_pages` frees
frames without unmapping, and has no caller.  The release of the memory of a
process (`virt_memory_release`) has no caller either, but is included.

### ProcMem

Frames, page contents and entries of processes.  `Fork` has an action for every
way in which it ends: no slot or memory at first (`ForkFailsEarly`), tables lost
(`ForkLosesTables`), frames lost (`ForkLosesFrames`), a NULL pointer (`ForkFaults`:
in the clean-up of a fork that added nothing, or in `task_init`, which clears the
memory for the FPU without a test) and success, with or without a failed entry
(`Fork`).  `EntryFork` copies entry by entry; `lack` is the entry for which there is
too little memory for records and page tables, and how many pages it is enough for.
A process that follows a NULL
pointer is in `stopped`: `panic` enables interrupts and halts, so the ticks go on
and other processes run.

### Devfs, ByteQueue, MCDevfs

The rings with their indices, the lock of each device and calls in progress byte
by byte.  A byte with its top bit set is returned by the ring as a negative number
and taken for an error by its caller (`High`).  `ByteQueue` is the promise of one
ring.  The rings start at every position of the indices, since registration does
not reset them.  `devfs_read` and `devfs_write`, the side of the programs, have no
caller yet: the interface that `devfs_init` registers has `mount`, `unmount` and
`lookup` only.  They are modelled as the calls of a process that they are written
to be.

### Fpu

Registers are one value; `xregs` holds what is saved for each task.  The cases of
the processor (`xsave`, `fxsr`, neither) are chosen at the start.  The handler of
the trap runs with interrupts enabled, so its steps are actions of their own
(`frames` are the handlers a task is in) and a tick may switch between them.
`split` records that it has: the code does not keep registers apart then, and the
properties are about the time before.

### Kbd, Tty, LineEditor

`Kbd` turns scan codes into characters.  `Held` is what a code does to the modifier
keys, `GetChar` what `kbd_getchar` returns for it: a character, one of the cursor
commands, or -1 for a modifier or a release.  Of the
key map, one key stands for all that are alike.

`Tty` takes one scan code or one character of output in a step, which is one turn
of a loop of `console_proc`.  The buffer is an array with memmoves, the screen an
array of words, and `out` what a step calls `driver_putc` with: the line and a
newline.  What the device does with these characters is in `Devfs`, where the second
call hangs (`devfs_hang`).  `LineEditor`
is the promise, from keys to lines: keys go down and up, characters go to the left
of a cursor, and Enter delivers the text on both sides of it, and a newline.  `Letters` and
`CommandKeys` say which keys these are.

### Boot

`bsp_start` with everything it calls as the sequence `BootSteps`.  A step has a
name for what it sets up, the names it needs, whether its failure ends in a panic,
and how long it waits.  The functions of the code are definitions (`KernelInit`,
`VfsInit`, `TaskMgrInit`, ...) that are joined in the order of the calls.
`ApNeeds` and `UserNeeds` are what the other processors and the first program use.

### PmTimer, Smp

`PmTimer` is `acpi_busy_usleep`: processors that poll a counter that wraps around
after `Period` ticks.  A wait is given in microseconds, and converted to ticks with
a division that rounds down (`Clk`), so a wait may be short by less than a tick.
`since` counts the ticks of a wait for the property only.
The counter moves on only while every waiting processor has read it within the
period (`TimelyReads`); a turn of the polling loop would otherwise take 4.6 seconds.

`Smp` follows all processors.  `ap` is where an application processor is: from
`reset` over the messages (`wait`, `started`), the lock of the boot stack (`spin`,
`shared`), its own stack or the halt for want of one (`own`, `halted`) to
`ap_start` (`start`, `probe`, `alloc`) and `idle`.  A start-up message may be missed
by any of them.  `todo` holds, for each processor and for the tick handler, the
list of allocations to do, `pc` where it is in the first: the slab lock, the lock
of physical memory inside it, the head of a free list that it has read, the store
that unlinks it.  `Undo` and `OnFailure` are the error paths of `arch_memory_new`,
`task_alloc`, `proc_fork` and `ap_start`, with the objects they forget.  When
`task_init` gets no memory for the FPU its process stays in `panic`, without a lock,
and the ticks go on to the others.
`arch_memory_new` takes its block without a lock (`Unlocked`), from the kernel zone.
A slab cache is the number of its free objects and the pages of a new slab are one
block.  Ticks of the counter while nobody waits change nothing and are left out.

One assumption is about memory that no code sets up.  The word `AP_SPIN_LOCK`
(`const.h:41`, address 0x5d00) is first used by `ap_entry32.S:55`.  It lies 0x1f00
bytes below the top of the stack that the boot loader and `bsp_start` use, and nothing
writes it by name.  `Init` takes it to be 0, as memory is that nobody has used.
Were it not 0, every application processor would stay in `spin`.

### Faulty variants

A definition that stands before the one it varies (for example `DueEarly` before
`Due`) is a plausible mistake in that piece of code.  No specification uses it;
`PROJECT.json` lists which property fails when it takes the place of the original.

## Runs

All runs take less than five minutes with two workers.

| Run | Bounds | What it shows |
|---|---|---|
| `sched` | 3 processes, quantum 2, sleeps up to 4 ticks, 2 ticks and 3 units in a second | one task runs; the queue holds ready tasks once; sleepers and events match; bounded overrun; nobody wakes a tick early or more; every sleeper wakes and every ready process runs unless a process exits |
| `buddy` | orders 0 to 3, 10 pages, every region | conservation of pages, complete merging, an allocation fails only when no block is large enough, refinement of `PageAlloc` |
| `zones` | 12 half pages, maps of 2 entries, 5 sets of ACPI tables | the parser keeps what the tables say; the core zones leave no page of their ranges out; which NUMA zone each page goes to, at most once in a zone; all memory without an affinity table |
| `slab` | 3 caches, 4 slabs of 2 objects | marks, counters and objects in use agree; the lists are right until they run together; a release finds its slab even then |
| `vm_space` | 4 pages, superpages of 2, 3 entries | the trees agree; entries and free spaces tile the block; a fit among two free spaces is found |
| `pgt` | 2 processes, tables of 2 and 4 entries, linear map of 2 GiB, 2 `page_t`, 1 cached translation | pages for tables are conserved; kernel memory is the same in every space; no stale translation; the tables hold exactly what was mapped |
| `procmem` | 8 frames, 3 tables, 3 processes | separate memory of processes after any failed fork; a fork copies |
| `devfs` | 2 processes, 1 device, ring of 3, calls of 2 bytes | both rings are queues; a read that returns has data |
| `devfs_hang` | 1 process | violation: the second call of a driver after `putc` hangs |
| `fpu` | 3 tasks, 2 contents, 2 nested handlers | registers belong to the running task; no task finds another's |
| `tty` | one letter, backspace, Enter, arrows, both shift keys and control; line of 3, screen of 2 x 2 | the line is echoed as it is; nothing stale on the screen; keyboard and buffer refine `LineEditor` |
| `smp` | machines with 2 other processors, of which one may have an identifier without a stack; counter of period 3, 2 ticks in 3 microseconds, 3 blocks, 1 sleeper | one user of the boot stack; everything is set up when it is used; no block handed out twice or lost; waits short by less than a tick; processors arrive in their idle tasks |

Why the bounds are enough.  Three processes are the smallest number for a sleeper
that is held back by another while a third runs; a sleep of 4 ticks is two quanta
long; and with 2 ticks in 3 units the division of `Ticks` leaves every remainder.
Ten pages with four orders contain a block of the largest order, unaligned ends on
both sides, and chains of merges over all orders.  Four slabs
let a list of three alias another.  In `pgt` a process has a page for one page
table but two places for one, so the pool runs dry; a `page_t` of two pages or two
superpages can meet a used one at its second half; and a `page_t` of the kernel
can be mapped before and after each process is made.  Four pages with superpages
of two have room for a free space with a used range on each side, and for two free
spaces apart, which is what the assertion needs to fail.  A ring of 3
with calls of 2 bytes fills, empties and wraps inside a call.  A line of 3 has an
inner position for insertion and deletion, and the screen of four cells scrolls
within it; two shift keys are what it takes to release one while the other is
held.  In `smp` the wait of 2 ticks of a period of 3 wraps around, the waits of 2
microseconds are rounded down, the free objects are
spread so that some allocations need a new slab and some do not, and three blocks
run out on every path of a fork and of `ap_start`.

Deadlock is checked except where the system really stops: after a page fault or
panic (`Slab`, `VMSpace`, `ProcMem`, `Tty`, `Smp`), in an endless spin (`Devfs`)
and when the boot is over (`Zones`).  `sys_exit` is an explicit loop instead.

**Fairness.** `sched` assumes weak fairness of `Tick`.  The local APIC timer is
periodic and the handler acknowledges it before it returns, and a tick is enabled
whenever interrupts are not masked for ever.  No fairness is assumed of processes:
a process may compute without a system call.  After an exit interrupts stay masked,
so both liveness properties exclude that case.

`smp` assumes weak fairness of the counter, and strong fairness of each processor
that waits, polls, tries a lock or does an allocation: processors do not stop, and
one that keeps trying a compare-and-exchange on a word that keeps becoming free
succeeds in the end.  The hardware promises no more than progress for somebody
here; that a particular processor never wins against the bounded number of others
is what strong fairness excludes.  Boot steps, start-up messages, programs and
ticks have no fairness.  The assumption `TimelyReads` is described under `PmTimer`.

## Proofs

`SchedProofs` proves for every `ProcNr`, `Quantum`, `MaxSleep`, `HZ` and `Nano`
(assumption `SchedAssumption`: naturals, positive but for `MaxSleep`) all safety
properties of the run `sched`: `OneRunning`, `RunQueueSound`, `SleepersMatchEvents`,
`SleepOverrunBounded`, `SleepLongEnough`, and with them `TypeCorrect` and
`TimerOrdered`, which no run repeats.

They rest on the inductive invariant `IInv`.  The properties are not inductive
alone: that a fork starts a task that is nowhere queued needs `TasksExist`; that
a sleeper is not current needs `CurrentAwake`; the bound on oversleeping needs
that the head of the list is never overdue (`HeadNotOverdue`) and that two events
that are k places apart differ by at most k longest sleeps (`GapsBounded`),
which an insertion keeps because a new event is at most one sleep away from an
overdue-free head.  There is a lemma for each action (`ForkIInv`, `ExitIInv`,
`SleepIInv`, `TickKeepIInv`, `TickSwitchIInv`), and the tick is divided into
firing (`FireTimer`, `FireStates`) and choosing the next task (`QueueReady`).
`SleepLongEnough` needs `AskedFits` besides: what a sleeper misses is less than one
tick more than what is left in its event.  `TicksFit` is the arithmetic of the
division, and a tick takes the same from both (`TickFits`).

`FpuProofs` proves for any set of tasks and contents and any nesting of handlers
`FpuTypes`, `OwnRegisters` and `Isolation`: as long as no tick has switched tasks
inside the handler, nothing but a task itself changes the registers it will find.
The argument is the view of a task: the registers if it owns them, otherwise its
save area; a trap moves a view from one place to the other and changes none.
`OneHandler` strengthens the invariant: only the current task is in a handler, in
one at most, with TS clear.

`DevfsProofs` proves for any number of devices and processes and every `BufSize`
that both rings implement `ByteQueue` (`InputQueues`, `OutputQueues`), and
`ReadsGiveData`.  `RingPut` and `RingGet` say what the index arithmetic does to the
contents as a sequence, across the wrap; the steps of every call are then either
one of these or leave the rings alone (`DevStep`).  The invariant `DevInv` adds to
the types that a read that has no bytes yet finds the ring not empty: nothing can
come between the test and the first byte.

`TtyProofs` proves `LinesAreEdited` and `EchoIsShown` for every size of the line
buffer and of the screen, every set of the scan codes of `Kbd` and everything that
processes print.  The first is a refinement: under the invariant `LineInv` (the
cursor is within the line, the line within the buffer) the two memmoves are an
insertion to the left of the cursor and a deletion there, as sequences (`Text` and
its lemmas).  The second needs `ScreenInv`: the mark is not after the end of the
text, and everything from there on is blank.  `EchoLine` is the redraw, which
clears what a longer line left, and `NewLineStep` the line break with scrolling.

`BootProofs` is about the start of the machine, for any number of processors with
any identifiers.  `SleepIsExact` holds for every period and rate of the timer and
any lengths of waits: the ticks accumulated and those since the last read add up to
the time that has passed (`TimerInv`), `Wrap` is the arithmetic of the counter and
`ClkBounds` that of the conversion.  The machine implements `TimerSpec`
(`MachineRefinesTimer`), by which `SleepIsExact` becomes `WaitsAreExact`.
`StackIsSafe` rests on `StackInv`: whoever is on the boot stack, or has just left
it, has the lock.  `ReadyIsWhenUsed` goes through the boot sequence part by part:
`InOrder` says of a part what it needs at its start and what is ready at its end, and
the parts are joined (`OrderThen`); `ReadyInv` carries this over to the machine, where
a processor may start from the first start-up message on.

`SmpProofs`, which extends it, proves `BlocksAreOnce` for any number of processors
and blocks.  It needs three invariants together: only
the bootstrap processor is ever in `arch_memory_new`, and it gives back a block
that it has (`TodoInv`); a context in `phys_mem_alloc` has the lock (`LockInv`);
and what a context has read of a list is still the list when it unlinks the head
(`ListInv`), because nobody else is in that list (`OneInList`).

`SlabProofs` proves for any number of caches, slabs and objects `MarksAlwaysAgree`,
`ListsAlwaysSound` and `FreeAlwaysFindsSlab`, from `SlabAssumption`: at least two
objects in a slab, and `Nil` is neither a slab nor a cache.  `SlabLemmas` has the
facts about lists of pointers they rest on: what a walk reaches is the smallest set
that holds the head and is closed under `next`, and taking a slab from a list or
putting it on another changes that set by one slab.  The invariant `SlabInv` says
that the lists of a cache stay with its slabs, that a slab with objects in use is
found on them, that marks and counts agree and that the cache of caches can always
give; and, until lists have run together, that they end, are apart and hold the
slabs that belong there.

What the prover does not reach.  Liveness (`SleeperWakes`, `ReadyRuns`, `ApsArrive`)
needs fairness.  Its SMT backend does not work in modules with recursive operators
(`BuddyOps`, `Buddy`, `Zones`, `VMSpace`, `ProcMem`, with the refinement of
`PageAlloc`).  Induction over data is not available as such; where a proof needs it
(`SlabLemmas`) it uses that a set of natural numbers that is not empty has a least
element.  These modules, `Acpi`, and `Pgt`, about which nothing is proved here, are
only model-checked.

## Disagreements between code and text

Kept as a run, with the lines quoted in `PROJECT.json`: `devfs_driver_putc` keeps
the lock of the device when it succeeds (`devfs_hang`).

Met while modelling and present in the models, without a run of their own:

* `syscall.c:50`: `sys_exit` waits "until this task has been removed", with
  interrupts masked (`FMASK` at `arch.c:1031`), so nothing removes it; the loop is
  the action `HltLoop`, and the liveness properties of `sched` stop there.
* `syscall.c:373` rounds the time to sleep down to ticks, and the first tick comes at
  any time, so a process may sleep shorter than it asked for, while the comment at
  `syscall.c:340` says that "the actual time slept may be longer".
  `EarlyByLessThanTick` has the bound that holds.
* `syscall.c:387` sorts the timer list latest first, while the firing loop of
  `ksignal_clock` needs earliest first; `OverdueBounded` has the consequence.
* `arch.c:207`: the handler of FPU traps can be interrupted by a tick; a switch
  inside it mixes the registers of two tasks (`split` in `Fpu`).
* `physmem.c:353` computes `kbase` and does not use it, so memory below 16 MiB of
  an entry that crosses the boundary is in the DMA and in the kernel zone, which
  the README of the repository gives as disjoint ranges (lines 28 and 29).
* `arch.c:266` drops the part of an entry that contains a whole affinity region.
* `acpi.c:578`: a parse that fails leaves its data in `acpi_t`, and the next one
  adds to it.  `acpi_busy_usleep` has no way to say that there is no timer, and its
  callers do not ask `acpi_timer_available`.
* `slab.c:156` moves a slab from the full to the partial list by making the
  partial list alias the rest of the full one, and the moves between the lists
  (`slab.c:177`) can close a loop, in which the search at `slab.c:211` is endless.
* `memory.c:897` computes the size of the lower part of a split space with the new
  entry included; `memory.c:250` looks at one neighbour only when it tests a new
  block for overlap (no caller adds blocks that overlap).
* `memory.c:420` asserts that a free space is found in both trees.  `btree_delete`
  (`tree.c:84`) compares with the node instead of its data and does not find a right
  child of the tree by size: once there are two free spaces apart, an operation on
  the second one ends in `panic` (`Panic` in `VMSpace`).  Nothing in the kernel
  releases entries yet.
* `arch.c:640` prepares the same address for every GiB of a block; the linear map
  gets its other page directories when it is wired, before any process refers to
  them.  `memory.c:1064` advances the physical address by a superpage for each
  small page.  `pgt.c:250` and `pgt.c:262` follow entry 0 of a table in `pgt_v2p`,
  which has no caller.
* `memory.c:1938`: an entry that cannot be copied is left out and the fork
  succeeds; `memory.c:2011`: the clean-up of a fork that added nothing uses NULL;
  `task.c:58` of the architecture clears memory that `kmalloc` may not have given.
* `arch.c:872`: `arch_memory_new` forgets its space when it gets no block, and its
  block when it gets no `pgt_t` (`Undo` in `Smp`).
* `devfs.c:464` and `devfs.c:638`: a byte with its top bit set ends a write early
  with a count that leaves it out; `devfs.c:585`: nothing makes a blocked reader
  ready again.
* `console.c:158`: a character, unlike a newline, may move the end of the text
  past the last cell.
* `kbd.c`: keys without a character type a space, and the right control key, which
  sends the code of the left one after a prefix, is seen as the left one.  A
  modifier or a release ends a round of `console_proc` like an empty keyboard.
* `arch.c:72`: `panic` says "stop everything".  It tells no other processor
  (`mp_enable` is never set), and it enables interrupts before it halts
  (`arch.c:139`): once the timer runs, ticks go on to other processes.
* The result of `_init_temporary_pgt` is ignored, and an application processor enables
  interrupts before it loads its interrupt table; none can come that early.

## What is not modelled

* Boot loader: it runs once, before the kernel, on one processor, and consists of
  BIOS input and output in assembly.
* Contents of descriptors and of controller registers, reports of exceptions:
  their state is that of the hardware, and nothing in the code reads it back.
  When they are set up, and that this is before they are used, is in `Boot`.
* `vfs_lookup`, `vfs_unmount`, `initramfs_lookup`, `initramfs_readfile`,
  `devfs_unregister`, `pgt_v2p`, `kbd_selftest`, `console_write`, `tsc.c`: nothing
  calls them.  Some could not work yet: `_search_vnode` panics at the first component
  of a path, and `vfs_unmount` returns -1 for every mount point.  (Nothing calls
  `devfs_read`, `devfs_write`, `memory_free_pages`, `virt_memory_free_pages` and
  `virt_memory_release` either, but they are modelled: `Devfs`, `VMSpace`, `Pgt`.)
* `strfmt.c` and the text console of the kernel: conversions to text for messages,
  without state that a later step depends on.
* The mmap and port requests of `sys_driver`: the mapping is that of `ProcMem`, and
  ports are the hardware.
* User library and init: wrappers for system calls, any sequence of which the
  models of the kernel allow.

`PROJECT.json` lists every part with its reason.

## What could come next

1. `VMSpace`, `ProcMem` and `BuddyOps` with folds in place of recursive operators,
   for proofs about what does not need induction over them.
2. A machine with several processors that run processes, once the scheduler has
   one: `Sched`, `Devfs` and `Fpu` rely on there being one.
3. The lookup of files, once it is called.
