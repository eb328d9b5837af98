# Lume: TLA+ models, checks and proofs

Lume is a RISC-V operating system in C++.  The repository holds two generations
of its kernel, the current one under `src/na/` and an older, more complete one
under `src/src/`, and a user library, a shell and a few programs for the older
one.  This directory models both.

## The system and its modules

The current kernel:

| Part | Module | State | Actions |
|---|---|---|---|
| Spinlock (`kernel/sync/spinlock.cc`) | `Spinlock`, abstract `LockService` | lock word, owner CPU; per CPU nesting depth and saved interrupt state | one per access to shared memory of `acquire`, `release`, `push_intr`, `pop_intr` |
| Scheduler and wait queues (`sched_core.cc`, `sched_internal.h`, `sched_class_o1.cc`, `waitqueue.cc`) | `Lists`, `RunQueue`, `Sched` | per CPU FIFOs by priority, bitmap, counters, current, need_resched; sleepers | one per section under a run queue's lock; `sleep` and the wake functions split between their sections |
| Tasks and PIDs (`task.cc`, `pid.cc`) | `Lists`, `PidAlloc`, `TaskLife` | state, parent, children, global list; bitmap, hint | `kthread_create`, `task_fork`, `task_exit`, `task_wait`, `task_destroy`, split at every lock section |
| Physical memory (`mm/pmm.cc`) | `Buddy`, `Pmm`, abstract `PageService` | buddy lists, page descriptors, per-CPU lists, reference counts | one per call, two for `page_decref` |
| Slab (`mm/slab.cc`) | `Slab` | descriptors, active page per class, objects out | `kmalloc`/`kfree`, split where interrupts are on |
| Address spaces (`mm/vma.cc`, `mm/pmap.cc`, `sys_mm.cc`) | `Vma` | areas, page table slots, frame counts, break | fault, clone, destroy, mmap, munmap, mprotect, brk, each with the allocation that fails |
| Early memory (`mm/memblock.cc`, `mm/vmm.cc`) | `Memblock` | reserved regions, tables, mappings | one per mapping, then the hand-over |
| Kernel log (`lib/klog.cc`) | `Klog` | ring, head, two tails, drop counter | store and print as two steps, read, flush, panic, rate limit |
| Interrupts (`kernel/irq.cc`, `drivers/plic.cc`) | `Irq` | handler table, enables, pending and claimed sources | register and unregister in their two stores, claim, dispatch, complete |
| Traps, system calls, user copies (`trap.cc`, `trap_md.cc`, `extable.cc`, `uaccess.cc`, `uaccess_memcpy.S`, `sys_process.cc`) | `Trap` | exception table, copy in progress, `t0`, SUM, exit status | one per trap, per byte copied, per instruction that sets or clears SUM |
| Red-black tree (`lib/rbtree.cc`) | `RbTree` | links, colours, augmented value | insert, erase, replace |
| printf (`lib/printf.c`, `kprintf.cc`) | `Printf` | one call | the call |
| Device tree (`fdt/`, and the older `src/kernel/fdt.cc`) | `Fdt` | the flattened tree | the firmware writes a token |
| Image (`compressed.cc`, `decompress_lz4.cc`, `relocate.cc`, `config.cc`, `pack_image.py`, `gen_reloc.py`) | `Boot` | data to pack, the boot's progress, the virtual layout | choose a base, unpack, relocate, lay out |

The older kernel and its user space:

| Part | Module | State | Actions |
|---|---|---|---|
| Processes (`proc/proc.cc`, `trap/handler.cc`) | `FirstProc` | state, channel, parent, run queue | fork, exit, wait, kill, sleep, wakeup, tick, disk interrupt |
| Block cache and disk (`bio.cc`, `virtio_dist.cc`) | `BlockCache` | buffers in LRU order, descriptors, rings | get, read, write, release, submit, complete |
| Files and pipes (`fs/file.cc`, `syscall.cc`) | `Files` | file table, descriptors, pipe rings | open, dup, close, pipe, read, write, fork, exit |
| FAT32 (`fs/fat32.cc`) | `Fat32` | table, directory, contents, buffers the disk lacks, inodes | one per disk write of create, write, truncate, unlink; crash |
| Memory (`mm/pmm.cc`, `mm/slab.cc`) | `FirstMem` | descriptors, free lists, slabs | one per call |
| Spaces and exec (`mm/vm.cc`, `proc/exec.cc`) | `FirstVm` | entries, tables, page counts | fork, exec, growproc, write, free, with their failures |
| Console (`drivers/uart.cc`) | `Console` | two rings, readers | key, interrupt, `console_read` up to each unlock |
| User library (`ulib/stdio.c`, `stdlib.c`) | `UlibFormat`, `Stdio`, `Malloc` | one call; one stream and its file; the heap | the calls |
| Shell (`user/sh.cc`) | `Shell` | the line; processes with their files | parse; one per system call of a line's processes |

`PROJECT.json` lists every part with what is left out of it, and the main
hazards: the places where interleavings, failures and limits bite, with the
properties that cover them, or the reason why none does.

How much a step is.  Where several CPUs run, a step ends at every access another
CPU can see, or, for code under a lock whose exclusion `Spinlock` shows, at the
end of the lock section.  Where one CPU runs, it ends where interrupts come on or
the process sleeps.  The older `exit` is one step for that reason: its kernel is not
preempted between reparenting, the wakeups and `sched`.  `bwrite` in `BlockCache` is the
holder's change of the data and the write together; a holder that changes a buffer
and gives it back unwritten (`fat32.cc:475`) is in `Fat32`.  `Added` in `RbTree` is
`rb_add_cached` with the augmented value propagated, which the header offers as two
calls.  `CallMalloc` is `malloc` and, for the heap, `calloc` too: the same call or,
when the product overflows, none.  Sequential code is one step per call; a pure function is
an operator, and the variable holds its argument.

Which machine.  The current kernel's boot starts only the first CPU today (the
`sched_init_ap` call in `main.cc` is commented out), nothing creates the first
user task, and `entry.S` does not call the decompressor yet.  `Spinlock`,
`Sched`, `TaskLife`, `Pmm`, `Klog` and `Irq` model several CPUs, user tasks where
they matter, and `Boot` the decompressor: the configuration the code is written for.  `Slab` models the one CPU
that is started.  The older kernel is modelled on the one hart its Makefile
starts.  In the current kernel `stvec` only ever holds `kernelvec` (`trap_init`,
`trap_init_ap`): a trap of a user task would go to `kernel_trap_handler` and panic
(`trap.cc:103`).  `trap_vector`, written for user tasks, is installed nowhere, so `Trap`
models what it would call (the user side of `trap_handle`, copies, exit and wait) as operations
on behalf of a task, and the traps that do arrive, those of kernel code, as they arrive.

Operators named `<Def>_<Fault>` are faulty variants of the definition that
follows them; no specification uses them.  They show that the properties notice
such faults.

## Instances

`MCSpinlock`, `MCSched` and `MCTaskLife` instantiate one component each, `MCVma`
the address spaces.  `MCKernel`, `MCMemory` and `MCFirstGen` hold several components
that share no state: a variable `subject`, fixed in the initial state, says which
of them a behaviour is about, and the others stand still.  Their invariants are
conjunctions of the properties of one subject, named for what they say together;
each conjunct is stated and explained in its component's module.

## Runs

| Run | Result |
|---|---|
| `spinlock` | 2 CPUs, 2 nested locks, handlers: mutual exclusion, no spurious panic, interrupts off while a lock is held and restored after, refinement of `LockService`; with CPUs that keep executing, spinning ends |
| `sched_smp` | 2 CPUs, 3 kernel threads, a wait queue: a task is on exactly the list its state says, counters and bitmap agree, no lost wakeup, most urgent first |
| `sched_user` | 1 CPU, 2 kernel threads, 2 user tasks: the same with fork, preemption and exit; under fairness no task of the most urgent priority starves |
| `kernel` | tasks, PIDs and the family tree stay exact and only parents reap; the log's readers stay on entries and every message is read, printed once or counted; interrupts are served by one CPU and always completed; user copies survive faults and tell the truth; the exit status tells how a task ended; the tree is red-black; both printf families print what the standard says |
| `boot_memory` | every page is in one place and coalescing is complete, refinement of `PageService`; slab pages are exact across an interrupted allocation; memblock hands over exactly the frames nobody has; every walk of the device tree finds what the tree says; packing and unpacking are inverse; the image lands where nothing else is |
| `vm` | areas are disjoint, entries follow areas, frame counts are exact over fork, faults and failures, the lowest gap is found; the break moves with its areas; only mprotect can make a shared frame writable |
| `first_gen` | the older system: run queue and parents; block cache coherent and written through; files, pipes, memory, address spaces, FAT32 with crashes, console, streams, heap and shell |
| `sched_userret` | violated: a forked child can enter `userret` with interrupts on |
| `sched_idle` | violated: a task woken while its CPU idles never runs |
| `task_wait_sleep` | violated: `task_wait` with a living child panics |
| `task_orphan` | violated: an orphan's parent pointer outlives its reaped parent |
| `vm_cow` | violated: mprotect after fork makes a shared frame writable |

Each violated run states what a comment in the code says; the findings in
`PROJECT.json` quote it.

### What the properties do not claim

Where the code departs from a property in known cases, the property names the cases
(or the model stops where the case occurs) and the rest is claimed:

- `SpacesExact`, `SpaceSteps`: up to the first area that a page table cannot hold.
  `kUserVaLimit` leaves more addresses than the 39 bits the walk looks at (`pmap.cc:49`), and
  mmap, mprotect and brk accept them; two pages 2^39 bytes apart then share a slot.
  Neither do mmap and mprotect refuse write without read (`sys_mm.cc:102`, `:168`), whose
  entry has no permissions left once it is copy-on-write and is no leaf any more.
  `Vma` makes those areas like any other and stops there (`Strayed`).  `RefsAccounted` counts
  apart what a failed clone loses.
- `SumOnlyInCopy`, `CopyTellsTruth`: `kernelvec` saves `t0` after it has put the stack pointer into
  it (`trap_vector.S:119`, `:123`), so an interrupt between a copy's `li t0` and its `csrs` or
  `csrc` changes other bits of `sstatus`.  `struck` marks such copies; the first property leaves
  them out, the second allows them an -EFAULT.
- `HandsOverTheRest`: the frames no region covers.  The device tree's blob is in no
  region (`memblock_init` is given its address and does not use it), so its frame is
  handed over as well, or becomes a table: the property says so.
- `ScanRoundTrip`: numbers whose text, padding zeros included, fits the scanner's `num_buf`.
- `BootedImageIsWhole`: not the placements that overwrite the payload, because
  `choose_load_base` runs before `payload_offset` is read from the header.
- `KernelTextStandard`: not the departures in `Departs` (a precision under `-`, `#` cutting
  digits off, a negative `*` precision, `hh` on a signed value).
- `NumbersSaturate`, `ScanRoundTrip`: not negative numbers, which `strtoll` negates twice.
- FAT32: up to a crash inside truncate (`harm` = "torn"); up to an open or unlink of a
  file that is open ("shared"), because every open has an inode of its own that
  copies the directory entry and writes it back; and up to a cluster behind the
  volume's end ("outside"), which `alloc_cluster` hands out when the table has entries
  for it.  `ReadsBack` also leaves out offsets a full disk has no cluster for, and
  counts a unit that a failed copy left in a buffer as written until the buffer is
  reused.
- `TextIntact`, `RingInOrder`: until a ring is overrun.  A character is taken out before it is copied
  to the reader; when the copy fails it is lost (`lost`), and `TextIntact` is about what was
  taken out.
- `PipeSleepers`: the descriptor for the other end that a sleeper waits for may be its own,
  or a zombie's, which keeps it until it is waited for; the sleep then has no end.
- `StreamTransparent`: the program it compares with makes the system calls itself, and
  writes from the beginning of a file opened with "a" too, because `sys_openat` knows no
  O_APPEND.  `LossReported`: a `rewind` clears the report of its own failure.
- `HeapTiled`, `ListInOrder`, `FreeJoined`: until a size wraps in `ALIGN` or does not fit
  the `int` of `sbrk`.  When the kernel has no memory the program ends: `sbrk` returns
  -ENOMEM and `morecore` looks for -1.
- `ParseKeepsLine`: lines with blanks before operators.  `PromptMeansDone`: while no fork or
  pipe failed.  `NoStrayEnds` says that a program holds no pipe end at all: nothing is open
  when the shell starts, `pipe()` returns 0 and 1, and closing 1 or 0 before `dup` closes
  the end that was to be kept, so the two sides of a `|` are not connected (the repository's
  `README.md:86` says the shell supports pipes).

Some hazards have no property because the code does not meet the one it would be:
the disk's lost wakeup in the older `sleep`, the argument replaced by a failed
interrupt registration, the log's counters after they wrap.

Seen while modelling, and left without a property: in the current kernel,
`munmap` in the middle of an area can fail after its pages are gone
(`vma.cc:304`), `wait4` loses the status when it cannot store it
(`sys_process.cc:111`), an illegal instruction of a user task panics the kernel
(`trap.cc`), the decompressor keeps clear of at most 32 ranges
(`compressed.cc:273`), and a `kfree` on another CPU than the slab's would change
the free list without a common lock (`slab.cc:208`; one CPU is started).  In the
older system: `bget` stops when every buffer is in use (`bio.cc:69`), the disk's
status byte is not read (`virtio_dist.cc:293`), a byte is lost when a pipe read
cannot store it (`file.cc:131`), `wait` that cannot store the status leaves the zombie,
exec's guard page is never freed (`exec.cc:175`), a write that starts at the end of
the last cluster fails and a write to a full disk still enlarges the file
(`fat32.cc:425`, `:493`), unlink frees no clusters (`fat32.cc:741`), a device is
registered again at every enclosing end of node (`src/kernel/fdt.cc:173`) and is taken for
whatever its compatible strings contain first, `console_read` takes its locks in
both orders (`uart.cc:168`, harmless on one hart), `ftell` and relative `fseek`
forget the buffer (`stdio.c:998`, `:1009`), and a failed second fork leaves a
pipeline's first child unwaited for (`sh.cc:126`).

## Bounds

- Two CPUs suffice for every race between a CPU and a remote one; three tasks for
  a running one, a sleeper and a waker; two priorities for a wrong choice.  A
  time slice of 2 (`sched_smp`) gives the tick that spends it and one that does
  not, of 1 in `sched_user`.
- Two-bit PID words with two words make the hint wrap; two spare PIDs for three
  TCBs exhaust the allocator.
- Seven pages with a hole give missing buddies, buddies in use and a buddy past
  the end; three orders a merge that goes on and one that stops.  Slab: two
  classes, three pages, so that a class runs out while another has pages.
- Vma: tables of four slots (`Span`), three of them for user pages and a fourth page
  that shares the slot of page 0, two frames, two spaces, three calls that change areas
  (`MaxCalls`), mmaps of at most two pages (`MaxLen`) and one lost reference (`MaxLost`):
  split, hole and merge, a shared frame, no memory left for the copy, and areas past
  the table or writable without read.
- Memblock: RAM, image and end of image on and off page boundaries, an array of 11
  regions that some layouts fill.  Fdt: all trees of at most 10 tokens
  (`MaxTokens`); the walks track 3 levels, which some of them exceed.
- Boot: lz4 with lengths of one bit and bytes of two, so that extension bytes
  occur in 7 bytes (`MaxLz`); RAM with no, one and several places for the image.
- Klog: a ring of 8 bytes and messages of 3 and 5, so that a third message drops
  one or both before it.  Irq: two CPUs, two drivers, one source.  Trap: 5
  addresses of which 3 are the user's.
- RbTree: 9 keys and a spare node, so that a rebalancing climbs and ends at each
  of its levels.
- Printf: types of 3 to 8 bits and a conversion buffer of 7, which widths and
  precisions exceed; number texts of up to 5 characters (`MaxNumText`); a scanner's `num_buf` of 7,
  which some printed numbers fill.
- Older kernel: three processes (parent, child, init's adoption), two buffers for
  three blocks, six descriptors for two requests, one pipe of 2 bytes and three
  bytes written, eight pages, spaces of four pages on machines of 16 and 17,
  clusters 2 to 5 with 2 units each and one unit that a buffer shows and the disk lacks
  (`MaxPartial`), rings of 2, streams with a buffer of 2 and files of 3, a heap of 28 bytes
  with a `size_t` of 7 bits and an `int` of 6, lines of 6 characters for the parser, and
  four scripts for the processes with 4 descriptors.

Kernel threads are interchangeable in `sched_smp`, spare TCBs and log writers in
`kernel`, CPUs in `boot_memory`, spaces and frames in `vm`, the file system's processes and
names in `first_gen`, so those runs use
symmetry; the runs that check liveness do not.  Deadlock is checked for
`spinlock` only: in the others CPUs whose threads have all returned or that have panicked, a
machine that halted, a bounded counter at its end or a finished call really stop.

Fairness.  `Spinlock`: every CPU keeps executing.  `Sched`: a CPU keeps
executing its current task, strongly, because interrupts come and go but always
return; the timer keeps firing in user mode; and kernel threads yield now and
then.  The last is an assumption on the threads: the code never preempts kernel
mode, so without it one thread can keep its CPU.

## Proofs

The theorems hold for every value of the constants that the named assumptions of
the component's module allow; `PROJECT.json` lists them with the run property each
states.  A component's module is extended, not copied, so the runs and the proofs
are about the same definitions.

| Module | Proves |
|---|---|
| `LockIrqProofs` | `Spinlock`: the invariant, mutual exclusion, no panic, interrupts off and restored, refinement of `LockService`.  `Irq`: `IrqsServed` |
| `SchedLemmas`, `SchedSteps`, `SchedProofs` | `Sched` and `RunQueue`: `QueuesExact`, `NoLostWakeup`, `MostUrgentFirst` |
| `TaskLemmas`, `TaskProofs` | `TaskLife` and `PidAlloc`: `TasksExact`, `ReclaimedByParent` |
| `VmaProofs` | `Vma`: `SpacesExact`, `SpaceSteps` |
| `SeqFacts` | least numbers, the size of a set by one element more or less, and what Append, Tail, `\o` and `Unlink` do to a list without duplicates |

The long proofs are spread over several modules, each extending the one before it.

*Spinlock.*  Mutual exclusion alone is not inductive: between the exchange and the
store to `cpu_id_`, and between clearing `cpu_id_` and clearing the lock word, the
word and the owner field disagree.  `SpinlockInv` therefore says for every step
of a call which of them is set, that a handler only runs where interrupts were on
(so its calls nest inside none of the thread's), and that the depth counts the
locks held plus the call in progress.

*Interrupts.*  That no handler runs twice at once rests on `ClaimIsExclusive`: from
claim to complete the controller holds the source back for that CPU.  A CPU that
is between claim and complete therefore always finds its own name there.

*Lists of the scheduler.*  `OneList` counts the places where a task is linked,
which says nothing about which list a step will find it on.  The induction uses
`LinksFollowState`: a task's own fields (state, CPU, priority, the wait queue it
sleeps on) name its list, and a waker that has unlinked a task and not yet enqueued
it has it to itself.  `RunningIsCurrent` and `ExecutionFits` say what a CPU's
current task may be doing; without them a `schedule()` could enqueue a task that
some waker still has.  `nr_running` counts the union of all FIFOs; `Sized`, a
numbering of a set without repetition, states that count so that one element more
or less is one step (`SizedMore`, `SizedLess`).  `OneListFollows` then derives
`OneList`.

*Wakeups.*  The step that matters is `sleep(external_lock)` linking itself while
the condition is false: `SleepersHoldLock` says that from the test of the condition
to the release inside `sleep()` the task holds the lock and the condition stays
false, so whoever makes it true comes after the link.  `MostUrgentFirst` follows
from `QueuesExact`: the lowest bit of an exact bitmap is the most urgent FIFO.

*Tasks.*  The PID bitmap is proved to be a set (`Used`) that `alloc` adds its result
to and `free` takes its argument from, for any word size and any hint; `alloc` fails
only when the set is full.  `PidsConserved` says whose the members are.  It is not
inductive without `CallsFit`: a call split over several lock sections works on a
task that no other call has, and which is unknown to everybody (creation) or a
Zombie child of the caller (reaping).  `task_exit` is the hard step: with an init
task it hands every child over, so that `FosteredOrphans` keeps every living task
in the list of a parent that exists; without one the older parent pointers stay,
which is what run `task_orphan` shows.

*Address spaces.*  `VmInv` says of every living space what `SpaceOk` says of one
(areas nonempty, apart and in range; each entry grants what the one area around its
page does, less the write on a copy-on-write page; the heap in place) and that each
frame's count is the number of entries that map it plus what failed clones lost.
While no space has strayed, every page of an area is a slot of its own (`ToldPage`) and
an entry is mapped exactly if it is a leaf (`LookupIs`), so the calls, which go by
addresses and leaves, can be restated over slots (`ClearedIs`).
The proof then has two layers.  Below, operations on one space: `SplitRangeOk`,
`WithoutOk`, `MergeOk`, `ProtectOk` show that splitting, cutting, merging and
relabelling areas keep them apart and change no other page's permissions, also when
memory runs out half way; `UnmapOk`, `MapOk`, `ParentOk`, `ChildOk` lift that to
spaces.  Above, all spaces: `StepShapes` reduces every step to one of six effects on
entries and counts (pages dropped, relabelled, a free frame taken, a clone, a clone
that fails, a space destroyed), and `EntriesLess`, `EntriesMore` and `EntriesSame`
count them.  `LowestGap` shows that `mm_find_free_va`'s cursor, which only stops at
ends of areas, misses no lower gap.  For `SpaceSteps`, five of the six effects are
shown to leave a frame that is mapped twice unwritable; for the sixth, mprotect, the
entry that became writable is traced to an area that was not writable before.  That
mprotect does break `SharedNotWritable` is what run `vm_cow` shows, so the theorem
says exactly how far the property goes.

Assumptions on constants: at least two priorities and a positive time slice
(`PrioritiesAssumption`, `TimesliceAssumption`: `CONFIG_NR_PRIORITIES` and the 20 of
`priority_to_timeslice`); idle threads, `None` and the tasks are different things
(`TasksAssumption`, `LifeAssumption`, `IrqAssumption`), and each secondary CPU has a
boot task of its own (`LifeAssumption`); at least one wait queue
(`WaitQueuesAssumption`); PID words of at least two bits and more than two PIDs
(`BitmapAssumption`: 0 and 1 are taken at boot); finitely many locks, numbered in the
order they nest (`LocksAssumption`); finitely many spaces, pages of at least one
byte, tables of at least one slot, and a `NoPage` that is neither an entry nor a space
(`VmAssumption`).  TLC evaluates all of them in the
runs.

Only model-checked: all liveness (`SpinnersProgress`, `UrgentTasksRun`), which is out
of the prover's reach, and the components not named above.  `Boot`, `BlockCache`,
`Console`, `Fat32`, `Fdt`, `Files`, `FirstMem`, `FirstVm`, `Malloc`, `Printf`, `RbTree`,
`Shell`, `Stdio`, `Trap` and `UlibFormat` use recursive operators or bitwise operators,
which the prover does not handle, and most of what they claim needs induction over
data.  `Slab`, `Buddy`, `Pmm`, `Memblock`, `Klog` and `FirstProc` do not, and could be
proved next.

## Not modelled

- Start-up code (`main.cc`, `entry.S`): straight-line calls that leave the initial
  states of the modules.
- Register save and restore (`trap_vector.S` but for `t0`, `swtch.S`, `trampoline.S`), the
  system call table, UART output, firmware
  calls, PLIC and virtio discovery: I/O.
- In `Boot`: a header that fixes `load_phys_base`, whose value then is the base
  (`compressed.cc:368`), the panics on a malformed header, an unknown compression or a
  relocation table out of range (`:395`, `:430`, `:440`), and a CRC field of 0, which
  skips the comparison (`:342`, `:403`): the images are those `pack_image.py` writes.
- Random numbers: where their output matters the models take any value.
- String libraries and `stb_sprintf.h`: imported or elementary sequential code;
  floating-point output and input with them.
- The TLB: `Vma` takes a changed entry as effective at once.
- Two harts of the older kernel, with its work stealing; `sys_sleep`;
  subdirectories and rename in FAT32.
- `ftell`, relative `fseek`, `qsort`, time and environment in the user library; the small
  programs (`cat`, `cp`, `grep`, `ls`, ...): loops over calls that are modelled.
- `sched_dequeue` and `sleep()` without a lock, which only self-tests call, and the
  self-tests.
