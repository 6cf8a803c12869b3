# Formal models of MCSOS

MCSOS is a small x86-64 teaching kernel in C. This directory holds TLA+ models
of the parts of it that keep state worth arguing about, the TLC configurations
that check them, and proofs that TLAPS checks. Paths below are relative to the
root of the repository.

## The system

| Part | Source | Here |
|---|---|---|
| Journal of MCSFS1J | `kernel/fs/mcsfs1j/m16_mcsfs_journal.c` | `Journal`, `AtomicDisk`, `JournalRot`, `JournalProofs` |
| File system MCSFS1J | the same file | `Mcsfs1j`, `FileStore` |
| File system MCSFS1 (no journal) | `fs/mcsfs1/mcsfs1.c` | `Mcsfs1` |
| Cooperative scheduler | `kernel/mcsos_thread.c` | `Scheduler`, `RoundRobin`, `KernelProofs` |
| Spinlock, lock-order checker, mutex | `kernel/sync/*.c` | `Spinlock`, `LockOrder`, `Mutex`, `SyncProofs` |
| Physical memory manager | `src/pmm.c` | `Pmm`, `MemoryProofs` |
| Page tables | `src/vmm.c`, `src/kernel.c` | `Vmm`, `AddressSpace`, `MemoryProofs` |
| Kernel heap | `kernel/mm/kmem.c` | `Kmem`, `Heap`, `KmemProofs` |
| Block layer, buffer cache, RAM disk | `kernel/block/*.c` | `BlockCache`, `BlockCacheProofs` |
| Descriptors and RAM file system | `kernel/vfs/*.c` | `Vfs`, `Files`, `SyscallProofs` |
| System calls | `kernel/syscall/*` | `Syscall`, `SyscallProofs`, `Kernel` |
| ELF loader | `kernel/user/*.c` | `ElfLoader`, `KernelProofs` |
| Interrupts, interrupt controllers, timer | `src/idt.c`, `src/pic.c`, `src/pit.c`, `src/interrupts.S` | `Interrupts`, `KernelProofs` |
| `kmain`, context switch | `src/kernel.c`, `arch/x86_64/context_switch.S` | `Kernel`, `KernelProofs` |
| Early kernel, serial, log, panic | `kernel/core`, `kernel/arch`, `src/serial.c` | not modelled |

Modules are composed where the code calls from one part into another. They then
share their variables by `EXTENDS`:

* `Mcsfs1j` on `Journal`: every operation starts with a mount, every mount with a
  replay of the journal, and every write is a transaction.
* `LockOrder` on `Spinlock`: the checker is called before a lock is taken and after
  it is released.
* `Vmm` on `Pmm`: page tables are frames, allocated in the middle of `vmm_map_page`.
* `Syscall` on `Vfs`: system calls check pointers and then call the descriptors.
* `Kernel` on `Interrupts`, `Scheduler` and `ElfLoader`: `kmain` starts all of them,
  and the interrupt flag goes from thread to thread with a context switch.

The file systems have device structures of their own in the code, and are not on
top of `block.c`.

## Modules

### `Journal`

A device is the home blocks `home`, the header block `hdr`, and a descriptor and
a data block for each record (`desc`, `data`). Every action from `CommitClear` to
`RecoverEnd` is one block write of `m16_journal_commit` or `m16_journal_recover`
(or the reads between two writes). `jpc` and `ji` say which comes next. `Fault`
is the device's `fail_after` counter running out, `WriteError` the error return it causes,
`PowerLoss` forgets all that is not on the device. `clean` is a ghost: the
journal is known to be empty.

A block's checksum is modelled as the block itself (`Checksum`): two different
payloads never have the same one. The code's 32-bit FNV-1a does collide; the
journal cannot notice damage that keeps the checksum, and no property here says
it does. A block write is atomic and writes reach the device in program order,
as they do in the code's array of blocks.

`AtomicDisk` says what the journal promises: a transaction is applied to all
its blocks at once or not at all, also across a crash, and a recovery changes
nothing that can be seen. `Effective` is the refinement mapping: the blocks as
the next recovery will leave them.

`JournalRot` adds damage at rest: between two calls a block of the journal decays.
A damaged header is refused, for its checksum covers all its fields. No checksum covers
a descriptor, and `m16_valid_lba` compares its block number with the size of the
device only, so a damaged number is followed to every block, also into the journal
itself. What a payload then is as a header or a descriptor is a constant (`HdrOf`,
`DescOf`). `hcount` is the count a replay has read, which goes on counting when the
header block changes under it. Two ghosts: `issued` is what was ever committed, and
`strays` are the blocks named by a damaged number or by something that got into the
journal through one.

### `Mcsfs1j`

The file system on top. A call (`call`, `stage`) mounts, reads, prepares its two
transactions and commits them one after the other; `m16_format` writes the home
blocks one by one, superblock first. `FileStore` is the promise: files are
created once and whole, never change, and `m16_read_file` returns them. The
mapping shows the files in `Effective`; a file appears with the commit header of
the second transaction.

### `Mcsfs1`

The older file system, without a journal. A call computes, from the blocks it
reads, the list of block writes it will make (`todo`) and the code it will
return; then it makes them one by one, and an I/O error or a power loss may end
it between any two. Two oddities of the code let a name be entered twice: names of
exactly 27 bytes (`LongName`), whose length `find_dirent` counts on into the next
entry, and a read error in the lookup of `mcsfs1_create`, which counts as "not
found" (`lost`). The ghost `twins` holds the names this happened to; the properties
about single names leave them out.

### `Interrupts`, `Kernel`

`Interrupts` has the interrupt table, the registers of the first
interrupt controller (lines raised `irr`, masked `imr`, in service `isr`), the
processor's interrupt flag and the trap it is in. Gates are interrupt gates, so
handlers do not nest. A line may be raised at any time; one that goes away before it
is acknowledged gives the spurious vector.

`Kernel` is `kmain`: `Order` lists its steps and `pc` says which is next; an
interrupt may come between any two. Afterwards threads yield, execute `int3` or
`int 0x80`, and are interrupted. `context_switch` keeps no flags, so `Flag` says
which interrupt flag a thread continues with, and `frames` which threads were
switched away inside a system call. Memory, paging and heap are set up in one step.

### `ElfLoader`

`m11_elf64_plan_load` as operators in arithmetic that wraps at `2^WordBits`, in the
order of the code's checks. `GoodImage` is the reference: the same in unbounded
numbers and without an order. The `kernel` run compares the two on the images of
`MCKernel`.

### `Scheduler`

Thread control blocks linked by `next`, with `head`, `tail`, `count` and the
states. `queue` is a ghost: the order in which threads were enqueued. `RoundRobin` is
the promise: a FIFO queue. Calls are atomic: one processor,
no preemption. `Polite` says that callers do not enqueue a thread that is queued
already. This is an assumption on callers, which the code does not check. The state
field of the idle thread stays `RUNNING` while others run; `SchedInv` says nothing of
that field, and of the others that only the current thread's is `RUNNING`. Stack
arithmetic wraps at `AddrSpace`.

### `Spinlock`, `LockOrder`, `Mutex`

The atomic operations of the C code are the steps: the exchange, the loads of the
inner loop, the store of unlock. The mutex keeps `locked` and `owner` in two
words; each access is a step of its own. Memory is sequentially consistent in the
models, although some loads of the code are relaxed; data that the locks protect
is not modelled. In `LockOrder` a lock is its class, and processors
heed the checker: they take the lock only if it answered OK. `Spinlock` has no run
of its own; `LockOrder` extends it and its run fires its steps.

### `Pmm`

The bitmap is the set `used`; `owned` is a ghost. Addresses wrap at `AddrSpace`.
`pmm_init_from_map` runs once. `pmm_free_frame` accepts any used frame; the ghost
`strays` holds the frames freed by one who did not own them.
`reserved_frames` and `ignored_frames` are statistics and left out.

### `Kmem`

The heap's headers are a partial function `blk` from addresses; clearing a header's
magic removes it. `Heap` is the promise, and the refinement mapping takes the blocks
that are not free as the live allocations. Two things lean on the invariant
`Tiled`: first fit is the lowest fitting address, as the list is in address order;
and `kmem_coalesce_forward` makes one round, as a merged block is never followed by
a free one.

### `Vmm`

Tables of `Fan` entries in the frames of `Pmm`. An entry keeps an address without the
bits from `PhysSize` on, as the code's mask does. `vmm_map_page` is one step for each
table it goes through, so that it can run out of frames at each; nothing else runs
in between. `mem` is what frames hold: one that was not zeroed holds entries that
look present. `vmm_unmap_page` clears the last entry and frees no table. `kernel_vmm_init`
does not zero the root. The model follows only a root that happened to be zero
(`dirty`), and the promise is for that case: `AddressSpace` maps the page a call was
given (`asked`) to the target it was given, and no other.

### `Vfs`, `Syscall`

A path is a sequence of names. Nodes and the shared data array are those of
`ramfs.c`, descriptors those of `fd.c`. `Files` is the promise: each name has an
array of its own and each descriptor a position of its own. `Syscall` adds the user
region, the checks of pointers and lengths in a wrapping address space, and the
dispatcher. Descriptors come in registers and are cut down to an `int` (`AsInt`), so
the registers are numbers of their own (`FdRegs`). A system call is one step: it runs
with interrupts off.

### `BlockCache`

Devices, cache entries, and what each block should read as (`View`). Drivers of the
devices in `Flaky` may at any time begin to refuse any set of their blocks. Two ghosts limit what is promised: `dropped`
holds blocks whose last write found the cache full, and `stale` says that a caller has
used a device number from before the last `blk_init`.

## Runs

Each run takes less than three minutes on two cores.

| Run | Shows | Result |
|---|---|---|
| `journal` | `JInv`, the inductive invariant; the journal implements `AtomicDisk`; calls return | holds |
| `rot` | only committed payloads are applied, except to blocks that damaged block numbers lead to (`OnlyCommittedApplied`); a damaged journal is not cleared, unless such a number leads into the journal (`DamageNotForgotten`) | holds |
| `mcsfs1j` | `DiskInv`: consistent after every cut, nothing shared, bitmaps agree with inodes; `LeakBounded`: leaks bounded by the number of cuts; `FileStore` implemented; calls return | holds |
| `mcsfs1` | `DiskInv`: cuts leave images fsck accepts, files are disjoint, names unique; others untouched; OK means done; a half-made file system does not mount; nothing leaks without an error | holds |
| `mcsfs1_long` | `NoTwins`: a name is entered once | **violated** |
| `lockorder` | exclusion, and a stack that lists all that is held, in order (`OrderInv`), no cycle of waiting, the highest lock is released, a lock waited for is taken | holds |
| `mutex` | exclusion, answers that hold when given, the mutex is freed | holds |
| `kernel` | `KernelInv`: no panic, every handler sends its end of interrupt; `SchedInv` and FIFO order; ready threads run; the timer is served; `PlanRight`: the loader accepts exactly good images and leaves no partial plan | holds |
| `vmm` | counters and hint exact, allocation fails only when full, only usable frames handed out; tables reached from the root form a tree of frames that are handed out, and no frame taken for a table is lost (`TableTree`); `AddressSpace` implemented | holds |
| `syscall` | `VfsInv`: files have data of their own, descriptors are of nodes that exist; failed calls are harmless; only user memory is accessed; `Files` implemented | holds |
| `block` | `BlockInv`: honest entries, no write forgotten; `FlushDurable` | holds |
| `kmem` | the list tiles the heap with no two free neighbours; the heap implements `Heap` | holds |

The violated property restates a line of a report in `docs/laporan`, which `findings`
in `PROJECT.json` quotes. The trace TLC prints is a run of the code as it is.

### Where code and reports differ

Met while modelling. The models follow the code in each case. The first has the
violated run above; the others have no run, and the properties are stated so
as to leave them out.

* MCSFS1: a name of 27 bytes can be created twice (M15 report, line 1249),
  and so can any name when the lookup meets a read error (`mcsfs1.c:406`).
* Block cache: `blk_write` answers OK and keeps nothing when the cache is full (M14,
  504); a flush leaves the blocks dirty that a driver refuses (M14, 505); an entry
  that was read or flushed is valid and not dirty (M14, 522).
* Journal: no checksum covers `target_lba`, so recovery may write a valid payload to
  the wrong block, also to one of the journal (M16, 443); `OnlyCommittedApplied` and
  `DamageNotForgotten` except this. And a replay that meets a damaged record has
  written the records before it (M16, 1152, says that a corrupt journal leads to no
  partial write). What holds is that the header stays, so that every later mount is
  refused as well.
* MCSFS1: `mcsfs1_fsck` accepts marked blocks that belong to no file (M15, 1240).
  `mcsfs1_write` leaves such blocks when space runs out half way (`mcsfs1.c:478`; M15,
  1343, speaks of inodes only). `NothingLeaksQuietly` is about calls that succeed.
* Scheduler: the idle thread stays `RUNNING` while others run (M9, 400 and 404); a thread
  that is `READY` can be enqueued again, as M9, 390 allows, which breaks the list (M9,
  408); a lone thread that yields makes way for idle (M9, 353).
* Page tables: `vmm_unmap_page` (`vmm.c:138`) never frees a table, also one whose last
  entry it clears (M7, 477, 493 and 1238). `TableTree` says that tables are neither
  lost nor given out twice; it does not ask for them to be freed, nor to be kept.
* Mutex: `owner` and `locked` are two words and differ for a moment (M12, 480).
* PMM: `align_up` wraps in the last page of the address space, for the start of usable
  regions and the end of others (M6, 446); `pmm_reserve_range` answers true for a
  range that overflows (M6, 481).
* ELF loader: the plan of an image without loadable segments keeps its entry, although
  it is refused (M11, 473); `PlanRight` excepts it.
* System calls: `sys_open` checks a fixed number of bytes of the path, while
  `mcs_strlen` reads to the terminator (M10, 483); `UserAccess` excepts paths
  without one. A descriptor is cut down to an `int` before it is looked up, so a
  register that holds a multiple of 2^32 is descriptor 0 (M13, 409).

Nothing in the reports speaks of these, and properties leave them out as well:

* `blk_init` resets the number of devices and not their table (`block.c:228`). A
  device number from before it still works, until another device registers under it
  and takes over the blocks cached for the first. `BlockInv` and `FlushDurable`
  promise nothing to a caller that uses such a number (`stale`).
* A yield inside `int 0x80` hands interrupts that are off to a thread that never
  turns them on. The reports ask for yields from task context only (M10, 1427), and
  the demo threads keep to that; `TimerServed` excepts the other case.
* `mcs_vfs_lseek` cuts the position down to an `int`: a large one is set, and reported
  as if the call had failed. `FailedHarmless` excepts it.
* `open` creates the file before it finds the descriptor table full (`fd.c:92`): an
  empty file remains. `FailedHarmless` excepts it.
* `kernel_vmm_init` does not zero the root table.

### Bounds

* Journal: two records and two home blocks, which gives transactions of one record and of
  two on different blocks (`Tx`; the file system makes no others). The proofs need no bound.
  With damage, `MaxRots` is one damaged block and `MaxCommits` two commits; two of each,
  and three damaged blocks with one commit, were run as well and found nothing else.
* MCSFS1J: two table blocks, so that the inode table spans blocks as in the code;
  `MaxCuts` bounds the writes cut short, each of which leaks an inode for good.
* MCSFS1: two valid names, two directory entries (three in `mcsfs1_long`), three data
  blocks for files of up to three, so that space runs out with an allocation half
  done; two inode blocks. `MaxCuts` is one error or power loss, at any point of any
  call; with two the run takes eleven minutes and finds nothing else.
* Kernel: the timer and one other line; three threads besides the boot thread, of
  which `kmain` starts two; stacks that end before, at and beyond the end of the
  address space; about a thousand images with numbers up to the end of a four-bit word.
* Locks: three processors and three classes, of which one processor may hold two, so
  that the stack is full; the mutex has three threads.
* Frames and page tables: six frames of four addresses in a space of eight pages, too
  few for two chains of four tables, so that mappings run out half way; regions
  overlap, are empty, end inside pages, exceed the managed memory and overflow. Tables
  of two entries; one target is beyond `PhysSize`.
* System calls: two descriptors, three names and room for two files of two bytes, so
  that descriptors and data run out; an address space of eight. `MaxOffset` bounds
  `lseek`.
* Heap: 42 bytes with headers of 6 and alignment 2 (the code's 48 and 16, scaled), in
  a space of 64, so that at most five blocks fit; every address is freed.
* Block cache: three devices for a table of two, so that one is refused, and so that
  another can take over a number after `blk_init`; fewer cache entries than blocks.
  The two devices of one block are interchangeable (symmetry).

`Kmem`, `Vmm`, `Syscall`, `Mcsfs1` and `Mcsfs1j` were also simulated on larger
instances than those of the runs, with random behaviours of 60 to 300 steps: three
descriptors and all sets of flags, heaps of up to 110 bytes, fourteen frames, three
cuts. One to four million states of each showed no violation. This is sampling, and
proves nothing; it matters for the two file systems, which have no proofs.

Deadlock is checked in every run: none of the models ever stops.

### Fairness

* `JFairSpec`, `FFairSpec`: code that runs keeps running (weak fairness of the steps
  of a call). Nothing is assumed of callers, faults or repairs.
* `Kernel`'s `Fairness`: `kmain` runs on through its bring-up and handlers run on
  (weak); a thread other than the boot thread yields again and again, as the demo threads in
  `src/kernel.c` do, although interrupts come in between (strong); the processor takes a
  pending line that is enabled again and again (strong), as it looks for one after each
  instruction. Nothing is assumed of the boot thread, which halts, or of devices.
* `OSpec`: a processor in a call runs on, and one that holds a lock and is not
  waiting eventually releases one (weak fairness). Test-and-set promises nothing to
  the one that always comes late, so no property says that each waiter gets the lock.
* `MSpec`: a call that has begun runs on (weak), and a thread that has the mutex
  unlocks it (strong, as it may call `try_lock` again and again in between).

## Proofs

TLAPS checks the theorems below for every value of the constants that the named
`ASSUME` of the component admits. Each proof of an invariant has one lemma for each
action.

| Theorem | States |
|---|---|
| `JournalProofs!JournalInvariant`, `JournalRefinement` | `JSpec => []JInv`, `JSpec => ImplementsAtomicDisk` |
| `JournalProofs!DecayContained`, `DamageStays` | of `JournalRot`: `[]OnlyCommittedApplied`, `DamageNotForgotten`, with the exceptions above, for any number of damaged blocks |
| `SyncProofs!MutexExclusion`, `MutexAnswers` | `MSpec => []MutexInv`, `MSpec => AnswersHold` |
| `SyncProofs!OrderHolds`, `NoDeadlock` | `OSpec => []OrderInv`, `OSpec => []NoWaitCycle` |
| `MemoryProofs!PmmHolds`, `AllocFindsFrames`, `OnlyUsableOwned` | `PSpec => []PmmInv`, `PSpec => AllocFailsOnlyWhenFull`, `PSpec => []OwnedAreUsable` |
| `MemoryProofs!PmmHoldsUnderVmm` | the same `PmmInv` with page tables on top |
| `MemoryProofs!TablesFormATree`, `VmmRefines` | of `Vmm`: `[]TableTree`, `ImplementsAddressSpace` |
| `KmemProofs!HeapTiled`, `HeapRefined` | `KSpec => []KmemInv`, `KSpec => ImplementsHeap` |
| `KernelProofs!SchedHolds`, `SchedRefines` | if `Polite`: `SSpec => []SchedInv`, `SSpec => ImplementsRoundRobin` |
| `KernelProofs!KernelHolds`, `KernelRoundRobin` | if `Polite`, of `Kernel`: `[](SchedInv /\ KernelInv)`, `ImplementsRoundRobin` |
| `KernelProofs!LoaderExact` | of `Kernel`: `[]PlanRight` |
| `BlockCacheProofs!BlockHolds`, `FlushIsDurable` | `BSpec => []BlockInv`, `BSpec => FlushDurable` |
| `SyscallProofs!UserAccessHolds` | of `Syscall`: `UserAccess` |
| `SyscallProofs!VfsHolds`, `FailedCallsHarmless` | of `Syscall`: `[]VfsInv`, `FailedHarmless` |

`PSpec` and `SSpec` are `Pmm` and `Scheduler` on their own. That the larger models
take only their steps is proved too (`UsesPmm`, `KernelSchedules`), so what holds of
the part holds in the whole. `NatFacts` has what several proofs need of numbers: every
set of naturals has a least element, steps from 0 reach every number up to a bound,
a loop written as a recursive function has a value for every number of rounds
(`LoopRuns`), and arithmetic modulo a number.

* **Journal.** What matters is that a committed header always describes
  records that recovery accepts (`CommittedReplayable`), and that no commit starts over
  one (`NoCommittedTxDropped`). Neither is inductive. `JInv` adds what a commit has
  written so far (`CommitProgress`) and where a recovery stands (`RecoverProgress`). In
  the refinement every block write is a stuttering step except the commit header, where
  the whole transaction appears in `Effective`; writing a home block which the
  header's records overwrite anyway leaves `Effective` as it was.
* **Journal at rest.** For `OnlyCommittedApplied` every record in force, by the header on
  the device or by the count a replay has read, has to be invalid, issued or aimed at a
  stray block; a write into the journal keeps this as it adds the blocks that come into
  force to `strays`. For `DamageNotForgotten` the records before the one a replay is at
  have to be valid, which they stay while no payload goes into the journal.
* **Mutex.** `MutexInv` ties each of the two words to where the threads are, also in the
  windows where only one has been changed, and is inductive.
* **Lock order.** `OrderInv` is inductive: the checker's stack lists all that a processor
  holds or is about to, in increasing order (and possibly more, after a release out of
  order). Of processors that wait for each other,
  take one that waits for the highest class: the holder of that lock waits for a higher
  one, which is a contradiction. That there is a highest follows from `NatFacts`, and
  needs classes to be bounded (`MaxClass`, a `uint32_t` in the code).
* **Frames.** `PmmInv` is inductive, with cardinalities of sets of frames for the
  counters. `OwnedAreUsable` is not: free frames have to be usable too
  (`FreeAreUsable`), except for those that somebody freed without owning them.
* **Page tables.** `TableTree` is about what is reached from the root and is not inductive. `TreeInv`
  says that the tables can be sorted into four levels (`Tree`): those of a level are
  exactly what the entries of the level above point to, each by one entry, the levels
  are disjoint, and a call of `vmm_map_page` stands on the walk to its page. A fresh
  frame is owned by nobody, hence in no level, so entering it keeps the tree. Two pages
  whose walks end at the same entry are the same page, as an address is determined by
  its four indices; that is why a call changes no other page.
* **Heap.** `HeapInv` is the tiling (`Tile`): each block ends where the next begins and
  the links in both directions say so. Merging with the next block and splitting one
  keep it. After a free, two free neighbours can only be the freed block and the one
  before it, so one more merge suffices, and each merge needs one round only.
  `kmem_validate` accepts a tiling: of the nodes it could reject take the one with the
  highest address, and the next one is higher still.
* **Kernel.** `KernelInv` holds because `kmain` fills in the gates of all vectors that
  can come (0 to 47) and moves the controllers away from the exceptions' vectors before
  it turns interrupts on. `BroughtUp` lists what is in place at each step, `ServiceEnds`
  what is in service while a handler runs.
* **ELF loader.** `PlanInv` says that the plan is what `m11_elf64_plan_load` computes.
  The loop over program headers is followed with `LoopRuns`: after each round the plan
  is the loadable headers so far if all of them fit, and empty otherwise. Sums that wrap
  come out below their operands, which the code's comparisons find.
* **Scheduler.** `SchedIInv` is inductive and implies `SchedInv`: the list has no
  repetition, is linked by `next` in its order and holds exactly the threads that are
  ready, and every state field agrees with that (`StatesAgree`). The refinement maps
  `queue`, which the invariant ties to the list, to the queue of `RoundRobin`.
* **Block cache.** `BlockInv` speaks of what a read returns; `IInv` splits this into
  cached blocks (`EntriesLatest`) and others (`OthersLatest`), and adds that a device
  without a number has not been written since `blk_init` (`Untouched`), which is
  what makes it right to register it. Flushes write each block from one entry, as
  no two entries are of one block.
* **System calls.** A sum of an address and a length wraps at most once, so the end of a
  range that wraps is below its start, and the code's comparison of the two finds it.
  Conversely a range that wraps contains address zero, which no region with a base
  above zero contains. The path that is checked is shorter than the address space.
* **Descriptors.** `VfsInv` is inductive. A lookup fails or ends at a node that exists,
  by steps along the path; a new file takes the next node and the next part of
  the data, so parts stay disjoint, and `write` stays inside the part of its file.
  `FailedHarmless` follows call by call from what each returns.

What the constants are assumed to be is what the code's own constants satisfy; for the
heap, that its size is at most `BlockLimit` headers and does not reach the end of the
address space (`src/kernel.c:178` gives it 64 KiB), and for MCSFS1J that the journal has
room for the whole inode table and two more blocks.

Only model-checked:

* All liveness (`CallReturns`, `FsCallReturns`, `HighestReleased`, `SpinProgress`,
  `MutexFreed`, `ReadyRuns`, `TimerServed`), which the prover does not do.
* `ImplementsFiles`.
* `Mcsfs1`, whose calls compute lists of writes with sorting and flattening, which are
  recursive, and `Mcsfs1j`.

## Not modelled

* The early kernel of the first reports (`kernel/core`, `kernel/arch`): it installs
  exception gates, prints and halts.
* Serial port, log, panic messages and memory primitives: no state of their own. That
  a panic stops the processor is `dead` in `Interrupts`.
* The rate of the timer; registers other than the interrupt flag in a context switch;
  the second interrupt controller's lines, which stay masked.
* Null-pointer checks at the start of functions.
* `mcsos_sched_tick` (a counter nobody calls), `kmem_get_stats` (only reads),
  `ramblk_reset` (for tests), and the statistics of the memory manager.
* Reordering of writes by a device's own cache, and weak memory order between
  processors.
