# Verification of the OS/161 kernel

TLA+ models of the kernel under `src/os161/kern`, of the parts of its C library
that do more than copy bytes, and of the two threading exercises under
`src/hw2`; TLC runs that check them on small instances; and TLAPS proofs of the
central properties for every size. Paths below are relative to
`src/os161/kern` unless they start with `src/`.

## The system

OS/161 here is a uniprocessor kernel in C. Mutual exclusion is by interrupt
level: `splhigh` turns interrupts off, and a thread loses the processor only
when it gives it up or when the timer interrupts it at level 0. Everything
above (locks, drivers, file systems) is built from that and from `thread_sleep`
and `thread_wakeup`.

| Part | Module | What makes it hard |
|---|---|---|
| Threads, scheduler, clock (`thread/thread.c`, `scheduler.c`, `hardclock.c`) | Sched, Threads | an exited thread's stack stays in use until the switch; preemption anywhere at level 0 |
| Storage of the thread tables (`lib/array.c`, `lib/queue.c` as used above) | ThreadTables | a context switch cannot report that memory ran out |
| Queue (`lib/queue.c`) | Queue, Fifo | wrap-around during growth |
| Semaphores, locks, condition variables (`thread/synch.c`) | Synch, Monitor | a wakeup between the test and the sleep |
| Console and serial port (`dev/generic/console.c`, `dev/lamebus/lser.c`) | Console | polled output in the middle of an interrupt-driven character |
| Disk and block I/O (`dev/lamebus/lhd.c`, `fs/sfs/sfs_io.c`) | DiskIO | one buffer for all; errors half way |
| Emulator file system (`dev/lamebus/emu.c`) | Emu | one request at a time, reclaim against lookup |
| Bus, timer and interrupt levels (`dev/lamebus/lamebus.c`, `ltimer.c`, `arch/mips/mips/trap.c`, `spl.c`, `interrupt.c`) | Interrupts | a switch of threads inside a handler; duds |
| SFS names and vnodes (`fs/sfs`, `fs/vfs/vnode.c`) | SfsFiles | a sleep at every disk access, no locks, every access may fail |
| SFS blocks (`fs/sfs`) | SfsBlocks | direct and indirect blocks, partial writes, truncation, mounting again |
| VFS layer (`fs/vfs`) | Vfs | unmounting against lookups, open files and current directories |
| Operations of vnodes (`include/vnode.h` and the tables of SFS, emu and devices) | VnodeOps | positional tables; seeks and bounds in 32-bit signed offsets |
| Heap (`lib/kheap.c`, `arch/mips/mips/dumbvm.c`, `ram.c`) and its test | Kheap, MallocTest | blocks of several sizes on shared page references |
| Address spaces and programs (`dumbvm.c`, `trap.c`, `syscall.c`, `userprog`, `lib/copyinout.c`) | UserSpace | a TLB that is never written back, faults inside copyin |
| Printing, panic, shutdown (`lib/kprintf.c`, `main/main.c`) | Panic | a panic inside a panic, in a handler, or before the console is there |
| Menu (`main/menu.c`, `lib/kgets.c`, libc's `strtok_r`) | Menu | arguments on the menu's stack read by another thread |
| Arrays and bitmaps and their tests | Containers | growth when memory runs out, spare bits |
| Clock, screen, random devices | Devices, Pseudorand | a clock read in two parts; overflow-free arithmetic |
| libc `__printf.c`, `snprintf.c`, `random.c` | Printf, LibcRandom | widths and signs at the edge; parked generator state |
| Kernel tests (`test/`) and `asst1/` | SynchTests, FsTest, CatMouse | what they report must be what happened |
| `src/hw2/producer_consumer.c`, `data_to_kernel.c` | ProducerConsumer, DataToKernel | stopping everybody; turns |

`PROJECT.json` lists every component with its status, the hazards with the line
where each bites and the properties that would notice, and for every definition
the source lines it models.

## Modules

* **Sched** is the core Threads and Synch share: `curthread`, `curspl`, thread
  states, the run queue and `sleepers[]`, and `mi_switch`, `thread_sleep`,
  `thread_wakeup`, `thread_wakeup_one`. `mi_switch` is two steps, `SwitchOut`
  (the old thread is queued) and `SwitchIn` (another is taken), with the idle
  loop, in which interrupts are taken, between them. A thread's state is kept
  both in `tstate` and by the lists; `ListsSound` says that they agree.
* **Threads** adds fork, exit, yield, reaping, the clock and `clocksleep`.
  `kstack` is the thread whose kernel stack the processor is on.
* **ThreadTables** counts threads instead of naming them and follows the
  capacities of the three tables while any `kmalloc` may fail.
* **Queue** is the ring buffer, **Fifo** what it promises.
* **Synch** is `synch.c` in steps no coarser than the interrupt level makes
  them: test, sleep, release and reacquire are separate, and only `curspl`
  keeps others out. **Monitor** is what it promises: atomic operations. The
  modules above it (Console, DiskIO, Emu, SynchTests, CatMouse, Panic) use the
  atomic semaphores and locks, which the refinement theorem justifies.
* **Console**, **DiskIO**, **Emu**, **Interrupts**: the serial port, the disk
  card, the emulator and the bus controller are external and modelled from the
  registers the drivers use. Interrupts goes through boot's probing of the
  slots, handlers installed late, the timer's handler that yields inside
  `interrupt`, and the registers `in_interrupt` and `curspl` saved or not saved
  on the way. Memory suffices during autoconfiguration.
* **SfsFiles** has one step per disk access and one per stretch of code between
  two. `Serialised` says whether a second operation may begin before the first
  has ended. A failed access is an error without effect, which is what this
  code expects of `sfs_rblock` and `sfs_wblock` (DiskIO shows where they differ).
  A panic or a failed assertion sets `panicked` and stops everything.
* **SfsBlocks** makes a file operation a chain of pieces (`sfs_partialio`,
  `sfs_blockio`, each entry of a truncation) on a volume `mksfs` could have
  written. Disk accesses fail when the operation's fuel is used up, so that
  each access can be the failing one. `sfs_truncate` sets blocks free before it
  writes the indirect block that no longer has them; when that write fails they
  are free and still mapped on disk. `fs.torn` is the set of them, `SpaceExact`
  says that there are no others, and a volume that has some is not followed
  further: its blocks may go to another file.
* **Vfs** has several threads inside `vfs_open`, `vfs_chdir`, `vfs_mount`,
  `vfs_unmount` and their callees, with one step for every stretch that
  `knowndevs_lock` or the caller makes atomic. An unmount is two steps,
  FSOP_SYNC and FSOP_UNMOUNT; `changed` says that a reclaim has made the free map
  dirty between them, and then the assertion in `sfs_unmount`
  (`fs/sfs/sfs_fs.c:178`) may fail. `VnodesHeld` allows no other panic. **VnodeOps** is one call of any
  operation of any kind of vnode, with the state (position, size) that later
  calls depend on; `off_t` has `OffW` bits.
* **Kheap** keeps the page references and free lists of `kheap.c`;
  **MallocTest** drives it. **UserSpace** goes from `runprogram` through
  `load_elf`, faults, system calls and fatal traps for two processes, and
  `as_copy`. Addresses and sizes wrap around at `AddrMod` (2^32 in the code),
  in the rounding of `as_define_region` and in the sum of `ram_stealmem`. A
  segment of nearly 4 gigabytes makes that sum wrap: the call succeeds,
  `firstpaddr` goes down and memory is given out twice. `PrivateMemory` is
  therefore claimed while no executable in use has such a segment (`SizesFit`);
  `TlbSound` and `LoadedWhole` hold with them.
* **Panic** has for each stage of `panic()` a step that tests `evil`, one that
  assigns it and one or more for the stage, with threads that print, are in the
  VFS, are preempted or panic too. Nothing protects `evil` before `splhigh`: of
  two threads that panic one may set it back after the other has gone on, and a
  stage is tried again. `PanicOrderly` says that the stages of a panic by itself
  are tried once and in order, whatever they run into, and that with several
  this holds from the moment one thread has dropped the others (`alone`).
* **SynchTests**, **FsTest**, **CatMouse**, **ProducerConsumer**,
  **DataToKernel**: the programs, one step per access to shared state. Failing
  file system calls of FsTest are external.
* **Menu**, **Containers**, **Devices**, **Pseudorand**, **Printf**,
  **LibcRandom**: sequential code, one step per call, each against what a caller
  expects of it. `ltimer_gettime` reads the clock in three steps between which
  any time may pass, since it can lose the processor there; the reading is
  claimed to be right when the second read follows within 5 ms and the third in
  the rest of a second, and to be off by less than a second otherwise.
* **…Proofs** modules hold the proofs; **MC…** modules and `.cfg` files the
  instances. An MC module that puts several parts together has a variable
  `part`: a behaviour is a behaviour of one part while the others keep their
  initial state. The conjuncts of its invariants speak of the part they name.

Definitions whose comment begins with *Fault* are not part of any
specification: each is a plausible mistake in the definition that follows it,
and replacing the one by the other makes a property fail. The pairs are listed
in `PROJECT.json`.

## Runs

| Run | Instance | What it shows |
|---|---|---|
| threads | 3 threads, HZ 2, sleeps up to 2 s; tables for 9 threads; rings of 1 to 7 slots | each thread in one place, no use of a freed stack, exact `numthreads`, sleepers fit; the ring refines Fifo; ready threads run, sleeps end, zombies are destroyed |
| programs | 3 threads and one primitive of each kind; 3 test threads; 2 cats and a mouse at 2 bowls; 2 producers and 2 consumers; 4 user threads, 2 packets; 2 file test threads; 2 threads, 2 panics | no lost wakeup, atomic wait, refinement of Monitor; the kernel's tests pass and report what happened; bowls, rings and panic keep their rules; nothing hangs |
| drivers | 2 writers and `kprintf`, or 2 readers and `getch`; 3 disk requests, 2 errors; 2 threads and 2 handles on the emulator; 5 slots, 2 threads | the port is never written while busy, calls do not mix; one user of the card, fresh reads, writes land; handles closed once; interrupt levels as believed; requests finish |
| files | 2 threads, 2 names, 2 inode blocks, 1 failure, serialised; 2 files of up to 3 blocks on a volume of 9, 5 operations | names, links, references, map and disk consistent; blocks neither leaked nor shared; reads return what was written last |
| services | heap of 2 pages, 2 block sizes; 2 processes, TLB of 2; lines of 6 keys; formats of 5 characters, 8-bit longs; 2 state arrays; 1 disk and the emulator, 2 threads, 2 calls each; one vnode of each kind | heap, address spaces, VFS, vnode operations, menu, printf, random, containers and small devices do what callers rely on |
| lists_fail | the code's sizes, 33 threads | **violated**: `make_runnable` or `array_add(zombies)` may need memory |
| disk_retry | as drivers, 3 errors | **violated**: SFS reports success for a write that failed |
| sfs_reclaim, sfs_synced | as files, not serialised, no failure | **violated**: a vnode destroyed in use; a change marked clean unwritten |
| sfs_excess | as files, no failure | **violated**: a truncation that succeeds keeps the block just past the end |
| volume_names | 2 disks with one volume name | **violated**: both are mounted |
| lamebus_stray | as drivers, 1 dud allowed, 2 strays | **violated**: strays never lead to the panic |

The violated properties quote what a comment or a message in the code says; each
has an entry under "findings" with both sides. More of the same kind was met
that no run is spent on. With `Paced` FALSE a character typed too fast is read
twice (`console.c` says only that characters are lost). With `Serialised` FALSE
two threads scan the directory before either writes, and a name gets two
entries. `vfs_setbootfs` says that a
colon "must be at the end", but its test of `strlen(s)` refuses that colon too
(`fs/vfs/vfslookup.c:64-69`). libc's `setstate` reads the position kept in the
array before it stores the current one, so that with the array in use the
generator goes back to where it was installed, while
`src/os161/lib/libc/random.c:344-345` says that this "is OK"; `StatesKept`
marks an array that this has happened to (`strayed`) and speaks of the others.
The manual page lists `%X`, which `__printf.c` does not have. `vnode.h` says
that `getdirentry` fails with ENOTDIR; devices say EINVAL
(`fs/vfs/device.c:373`). `asst1/stoplight.c` is a stub.

**Bounds.** Three threads are one that runs, one that sleeps and one that is
ready or dead, enough for every pair of operations and a third party between.
The table sizes are scaled down in `threads` so that growth, freeing and
refilling all happen; `lists_fail` uses the code's own 32 and 16. A ring of up
to 7 slots is grown twice, in every wrapped position. A polled character falls
before, within or after an interrupt-driven one. Two disk errors exhaust the
retry of a request (`MaxTries` 1; 10 in the code) or hit two requests. A file of
one byte on the emulator has a first piece that is read and a second that is not. Two
names and three slots allow a free slot, a rename and a second link at once.
One failure in `files` hits each access of each operation; two would reach the
deliberate panic of `sfs_rename` ("Cannot recover"), so the branch of `Undo`
that takes it is in the specification but not in that instance. Five block
operations are enough to fill a file through the indirect block, cut it, write
again, mount again and read; `TruncFuel` lets a truncation fail at its first
access, at the write of the indirect block, or not at all. `MaxFails` and `MaxRuns` bound the failing calls and the
file tests together. Heap pages hold two or three blocks, so that a page is
filled, emptied and given to the other size. Formats of five characters hold a
flag, a width, a length and a conversion; with longs of 8 bits every number is
near a boundary. `MaxTransfer` keeps a transfer below half of the range of
`off_t`: one of nearly two gigabytes could wrap. Deadlock checking is off where
all requests have ended, the machine is off or an assertion has stopped the
kernel.

**Fairness.** Weak fairness for code at `splhigh` (nothing can interrupt it), for
handlers, devices that were given a command, and the scheduler; strong fairness
for the timer and for interrupt lines that stay asserted until taken whenever
the level drops again. Writers in Console and the threads in DiskIO are given
strong fairness at their semaphores and locks: `synch.c` lets a late comer
overtake, but the claim there is about finitely many requests of finitely many
calls each, so nobody can be overtaken for ever. Threads at the emulator make requests without end, and
`lock_release` hands nothing over: a thread may retake `e_lock` each time before
the one that waits has run. There only weak fairness is assumed, that some thread
that can go on does, and `RequestsFinish` says that a thread's requests finish or
the other thread's overtake them for ever (`Overtakes`). Synch itself assumes nothing of the callers and claims only
that somebody gets a free lock. In the kernel's tests the driver is not kept
from `wakersem` for ever (strong) and `random()` comes to every address. The
exercises need only that a thread that can run does. Where one fairness
condition is a disjunction over parts it is one condition for each part, since
a behaviour is of one part; its subscript `partVars` is the variables of that
part, as a step leaves the others alone.

## Proofs

Checked by TLAPS for every value of the constants that meets the modules' named
assumptions.

* **SynchProofs.** `SynchInvariant`: `IInv` is inductive. Exclusion and the
  absence of lost wakeups are not inductive alone: they need that interrupts
  are off in a running thread exactly inside a primitive and that a thread
  elsewhere resumes at the right level (`SplProtects`), that what a thread has
  tested still holds when it sleeps because it is still running
  (`TestStillHolds`), and that sleepers are where they say (`SleeperIsWaiter`).
  From it `LockExcludes`, `WakeupsAreNotLost`, `WaitIsAtomic`, and
  `SynchImplementsMonitor`, the refinement: P and acquire take effect when the
  count or lock is taken, wait when the lock is released.
* **ThreadsProofs.** `StackInvariant`: `StackIInv` adds that the running thread
  is on its own stack and that `zombies[]` holds only exited threads; hence
  `StackIsNeverFreed` and `NumthreadsIsExact`. `TablesInvariant`, of
  ThreadTables: type correctness, the counts and the storage together; hence
  `TablesTypeCorrect`, `SleepersAlwaysFit`, `WakeupAlwaysFits`. The growth loops
  appear as relations between capacities.
* **AlgorithmProofs.** `QueueImplementsFifo`: the ring, read from `nextread` on,
  is the queue of Fifo. The invariant is only that both indices are slots
  (`QueueTypeOK`); the work is in the contents, described as the i-th slot
  after `nextread` so that wrapping is one case distinction, and in growth,
  which moves the part before the gap. `SeedStaysInRange`: the seed of
  `pseudorand.c` stays between 1 and its modulus less one, by Schrage's bounds
  on the two products.
* **ExerciseProofs.** `BufferIsExact`: the ring of `producer_consumer.c`, with
  its own type. `PacketsAreInOrder`: for `data_to_kernel.c` also that the slots
  from head to tail hold the ids that follow those served. `BowlsAreShared`:
  the marks in `bowls.c` are exactly the animals that eat, and who eats has been
  let in by the turn.
* **DiskProofs.** `DiskIsSound`. What a finished request may claim rests on what
  is true while it is under way: its `uio` and its loop agree and add up to the
  request (`LoopKept`), the card works on the sector and with the data of the
  one thread that waits (`OneAtCard`, `CardKept`), and what has been moved so
  far was on the disk during the call or has landed (`MovedKept`).
* **ConsoleProofs.** `ConsoleIsSound`. The character that the port is sending is
  in the port or waits as its ready condition, and polled output puts that
  condition back (`PortKept`); the permit of `cs_wsem` is with a writer or with
  the port (`PermitKept`); a call that another has followed under the same lock
  is over (`LocksKept`, `TurnsKept`); and the one character typed and not yet
  read is in the port, in the buffer or with its reader (`InputKept`, which
  assumes `Paced`).
* **UserSpaceProofs.** `UserInvariant`, and from it `MemoryIsPrivate`,
  `TlbIsSound` and `ProgramsAreWhole`. `as_prepare_load` takes the pieces of a
  space one after the other above all that was given out before, so the pieces
  of a space are in order and two spaces apart (`Placed`); this needs that the
  sum in `ram_stealmem` does not wrap around, so it, and with it
  `MemoryIsPrivate`, is conditional on `SizesFit`, and the lemma on
  `DefinedRegion` shows that such a segment's pages fit (`Fitting`). Further, an address is as
  far into its piece as into its region, so no two addresses share a place
  (`OwnPlaces`, from lemmas on pages). That an entry of the TLB is right needs
  that the TLB is empty while a space is being defined and has nothing for the
  page of the fault being handled (`TlbKept`); that a load is whole needs that
  an address has not wrapped around while the bytes before it are below
  `UserTop` (`LoadKept`). Assumed: a program in user mode addresses user memory
  only, which the processor sees to.
* **PanicProofs.** `PanicIsOrderly`. `evil` is at least the number of every
  stage tried, a thread between test and assignment still finds it as tested, and
  a thread in a stage finds only smaller ones tried (`Tied`). This holds of a
  panic by itself (`LoneInv`). With several it fails until one of them has
  dropped the others: a thread with interrupts off goes from its test to
  `thread_panic` undisturbed (`Firm`), after that it is the only one left, and
  `Tied` holds again of what is tried from `alone` on (`AloneInv`). During boot
  only the main thread does anything (`BootInv`), and once the console is attached
  the delay buffer is empty (`OutInv`).

A proof is about a component's own specification (`PanicSpec` and the like); a
step of a composed one, such as `AllNext` of MCPrograms, is a step of one
component that leaves the variables of the others alone.

Only model-checked: liveness (`NothingHangs`, `RequestsFinish`, ready threads
run, sleeps end), which is outside the prover's reach; `ListsSound` and what
else says that the filtered run queue is a sequence, which takes induction over
sequences; what a recursive definition computes (`PrintfExact`, `HeapSound`,
`ContainersSound`, `MenuSound`, `DevicesSound`); and the properties of the
emulator, the bus and the file systems.

## Not modelled

Formatting of messages, `strerror` texts, boot assembly and the user programs
are not a subject. Within modelled parts: `ioctl`s; the directory's own blocks,
open counts and `stat` of SFS; the compute threads of `tt3`; the
menu's mount commands (Vfs has the calls they make); the panics of the tests
when a fork fails; `print_run_queue`; the network card; `asst1/stoplight.c`, a
stub. `lser_irq` and a directory scan are single steps, which is what the
interrupt level and the serialised runs make them.
