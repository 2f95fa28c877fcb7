# A verification project for the OS/161 kernel of COMP3231

The repository is one student's work in UNSW COMP3231 (Operating Systems): four
copies of the OS/161 teaching kernel, one for each assignment, and a built
`root/`.  OS/161 is a small Unix: a multiprocessor kernel with kernel threads,
spinlocks and sleep primitives, processes with `fork`/`exec`/`waitpid`, file
tables, virtual memory on a MIPS software-filled TLB, a VFS layer and a simple
file system.  What differs between the trees is the student's work:

| tree | what is new in it |
|------|-------------------|
| `asst0-master` | nothing (the warm-up) |
| `asst1-master` | `kern/asst1/`: concurrent adders, two locks, dining philosophers, a bounded buffer with shutdown |
| `asst2-master` | `kern/syscall/file.c`: open, read, write, lseek, close, dup2 |
| `asst3-master` | `kern/vm/vm.c`, `kern/vm/addrspace.c`, `kern/arch/mips/vm/unsw.c`: page tables, TLB faults, address spaces; on top of a kernel that has processes and file tables |

The modules model `asst3-master/kern` for the shared kernel (it is the most
complete; `synch.c` is the same in the three later trees) and
`asst1-master/kern/asst1` for the first assignment.  The file calls of
`asst2-master` are modelled in the form they have in `asst3-master`.

## 1. Inventory

How the parts depend on each other, from the bottom up: the **thread system**
runs threads; **semaphores, locks and condition variables** put them to sleep
and wake them on wait channels; every part above uses these and nothing else to
wait.  The **process table** keeps parents and children apart with one lock and
one condition variable per child; `fork` copies the **address space** and the
**file table**; open files hold references to **vnodes**, which file systems
reclaim; interrupts of **devices** wake their readers by semaphores.  The
**exercises** of assignment 1 are clients of the sleep primitives, started from
the kernel's menu.

| component | state | operations | hard behaviour | what makes it correct |
|---|---|---|---|---|
| Thread system (`thread/thread.c`, `clock.c`) | per cpu: run queue and its spinlock, idle flag, current thread, zombies, pending IPIs; per thread: state, cpu, saved context; wait channels | fork, yield, sleep, wake one/all, exit, switch, idle, hardclock, migration, IPI | several processors, interrupts on an idle processor, locks handed across a context switch, a migration that reads queue lengths and acts later | a thread is in one place; no stale context is loaded; `curcpu` does not change under a thread; no ready thread waits for an idle processor; ready threads run |
| Sleep primitives (`thread/synch.c`) | semaphore count and sleepers; lock holder and sleepers; condition variable's sleepers | P, V, acquire, release, wait, signal, broadcast | barging: a newcomer takes what a woken thread was woken for; `cv_wait` releases and sleeps in two steps | counting semaphore, monitor; no lost wakeup |
| Processes (`proc/pid.c`, `proc/proc.c`, `syscall/proc_syscalls.c`, `main/menu.c`) | hash table of pids, next pid, count; process structures | fork, waitpid, _exit, the menu's program runner | parents and children exit in any order; pids wrap and collide; a pointer kept across `cv_wait`; fork fails half way | each status is delivered once, to the parent; entries belong to somebody; the table's count is right; allocation ends |
| Exercises (`asst1/*`) | counters, two locks, `status[]` and per-philosopher semaphores, a ring of items | their threads' loops, start and clean-up | lock order, unlocked increments, hand-over of a grant, full against empty ring, shutdown through the ring | no deadlock, exact counts, exclusion, FIFO, nothing used after it is destroyed |
| Open files and file tables (`syscall/openfile.c`, `filetable.c`, `file_syscalls.c`) | reference counts, offset and its lock, descriptor tables | open, read, write, lseek, close, dup2, fork copy | shared offsets, close while another process reads, placement that fails | counts exact, no use after free, offset updates atomic |
| Assignment 2 file calls (`asst2 .../file.c`) | per-process table, open file nodes with locks | the same, other code | failure paths | a failed call leaves the table as it was |
| Virtual memory (`vm/vm.c`, `vm/addrspace.c`, `arch/mips/vm/unsw.c`) | frame table, two-level page tables, regions, TLB | allocate and free frames, fault, copy, destroy, define regions | contiguous search at the ends of memory, memory that runs out in a copy, permissions from the wrong region | a frame has one owner; a copy equals the original; a fault maps what the region allows |
| Vnodes and SFS inodes (`vfs/vnode.c`, `fs/sfs/sfs_inode.c`) | reference count, table of loaded inodes | incref, decref, load, reclaim | reclaim against a new lookup, I/O error in reclaim | one vnode per inode; no vnode freed in use |
| Devices (`dev/...`) | one-character buffers, disk request, semaphores | interrupt handlers, start and wait | interrupt before the waiter waits | no lost character, one request at a time |
| Hangman | waits-for edges | wait, acquire, release | cycles | not built into any configuration |
| Spinlocks, VFS names, exec, heap, boot, libraries, tests, userland | | | | see section 8 |

`PROJECT.json` lists the same components with their files, and under `hazards`
each place where the code could go wrong in a way a test would hardly reach,
with the property that watches it.

## 2. Plan

Order of work, most important first.  Steps 1 to 8 are done.

1. `PidTable` (with `ProcFamily`, the abstract family of processes): processes
   are the kernel's richest shared state.  Inductive invariant and refinement
   proved, and that `pid_alloc`'s loop ends.
2. `Scheduler`: the thread system on several processors.  Inductive invariant
   proved, and with it that no assertion fails.
3. `Semaphore` (with `CountingSemaphore`) and `Monitor` (with
   `ConditionMonitor`): both proved, as refinements too.
4. `TwoLocks`, `Maths`, `ProducerConsumer` (with `BoundedBuffer`), `Dining`
   (with `Forks`), composed by `Exercises`.  An inductive invariant for each and
   both refinements proved, over `Exercises`.
5. `OpenFiles` (with `SharedFiles`, tables of descriptors over shared seek
   positions): openfile, file table and the calls on them, several processes
   that share files over `fork`.  Inductive invariant proved: the reference
   count is the number of references, so nothing is used after it is freed; and
   the refinement of `SharedFiles`.
6. `FrameTable`, the allocator of frames, and `AddressSpaces` on top of it: page
   tables, faults, exec, fork, exit and the TLBs, with memory that runs out
   anywhere (with `PrivateMemory`, a memory of its own for every process).
   Inductive invariant proved: who has which frame, and what the TLBs hold; that
   the search for a run of frames finds one; and the refinement of
   `PrivateMemory`.
7. `SfsVnodes` (with `UnixFiles`, names and open files): vnode reference counts,
   reclaim, the life of inodes, link counts, sync, unmount.  Inductive invariant
   proved: reference counts and link counts are exact; and the refinement of
   `UnixFiles`.
8. Proofs of the exercises, the slots of `ProducerConsumer` first.
9. Next: the buffers that the console's and the serial line's interrupt
   handlers share with readers and writers, and the disk's request (`dev/`).

Runs are kept few: one for each module or composition, a second one only where
liveness needs smaller bounds than safety.

## 3. Modules and the code

Each `MC` module only declares model values; its `.cfg` gives the constants.
`PROJECT.json`'s `map` names the lines of every definition.  Definitions whose
names end in `_Something` right above another one (`pi_get_SlotOnly` above
`pi_get`) are plausible bugs: the model with the bug must break the property
that the mutant table pairs it with.

**PidTable** - `pid.c` runs entirely under `pidlock`, so a critical section is a
step; `pid_wait` is cut at its `cv_wait`.  `ForkAlloc` is `proc_fork` up to the
new pid, `ForkStart`/`ForkFails` what follows (`thread_fork`, or `proc_unfork`
after a failure), so that a forking parent is interleaved with everybody else.
`Exit` is the whole of `pid_setexitstatus`: the children's parent links, the
entries of children that have exited, the exiting process's own entry, the
broadcast.  The menu is one more process that may start programs and must wait
for them; its failing `thread_fork` is `MenuForkFailed`.

**ProcFamily** - what the above promises: processes, their children not yet
collected, the status each child left; a status is delivered once, to its parent.

**Scheduler** - one control point per processor.  A spinlock makes what it
protects one step, except where the code keeps it across steps: run queue locks
across the context switch, the wait channel's lock until the sleeper is queued.
Interrupts arrive where the code has them on: in threads and while idle.
`thread_switch` is `Yield`/`BeginSleep, SwitchSleep`/`Exit`, then `SwitchTo` or
`GoIdle ... Relock`, then `Finish`; `thread_consider_migration` is the six
`Migrate...` actions, one for each queue lock it takes.  `saved[t]` says whether
`t_context` is the place to resume `t` at; loading any other context sets
`panicked`, as a failing `KASSERT` does.

**Semaphore, Monitor, WaitChannel** - a critical section of the primitive's
spinlock is a step; wait channels are sequences.  `cv_wait` is four steps:
take `cv_wchanlock`, release the lock, sleep (which releases the spinlock),
return through `lock_acquire`.  Interrupt handlers may call V.

**CountingSemaphore, ConditionMonitor** - the promises: a count and a set of
callers of whom one gets through while units are left; a lock with a queue of
waiters, entered in the same step that gives the lock up.

**OpenFiles** - `of` is the heap's openfile objects, `ft` the tables, `pc`,
`hand` and `arg` what a process's one thread is doing: the reference it holds
outside any table, and its locals.  Steps end at the critical sections of
`of_reflock` and `of_offsetlock` and at `VOP_READ`/`VOP_WRITE`, where others can
interfere.  A call that closes goes through `Decref`, or `DecrefLast` and then
`Destroy`, as `openfile_decref` lets go of its lock before it destroys.
`filetable_copy` and `filetable_destroy` are one step a descriptor (`Copy`;
`Drop`, or `DropLast` and `DropDestroy`); `ForkFails` is `proc_unfork`, which
destroys the child's table, `Exit` destroys the process's own.  A vnode is
either seekable or not; what a file holds is left out, so a transfer moves any
number of bytes and a seek gives any result.
**SharedFiles** - what user programs see: the lowest free descriptor for `open`,
one atomic `fork`, one atomic close that frees what nobody names, positions
that belong to the open file and not to the descriptor.

**FrameTable** - `frame_table` as it is, with the two flags of a frame; each
call runs under `frame_table_spinlock`, so an operator says what one call finds
and what table it leaves.  `alloc_multiple_frames` is stated twice: as the
lowest run of free frames that the search can meet, which the other modules use,
and as the loop itself (`Scan`), which `ScanFindsFit` compares with it in every
reachable table.

**AddressSpaces** - a page number is a pair of indices, a page holds one value,
and a second-level table is the content of a frame like any other, so that a
table that has been freed and is used again can be told from one that has not.
Each process has one thread and each step of it uses the frame table at most
once: `vm_fault` is a fault that finds its table (`FaultMapped`, `FaultAbsent`)
or makes one (`FaultInitPT`), then `FaultAddPTE`; `loadexec` is `Exec`, one
`LoadPage` after another with the faults they take, `LoadDone` or `LoadFails`,
and `CopyArgs`; `as_copy` is `Fork`, `CopyTable` and `CopyPage`; `as_destroy` is
`DestroyTable` for each table and `DestroyRoot`.  All of these are interleaved
with other processes on a processor that switches (`Switch`, which flushes the
TLB unless the next thread has no address space), and with the rest of the
kernel taking and freeing blocks of pages.  Every allocation may fail, that of an
object smaller than a page at any time.  The kernel ends in `kernel` where the
code panics, stores through NULL, or uses a table that has been freed.

**PrivateMemory** - the promise: each process has pages that hold what it stored
last, a fork copies them, a program starts with its file's data and zeros.

**SfsVnodes** - `vn` is the table of vnodes in memory, `dir`, `disk` and
`diskmap` the disk, `freemap` the map of used blocks in memory.  What is done
with `vfs_biglock` held is a step up to the `VOP_DECREF` it ends with
(`Lookup`, `Creat`, `Link`, `Remove`, `Rename`, `Write`, `Truncate`, `Sync`).
A drop is cut where the code can be overtaken: `vnode_decref` decides with only
the vnode's spinlock held (`Close`, `CloseLast`, `Drop`, `DropLast`),
`sfs_reclaim` then takes `vfs_biglock` and looks again (`ReclaimBusy`,
`Reclaim`), and only then writes the inode back or frees it (`Erase`, or
`EraseFails` after an I/O error).  The actions whose names say so are failures:
a directory entry that is not written, no vnode, a truncation that fails half
way.  Only the size of a file is kept, not its contents.  The directory is
written through, and the freemap goes to the disk at a sync; nobody reads it
there before the next mount, so it is kept on one side at a time.
**UnixFiles** - the promise: a file keeps its size while it has a name or
somebody has it open, and no longer.

**TwoLocks** - each thread's body is a script of acquires, critical sections and
releases, so the order of the locks is data.  **Maths** - `counter = counter + 1`
is a load and a store; the statistics are updated after the lock is released.
`performed` is no variable of the code: it counts the increments of this call,
for the properties to compare with the statistics that are printed.
**ProducerConsumer** - each P, V, buffer access and index update is a step; the
main thread sends the items that stop the consumers through the same buffer.
**Dining** - what happens under the mutex is split at every access to
`status[]`, so that exclusion is a result and not an assumption; `eat()`'s two
increments are loads and stores.  **Exercises** - the menu's commands `1a` to
`1d`: one per behaviour, since the menu's thread waits for each to return and
they share no state; `1a` may be given twice, since its counters are statics.
`MCSpec` lets the indices of the buffer start anywhere for `1c` only.
**BoundedBuffer**, **Forks** - the promises of the buffer and of the table.

## 4. Runs

| run | instance | what it shows |
|---|---|---|
| `pid` | kernel process and 2 user processes, 3 slots, pids 2-5, `thread_fork` of the menu may fail | `PidInv` and its most telling part (`WaiterSafe`), `AllocTerminates`, refinement of `ProcFamily`, `WaitReturns` |
| `pid_menu_fork_failure` | the same with 3 user pids | **violation**: a menu command whose `thread_fork` fails panics the kernel (section 7) |
| `sched_safety` | 2 processors, 2 boot threads and 2 more that are forked and exit; symmetry | `SchedulerInv`, and its consequences `NoPanic`, `OnePlace`, `ContextSaved`, `CurCpu`, `NoLostUnidle` |
| `sched_live` | 2 processors, 3 threads, no exits | `ReadyRuns` |
| `semaphore` | 4 threads, up to 3 units, 1 at first | `SemaphoreInv`, `NoLostWakeup`, `ImplementsCounting` with its fairness |
| `monitor` | 4 threads | `MonitorInv`, `MutualExclusion`, `NoLostWakeup`, `ImplementsMonitor` with its fairness |
| `open_files` | 3 processes, 2 openfiles, 2 descriptors each, a seekable vnode and one that is not; symmetry | `OpenFilesInv`, `RefcountExact`, `TransfersAtomic`, refinement of `SharedFiles` |
| `exercises` | 2 rounds; 3 adders, 4 increments, twice; 2 producers x 2 items, 2 consumers, 2 slots; 4 philosophers x 2 courses | `NoDeadlyEmbrace`, `CountExact`, `ItemsOnce`, `ImplementsBuffer`, `GrantsKept`, `NobodyForgotten`, `ImplementsForks` (which has the exclusion of neighbours), `CleansUpLast`, `CommandReturns` |
| `maths_again` | 2 adders, 2 increments, `1a` given twice; the other commands as small as they can be | **violation**: `ReportsOwnWork`, the second call reports the increments of the first (section 7) |
| `memory` | 2 processes on 1 processor, 8 frames, 2 x 2 pages, a text and a data segment and a stack, a kernel block of 3 pages, TLB of 1; symmetry | `MemoryInv`, `FramesOwned`, `TLBCoherent`, `ScanFindsFit`, refinement of `PrivateMemory` |
| `memory_double_free` | the same with 5 frames and no block | **violation**: a fault that runs out of memory frees a table twice (section 7) |
| `vnodes` | 3 threads, 2 names, 2 inodes, 2 vnodes; symmetry | `VnodesInv`, `LinksExact`, refinement of `UnixFiles` |

**Bounds, and why they are enough to be interesting.** In `pid`, three slots
are filled by the kernel and two more processes or zombies, and four user pids
on three slots make pids collide in a slot and wrap; a third user process adds
states but no new relation (parent, child and a stranger are there with the
menu). In `sched_*`, two processors and two extra threads give a migration
something to move, a victim that must not move (the current thread) and
leftovers. Four threads on a semaphore or monitor are one that holds, one that
was woken, one that sleeps and one that barges in. The buffer of two slots
wraps three times with the six items that pass through it (four made, two
that stop the consumers) and is full and empty on the way. Four
philosophers can eat two by two, with two courses one can be overtaken; the
code's five were checked with one course each. Semaphores' counts are capped by
`MaxCount`; `maths` runs at most `Calls` times; pid statuses are one value,
since nothing branches on them.

Deadlock is checked in every run but those of `PidTable` and `Monitor`: there
everybody may legitimately stop (all processes wait for children that never
end, all threads wait for a signal nobody sends).  In `exercises` the
returned command is a state that stutters, and any other stop is an error.

In `open_files` three processes are one that forks, the child it is making and
a third that shares, closes or reads at the same time; with two descriptors a
table can be full, and `dup2` can replace the other openfile or fill the table
with one; two openfiles are the one replaced and the one that replaces it.
At most two calls are under way at once (`MaxCalls`, a state constraint):
one that disturbs and one that is disturbed, while the third process shares
their files or is a child half made; the theorems have no such bound, and with
three calls at once (1.1 million states) nothing was violated either.
Positions are 0 and 1: a transfer that moves nothing and one that moves
something.  Two processes with three positions and two access modes were
checked as well.  All files are write-only, so that each read is a call with a
wrong access mode.

In `memory` eight frames are one process with everything it can have (root, two
tables, three pages) and not quite a second one, so memory runs out at every
allocation, and a kernel block of three fits only where frames next to each
other have been given back.  Two pages in one table and one in another make
tables that are shared by pages and tables that are not.  The constraint
`Overlap` bounds what is under way at once: among the first two address spaces
any fault during any call, and two calls unless one is a program being loaded;
with a block or a third address space one call at a time, or a block and a fork.
A TLB of one entry evicts at every second page.  The program has two segments:
a copy of three regions loses one (see section 8).  `RunProgram` is also
reached by processes that share the processor, so a stale TLB is there to be
hit.  Two processors with two address spaces, no block and a frame less were
checked completely (no violation); so were 640,000 states of two processors with
three address spaces.

In `vnodes` two names are needed for a second link and a rename, two inodes and
two vnodes run out and are used again for other files, and three threads are
the one that reclaims, the one that picks the vnode up meanwhile, and one that
removes the name or drops its reference.  At most three threads have a vnode,
one that an I/O error has lost counting as two (`FewBusy`); `SfsVnodesProofs` has
no such bound.  The disk is unmounted and mounted at any time it can be.

## 5. Fairness

* `Scheduler`: **strong** fairness of the steps with which a processor goes on
  (`Continue`), because a spinlock is a test-and-set that may be found taken
  over and over; strong fairness of `Yield`, the clock tick of a processor that
  runs a thread (the hardware timer; it can be disabled by the path being in
  the kernel); weak fairness of taking a pending IPI.  **Nothing** is assumed of the clock
  of an idle processor, so a lost IPI is a lost thread.  From this `ReadyRuns`:
  a ready thread is run in the end.
* All modules above it use `ReadyRuns` as weak fairness of each thread that is
  able to go on.  No thread is obliged to fork, wait, exit, signal or post.
* In the exercises each thread has finitely much to do, so a lock or semaphore
  that is passed to others is passed finitely often: weak fairness is enough
  although the primitives do not queue fairly.  The menu's thread is one of them:
  it forks the others and waits for them.

## 6. What is proved

All theorems are for any values of the constants allowed by the named
assumptions (`ConstantsAssumption`, `NullAssumption`, `ExercisesAssumption`,
`FrameAssumption`, `SpacesAssumption`, `ImageAssumption`), that is: any number of
processes, slots, pids, threads, units, items and frames.  Where a theorem needs
more, it says so in its `ASSUME`.

* **`PidTableProofs`**: `PidInv` is inductive, hence `PidTableCorrect`,
  `TypeCorrect`, `WaitersSafe`, `TableConsistent` and, when the menu's
  `thread_fork` does not fail, `NeverPanics`.  What one would like to know
  (`WaiterSafe`: the pointer `them` that `pid_wait` keeps across `cv_wait` stays
  good) is not inductive: the entry of a child could be dropped by its own exit
  if it had no parent (`EntryOwned`, `ParentAlive`), by a second process with the
  parent's pid (`PidsDistinct`), by a fork that fails half way
  (`ForkOwnsEmbryo`), or be replaced by a new pid in the same slot
  (`ProcHasEntry`, and the probing of `Skips`).  The conjunction of those with
  `CountExact` carries itself through every step.  `FamilyImplemented`: every step
  is one of `ProcFamily` or is not seen.  `Child` says what makes a pid one of a
  process's children in a table, and each kind of step is a lemma on how it
  changes: a fork adds one, a failed fork and a wait take one (`OneKidLess`), an
  exit takes all of the process's own and gives its status to its parent's.  It
  takes one thing more, that an entry has a status exactly when the process has
  exited (`StatusInv`).  `AllocEnds`: while the table is not full, the loop of
  `pid_alloc`, whose assertion allows it as many rounds as the table has slots,
  meets an empty one.  It needs that there are at least as many user pids as
  slots (the code has 32766 and 128): then as many pids in a row lie in every
  slot, also where they wrap from `PID_MAX` to `PID_MIN` (`OneOfRow`, `Reaches`).
* **`SchedulerProofs`**: `SchedulerInvariant`, and from it `NoAssertionFails`,
  `ThreadInOnePlace`, `QueuedContextsSaved`, `CurCpuIsThisCpu` and
  `IdleIsInterrupted`, for any number of processors and threads.  That no
  assertion fails is the result, and it is far from inductive.  `thread_switch`
  may take a thread that is still on its stack elsewhere, unless a thread whose
  context is not saved yet waits on the processor whose stack it is on
  (`Placed`), whose run queue lock is held until it is saved (`LocksHeld`).
  `thread_consider_migration` uses counts it has read without a lock, and
  asserts that the queue is as long as it has read: it is at least that long
  because only its own processor takes from a run queue (`JobFits`).  The thread
  it must not give away is the current one (`CurrentSane`).  What is on a run
  queue, among the zombies or in the hands of a processor has the state and the
  processor this place stands for (`ListsSorted`) and is there once
  (`NoneTwice`); so, from the state of a thread one knows its place, which is
  `OnePlace`.  That an idle processor with threads has an IPI coming is
  inductive with `IdleFlag`, by which whoever adds a thread sees whether to send
  one.  Each action has its lemma (`SwitchToInv`, `MigrateGiveInv`, ...);
  `NothingMoves`, `SwitchOut`, `AddTail`, `RemHead`, `Split` and `Joined` are what
  they share.
* **`SemaphoreProofs`**: `SemaphoreInv` is inductive: the wait channel lists
  exactly the sleepers, and while there are any, every unit has a woken thread
  coming for it.  `SemaphoreCounts`: every step is a step of the counting
  semaphore or a stutter.
* **`MonitorProofs`**: `MonitorInv` is inductive (`LockExcludes` and
  `LockWakeupsReach`, while the lock is free somebody who sleeps on it has a woken
  thread ahead, are the parts one wants); `MonitorRefines`: every step of lock and condition variable is a step of
  the abstract monitor, where giving up the lock and becoming a waiter are one.
* **`OpenFilesProofs`**: `RefcountsExact`, `PositionsSafe`, `Invariance` and
  `DestroyedAlone`, for any number of processes, openfiles and descriptors.
  `RefcountExact` counts places: every descriptor of every table, and every
  hand.  The lemma `Change` says what one place that changes does to the
  counts; `OneChange`, `Moves`, `CountMore` and `CountLess` are the actions'
  uses of it.  It is not inductive alone: one must know which calls have
  something in hand and that one that destroys has the last reference
  (`HandInv`), that a table being copied or destroyed is nobody else's
  (`TableInv`), and that the slots to be filled are empty (`EmptyInv`), else an
  overwritten descriptor would leak a reference.  `TransfersAtomic` needs the
  counts: an openfile whose position is in use is not destroyed, since its user
  has a descriptor for it.  `DestroyedAlone` is the assertion of `lock_destroy`
  and the reason why `openfile_destroy` may run without a lock.
  `SharedFilesImplemented`: with the table of a child that is still being made
  left out (`Visible`), every step is one of `SharedFiles` or is not seen.
  `PlaceFile` is open, `Close` and each descriptor an exit drops is close,
  `DupPlace` and `DupReplace` are dup2, `Update` and `Seek` move a position,
  `ForkDone` is fork.  Beyond the invariant this takes `SeenInv`: what open has
  made is nobody else's and at position 0, dup2 copies a descriptor that is
  still there, and fork has copied what it has passed, although the parent's
  table is read one descriptor at a time.
* **`SfsVnodesProofs`**: `VnodesCorrect` and `LinksCorrect`, for any number of
  threads, names, inodes and vnodes.  The two are inductive only together
  (`IInv`): a vnode that is erased with no link has no name, because its link
  count is right (`LinksExact`), and an inode with a name or a user keeps its
  vnode, because the reference count is right (`RefsExact`); that nobody comes
  between the second look at the count and the freeing is `CleanupAlone`, which
  rests on `vfs_biglock` (`HandInPlace`).  `Install` says what it takes when one
  vnode changes, `RefsStep` what one thread's references do to the counts;
  `Gets`, `Drops` and `TakeAndDrop` are its uses, `Use` and `Section` the actions
  on an open file and those that end in a drop.
  `FilesImplemented`: every step of `SfsVnodes` is a step of
  `UnixFiles` or changes nothing that is seen (`Unseen`), whatever is loaded,
  dropped, reclaimed, synced or fails meanwhile.  A file's size is what its vnode
  says if it has one and what is on disk if not (`CurrentIs`, `Put`); that the
  erasure of an inode is not seen rests on `IInv`, as it has no link, so no name,
  and nobody has it open.
* **`ExercisesProofs`**: all of `exercises` but the liveness, for any
  number of rounds, adders, increments, producers, consumers, items, slots,
  philosophers and courses.  `ExercisesSafe` is the invariant, five of them: one
  for each exercise, each carried through its own steps, while the other commands
  leave it alone (`MenuSteps`).
  * Two locks, `LocksInv`: a thread has a lock exactly at the steps between its
    acquire and its release of it.  `NoEmbrace` follows: whoever waits for `a`
    while it has `b` waits for one who is past both.
  * `Maths`, `MathsInv`: only the adder with the lock is at the steps from load to
    store, what it has loaded is still the counter, and the counter is the sum of
    the increments and those not yet counted (`CountsExactly`).  The sum is the
    loop of `maths()`; `Total` is a recursive function, whose steps are found
    without induction (see below).
  * The buffer, `BufferInv`: each slot is counted in `empty` or `full`, or belongs
    to one who has taken it from the one and not yet given it to the other; one
    thread is inside; every item is at one place, in a hand, in a slot, received
    or still to be made, as numbers are given in order (`Fresh`, `Once`), and the
    items that stop the consumers come last (`StopsLast`), when the producers
    have finished (`Phases`).  `ItemsAreOnce`, and `BufferIsFifo`: the slots from
    the first filled one on are the queue of `BoundedBuffer`.
  * Dining, `TableInv`: what `status[]` is at each point of a philosopher's code,
    that one at most is under the mutex, what `test` has found there, that no two
    neighbours eat, and (`Watched`) that a hungry philosopher who could eat is
    about to be tested by whoever is under the mutex.  Without the last, a grant
    could be forgotten between the two calls of `test` in `put_forks`.
    `EveryGrantKept`, `NobodyIsForgotten`, and `ForksExclusive`: a grant is the
    step that takes both forks, the store of `THINKING` puts them back.
  * The count of forks, `CountInv`: a fork was used as often as its two
    philosophers have eaten with it, less what they have loaded and not stored;
    no one else increments it meanwhile, as neighbours do not eat together.

  `CleanUpIsLast` needs all of them: what is destroyed at the end of a command is
  destroyed when nobody is left to use it, and the report is of the final counts;
  in the first call of `maths` of that call's increments (`OwnInv`: each adder's
  statistics are behind by the one increment it has not counted yet).
* **`AddressSpacesProofs`**: `MemoryInvariant`, and from it `FramesAccounted`
  (`FramesOwned`), `TranslationsCoherent` (`TLBCoherent`) and `MemoryTypes`, for
  any number of processes, processors, frames and pages, any program, and blocks
  of any sizes.  That a marked frame has one user is not inductive: `as_destroy`
  frees what it finds in the tables, so no table may hold a frame that another
  table, another address space or a block has, and no table may be another's page
  (`SpacesTidy`, `Accounts`; `Accounts` says too that the `not_last` flags of a
  block end where it ends, or freeing it would free its neighbour).  The address
  spaces that a call has in its hands count as well, and which those are depends
  on where the process is (`HasSpaces`); so does what the second half of a call
  takes for granted (`Calling`): `vm_addPTE` that the table is there and the entry
  empty, and if it must give the table back, that the table is empty; `as_copy`
  that the entry to be written is empty; `vm_freePTE` which process frees.  A
  table that was freed while it is still pointed to is in `gone`: it is no
  longer the address space's, and the step that would use it for what it has
  become is the end of the kernel in the model.  `TLBCoherent` is a conjunct,
  since a store goes where the TLB says: that it stays within the process's own
  pages, and does not write to a table, is what keeps the rest.  Steps are stated
  on operators that take the memory as a parameter (`FramesIn`, `TidyIn`, ...):
  `Others` says that a step which writes only frames that its process has, or
  that were free, leaves everybody else's address spaces as they are, and
  `Assemble` that the process, its processor and the books are then all there is
  to look at.  `BalancedTake`, `BalancedGive`, `BalancedSwap`, `BalancedNew` and
  `BalancedOld` are the books' five kinds of changes; `AddsTable`, `AddsPage` and
  `DropsTable` say what they do to an address space.
  `ScansFindFits`: in any frame table the loop of `alloc_multiple_frames` ends, and
  with the lowest run that it can meet.  Each of its rounds looks at the next
  frame (`PairMoves`), whether it begins a new run or goes on with one, so no round
  comes twice and there is a last one (`ScanExists`); what it has passed over has
  no run, as each begins with or holds a marked frame (`Met`).

  `MemoryIsPrivate`: `ImplementsPrivateMemory`, for programs of at most two
  segments.  With more it is false, as `as_copy` loses all regions but two, and a
  child then does not have what its parent has (section 8).  The books say whose
  a frame is, and not what is in it, so a second invariant, `ViewInv`, is
  inductive on top of `MemoryInv`: every page of an address space that is not
  being destroyed holds a value, or is not there and shows zeros; in a load, every page that is done holds
  what the file has for it; in an `as_copy`, every page that is done holds what the
  parent's page holds, and the regions are the parent's.  The memory of a process
  is read from the address space it had before while it loads a program, so that a
  load that fails shows nothing.  `OneMoves` says that a step that is `Alone`,
  touching only frames of its own process and free ones, shows to nobody else;
  with it a store is `Put` (one page changes, and shows where a region grants it), a
  fault, an allocation and a free of anything are `Looks` (all pages show what
  they did), and `LoadDone` and `ForkDone` are where a new memory appears.
  `StepView` puts the steps together.

`SemaphoreProofs` and `MonitorProofs` both begin with the lemmas on sequences
without repetition that wait channels rest on, so that each is complete.

Only model-checked: liveness and the fairness part of the refinements (the
prover has no rule for ENABLED).

The library's theorems on induction and recursion take operators as parameters,
which the prover cannot instantiate.  The two recursions of the models that
the theorems are about (`Scan`, `Total`) are proved about without them: a function
that satisfies the equation is shown to exist, and what holds of it by the least
number at which it would fail (`LowestIn`, `LeastOf`).

## 7. Findings

`common_prog` in `kern/main/menu.c:129` calls `proc_destroy` when `thread_fork`
fails.  The process has had a pid since `proc_create_runprogram`, and
`proc_destroy` asserts that it has none (`kern/proc/proc.c:185`): a kernel that
is short of memory panics where it should print a message.  `sys_fork` uses
`proc_unfork` in the same place.  Run `pid_menu_fork_failure` reaches it.

`vm_fault` in `kern/vm/vm.c:217` frees the second-level table that it has just
made when `vm_addPTE` finds no frame, but leaves the pointer to it in the
first-level table.  The flag that guards it is there to "solve double free"
(`vm.c:127`); instead `vm_freePTE` frees the table again when the process exits,
and `free_frames` panics, or a later fault writes into a frame that may be
somebody else's by then.  Run `memory_double_free` reaches the panic.  In run
`memory` the kernel stops there (`kernel` is no longer `"running"`), so its
properties are about what happens up to that point.

`maths()` in `asst1-master/kern/asst1/math.c` "Initialises the counter variables"
by its own comment (line 115); it does not, and they are statics.  Given `1a` a
second time, the adders find the counter at `NADDS` and stop at once, and what is
printed of them (lines 178 to 187) is what those of the first call did.  Run
`maths_again` shows it: `ReportsOwnWork` fails when the second call returns.
`CleansUpLast` says of the first call that what it prints is its own adders' work,
and of every call that the numbers add up to `NADDS`.

Met while modelling and not a contradiction of anything the repository says, so
not a run:

* `as_copy` links every copied region behind the first (`vm/addrspace.c:125`), so
  of three regions one is lost; the model does the same (`CopyRegions`), with
  two segments it makes no difference.
* Every page gets the write permission of the region that `vm_fault` looks at
  first, and entries made while a program is loaded keep the permission of the
  load.
* The search for several frames never tries the last position
  (`unsw.c:240`): `Starts`.  A block that would end with RAM is not found.
* An I/O error in `sfs_reclaim` leaves the vnode in the table with a reference
  that nobody has: the file system cannot be unmounted any more (`lost`).
  `sfs_sync` ignores what `VOP_FSYNC` returns.

## 8. Not modelled, and why

* Assignment 2's file calls (`asst2-master/kern/syscall/file.c`): an earlier,
  unfinished version of what `OpenFiles` models, sequential, since every process
  has a table of its own and shares nothing.
* Devices: the one-character buffers of console and serial line, the disk's
  request, the clock (section 2, step 9).
* Of the frame allocator: a request for more pages than RAM has frames, for
  which the unsigned bound of the search (`unsw.c:240`) would wrap.
* Of virtual memory: the condition of `vm.c:198`, whose product of a size in bytes
  and the page size wraps for regions of 240 pages and then loops for ever; the
  pages of smaller regions do not meet it.  Permissions other than write; that
  `sbrk` is not there.  Addresses outside user space are turned away before.
* Of SFS: the vnode of the root directory (also counted by current
  directories), data blocks and what is in them, `sfs_itrunc`'s walk over
  indirect blocks, crashes (the disk is repaired by a program in userland), and a
  rename that fails twice, which panics by design.
* Of open files: the failures that change nothing (a bad descriptor, a path
  that cannot be copied in, no memory in `open`), the overflow of a 64-bit
  offset, and `__getcwd` and `chdir`.
* Spinlocks and interrupt levels appear as what they exclude, in `Scheduler`.
* Creation and destruction of locks and semaphores: that their users destroy
  nothing in use is checked in `CleansUpLast`.  Allocation that fails while an
  exercise is set up panics by design and is left out.
* The consumer's escape when it has received 10000 items that are not what it
  expects (`SOMETHING_WRONG_COUNT`, `producerconsumer_driver.c:111`): the command
  makes 60 items.
* `pid_disown` has no caller outside the kernel's tests.
* VFS names, mounting, exec, ELF loading, the kernel heap, boot, traps,
  `kprintf` and the other libraries: sequential code over strings and memory
  layouts, where a unit test reaches as far as a model checker.
* Hangman is compiled into no kernel configuration.  Userland, manual pages,
  build files, the assignment 0 tree (a copy of the kernel) and `root/`.
