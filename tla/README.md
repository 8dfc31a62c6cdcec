# TLA+ models of the G20 operating systems project

The repository holds two programs: an `xv6-riscv` kernel extended with signals,
threads, mailboxes, semaphores, priorities and accounting
(`G20_Project1_xv6CustomizeSystemCalls`, called P1 below), and a simulator that
compares scheduling policies (`G20_Project2_2`, P2).  This directory keeps
TLA+ models of the kernel and of the simulator, the TLC configurations that check
them and proofs that TLAPS checks.

## 1. Inventory

| Component (source) | State | Operations | What makes it correct |
|---|---|---|---|
| Process table (`kernel/proc.c`) | `proc[NPROC]`: state, pid, parent, killed, chan, is_thread; `wait_lock`, `nextpid` | fork, forkprio, clone, exit, wait, join, kill, sleep, wakeup | no exit is missed, no slot is freed under a running stack, every process has a live parent, the dead are reaped once |
| Scheduler (`proc.c`, `swtch.S`) | `cpus[NCPU]`, p->lock held across `swtch` | scheduler, yield, sched, forkret | a process runs on one CPU at a time; RUNNABLE processes run |
| Semaphores (`proc.c`) | `semtable[NSEM]` | ksem_init, ksem_wait, ksem_post | units are neither made nor lost; no wake-up is missed |
| Mailboxes (`proc.c`) | msg_buf, msg_flag of each process | msgsend, msgrecv | messages arrive whole, once, at the right process |
| Signals (`proc.c`, `trap.c`) | handler, interval, pending, inflight, saved frame | sigalarm, sigsend, sigreturn, signaltick, signalcheck | the interrupted context comes back; accepted signals are delivered |
| Log (`log.c`) | header, log blocks, outstanding, committing | begin_op, log_write, end_op, commit, recovery | file system calls are atomic in the face of crashes |
| Buffer cache, sleep locks (`bio.c`, `sleeplock.c`) | buffers with refcnt in an LRU list | bget, bread, bwrite, brelse, bpin, bunpin | one buffer per block, one user per buffer |
| Files, inodes, directories (`file.c`, `sysfile.c`, `fs.c`) | ftable, itable, on-disk inodes and bitmap | open, close, dup, link, unlink, iget, iput, itrunc, balloc | reference counts are exact; nothing in use is freed |
| Pipes (`pipe.c`) | ring buffer, nread, nwrite, open ends | pipewrite, piperead, pipeclose | bytes in order; readers and writers are woken when an end closes |
| Disk driver (`virtio_disk.c`) | descriptor ring, in-flight table | virtio_disk_rw, virtio_disk_intr | descriptors are not shared; a request returns after its own completion |
| Memory (`kalloc.c`, `vm.c`, `exec.c`) | free list, page tables | kalloc, kfree, uvmalloc, uvmcopy, vmfault, exec | a page has one owner; failures roll back |
| Console, UART (`console.c`, `uart.c`) | input ring with three indices, transmit flag | consoleread, consoleintr, uartwrite, uartintr | input is not overwritten; writers are woken |
| Priorities, accounting (`proc.c`) | priority, rtime, stime, retime | setpriority, getpriority, waitx, getpinfo, update_time | times add up over a process's life |
| Traps (`trap.c`, `syscall.c`, `sysproc.c`) | trapframe | usertrap, kerneltrap, clockintr, syscall | killed processes do not return to user mode |
| Simulator (P2 `src/core`, `src/schedulers`) | run queues, clocks, per-process metrics | run_simulation, enqueue/pick/tick of MLFQ, lottery, EDF, custom | every process runs its bursts; metrics are consistent |

The components meet in three ways.  All of the kernel's blocking is `sleep` on
a channel with a condition lock and `wakeup` of everybody on it; `kill` and
`sigsend` wake sleepers without holding that lock.  `wait_lock` is shared by
exit, wait, join and the mailboxes and is taken before any p->lock.  `usertrap`
is the one place where killed processes exit and signals are delivered.

The hard behaviour is therefore: sleep and wake-up races under two locks, state
changes of a process by another CPU while it is between two lock sections,
slots, inodes, files and buffers that are freed and reused under a reference
count, calls that fail half way, and, for the disk, a crash between any two
block writes.  `PROJECT.json` lists these hazards line by line with the
properties that would catch them.

## 2. Modules

| Module | Models | Extended by |
|---|---|---|
| `Proc` | process table, scheduler, `user/init.c` | `MCProc`, `ProcProofs` |
| `Semaphore` | abstract: a table of counters | refined by `Ksem` |
| `Ksem` | the semaphore table on sleep/wakeup, with kill and sigsend | `MCKsem`, `KsemProofs` |
| `Channel` | abstract: one-place channels | refined by `Mailbox` |
| `Mailbox` | msgsend, msgrecv, and the owner's fork, exit, wait, kill | `MCMailbox`, `MailboxProofs` |
| `Signal` | alarms, signals, sigreturn, the tail of usertrap | `MCSignal`, `SignalProofs` |
| `AtomicDisk` | abstract: a disk that changes in whole groups of calls | refined by `Log` |
| `Log` | log.c with pinning, eviction, crash and recovery | `MCLog`, `LogProofs` |
| `BlockStore` | abstract: one copy of every block, one user at a time | refined by `Disk` |
| `Disk` | buffer cache, sleep locks and virtio driver over the device | `MCDisk`, `DiskProofs` |
| `Files` | file table, descriptors, pipes | `MCFiles`, `FilesProofs` |
| `Fs` | inodes, directories, blocks, file system calls, crash and ireclaim | `MCFs`, `FsProofs` |
| `FsInv` | the inductive invariant of `Fs` and the predicates of its proof | `FsProofs` |
| `AddressSpaces` | abstract: private memory that fork copies and exec replaces | refined by `Vm` |
| `Vm` | kalloc, page tables, lazy memory, fork, exec | `MCVm` |
| `Sim` | P2: main, workload parser, tick loop, MLFQ, lottery, EDF and custom schedulers, metrics | `MCSim` |

An operator commented "fault variant of X" is X with a plausible slip of the
code (a lock released early, a missing wakeup, a dropped test).  The
specifications do not use them; `PROJECT.json` pairs each with a property that
must fail when it replaces X.

### Proc
The variables are the fields of `struct proc`, plus `pc` (where a process is in
the kernel), `cpu` (`c->proc`), `waitLock` (the holder of `wait_lock`) and
`plock`.  A section that is under p->lock and touches only what that lock
guards is one step.  A lock is explicit where it outlives such a step:
`waitLock` across the scan and sleep of wait and across reparent, wakeup and
ZOMBIE in exit; `plock[s]` from the moment a process gives up RUNNING to the
moment its CPU is off its stack.  fork is three steps (slot filled, parent set
under wait_lock, RUNNABLE), because the code releases np->lock between them.
Slots are taken from all the free ones: allocproc's scan is not atomic, so it
need not find the lowest.  init runs the loop of `user/init.c`; every other
program makes any of the calls in `Calls`.  File and memory work in fork and
exit is left out; it fails (`ForkNoMemory`) or has no effect on the table.

### Ksem, Semaphore
A step is a section under s->lock; `sleep` drops that lock only while it holds
p->lock, so testing the counter and falling asleep is one step.  `Kill` and
`Sigsend` come at any time.  A woken process is "awake" until it has the lock
again.  The mapping to `Semaphore` forgets who is asleep and who awake: a
process waits for the semaphore in `on`.

### Mailbox, Channel
msgrecv tests msg_flag under p->lock, releases it, and sleeps on wait_lock, so
the steps are finer here and wait_lock is explicit.  A string that copyinstr
cannot copy is `Torn`: it may leave a fragment in the receiver's msg_buf.  In
the mapping the box is msg_buf when msg_flag is set and empty otherwise.

### Signal
One trip through usertrap is the trap, the killed check, and signalcheck, with
steps of other processes in between.  Processes interact only through
`Sigsend` and `Kill`, which any process may do to p at any time; these are
steps of their own and the sender's side is an `OtherCall`.  A system call either
returns at once (`OtherCall`) or sleeps in a loop (`CallSleeps`): kwait, kjoin,
ksem_wait, msgrecv, piperead, pipewrite and pause.  A wake-up of any kind, sigsend's
and kkill's included, makes such a call look at its condition again; it then sleeps on
(`SleepsAgain`) or returns (`CallReturns`), and only then comes to signalcheck.  What it
waits for is not modelled, so both are possible each time.  The trapframe is
the pc and a0, and a0 takes any value.  A register has `WordMod` values (2^64) and an int `IntMod` (2^32,
its square root), so the conversion in `return (int)saved_a0` is modelled (`AsInt`).  `interrupted` is a history
variable: the frame at the moment the handler was entered.

### Log, AtomicDisk
A step is a section under log.lock or one block written to disk.  `cache` is
the buffers' contents, `pinned` the blocks that bget cannot recycle; `Bread` of
any other block may come from disk again.  `Crash` keeps `disk`, `logData` and
`logHead` only and starts recovery, in which it may happen again.  The mapping
to `AtomicDisk` says what a crash now would lead to: the home blocks,
overridden by the log blocks the header on disk names.

### Disk, BlockStore
A step is a section under bcache.lock, under a sleep lock's spin lock or under
vdisk_lock.  virtio_disk_intr holds vdisk_lock while the device goes on, so it
is several steps: acknowledge, one turn of the loop per completion, leave.
`irq` is the pending interrupt; `avail` is a set, since the device may serve
requests in any order.  alloc3_desc's failure is modelled with the wake-ups its
free_desc calls make.  `lru` is the list in bio.c.  `Modify` and `Bunpin` are
what log.c does with a buffer (change it, pin it once, unpin it when it is
written); `MaxPins` bounds the pinned ones.  With so few buffers
`panic("bget: no buffers")` happens in the model, and stops it.  The mapping to `BlockStore`: the contents of a block are those of
the valid buffer that caches it, else those on disk; its owner is who is
between acquiresleep and releasesleep.

### Files
A step is a section under ftable.lock or a pipe's lock; pipewrite is one step
per byte, because `killed` is read without the lock that guards it.
fileclose is two: the structure is copied and emptied under ftable.lock, and
the copy (`ff`) is closed afterwards.  `todo` is the files a call has still to
close: the one of close, the one kexit's loop has come to (`ExitFile` is one turn of
it), and those on the error paths of pipe and open.  kkill takes no pipe's lock: a kill
between the test of `killed` and sleep in piperead and pipewrite is `LateKill`, and the
process then sleeps with `killed` set.  The bytes of a pipe are
numbered, `nread` and `nwrite` count modulo `Wrap`.  open is here only as
filealloc, fdalloc and one inode reference (`iref`); the rest of it is in `Fs`.

### Fs
A step is a section that holds one inode's lock, or itable.lock; where a call
holds two inodes, each acquisition is a step.  `k[p]` is the call of a process:
where it is, the path that is left, the inodes it has references to, and those
it has still to pass to iput (`puts`).  iput is up to four steps: the decision
under itable.lock, itrunc and type 0, valid 0 and the release of the lock, and
the drop of the reference.  `dino`, `ents` and `used` are the disk as the buffer
cache has it; the log (module `Log`) makes them durable when the last call under
way ends, which is `stable`.  `Crash` goes back to `stable` and boots through
ireclaim.  `missed` is a history variable, explained at `OrphansAccounted`, and
`strayed` another: it becomes true when a call resolves `..` in a removed directory
whose parent was removed as well (`Lost`), or makes a directory in a removed one.
Neither namex nor create looks at nlink, so the code allows both, and after that an
inode may be in use that nothing keeps allocated.  `InodeRefsExact`, `NamesKeepInodes`
and `OrphansAccounted` are promised until then.
`Keep` is the outcome of filealloc and fdalloc.  `Holders` counts the references of
the processes place by place: the current directory, the open file, and what the call
has in hand.  A call's path has at least one element; the path `/` alone is left out.

### Vm, AddressSpaces
Only the free list is shared between processes, so every kalloc is a step and
everything between two of them is part of one.  A page is named after the place
it was allocated for; which frame kalloc returns makes no difference.  `tab` is
the page-table pages of a table (the root, and two levels each for the top and
the bottom of the address space), `map` its user mappings.  `k[p]` holds the
locals of the call: the table it fills, the next page, the size it fills to, and
for exec the program, the segment and the copied arguments.  `Fails` is what
each call does when kalloc returns 0.  A panic and a page freed twice set
`halted`.  The mapping to `AddressSpaces` reads a page that is not allocated yet
as zero.  The table of trampoline and trapframe has no user pages and is only
there through its page-table pages.

### Sim
The simulator is one sequential program.  `phase` and `i` are its place in main
and in the tick loop; each iteration of a loop that can change a queue is a
step, so the order in which arrivals, I/O completions, boosts and dispatches
touch the queues is the code's.  Processes are numbered from 1 and
`running_pid` 0 is the code's -1.  The schedulers are operators: the queue an
enqueue goes to (`MlfqLevel`, `CustomCpu`), the positions a pick may take
(`MlfqPick`, `LotteryPick`, `EdfPick`, `CustomPick`) and the periodic work
(`MlfqBoost`, `CustomSteal`).  The one field `queues` stands for the union in
`SchedulerState`.  The numbers of a workload are cut to an int as the parser's casts
do (`Stored`; a duration is tested before its cast), and the lottery adds its tickets in
an int (`ToInt`; the sum is taken to wrap, as it does in the build).  The lottery's generator is replaced by any draw below the
number of tickets; averages are kept as sums; output either succeeds or fails.
`StartFails` stands for bad arguments, a workload the parser refuses, an output
directory or a timeline that cannot be had.

## 3. Runs

| Run | Bounds | Shows |
|---|---|---|
| `proc_safety` | 3 slots, 2 CPUs, 4 pids, all calls, kill of pids 0, 2 and 3 | `OneCpuPerProcess`, `StackNotFreed`, `ParentAlive`, `NoMissedExit`, `ZombieLeavesByParent` |
| `proc_live` | 3 slots, 2 CPUs, 3 pids, no kill | `WaitReturns`, `OrphanProcessReaped` |
| `ksem` | 3 processes, 2 semaphores, values to 2 | `SleepsOnlyAtZero`, `ImplementsSemaphore` (with progress) |
| `mailbox` | 2 slots, 3 pids, 2 messages | `NoMissedMessage`, `ImplementsChannel` (with progress) |
| `signal` | 1 process, intervals 1 to 3, two handlers, a0 of one and of two ints' width | `ContextRestored`, `AcceptedNotLost`, `PendingRegistered`, `AlarmInTime`, `SignalDelivered` |
| `log` | 3 calls, 4 blocks, log of 4 | `ImplementsAtomicDisk`, `NoPanic`, `WaiterRetries` |
| `disk` | 2 processes, 2 buffers, 3 blocks, 4 or 7 descriptors, 1 pinned buffer | `RefsExact`, `SleepersHaveCause`, `ImplementsBlockStore` |
| `files` | 2 processes with 1 or 2 descriptors, 2 files, 1 page, pipes of 2 bytes, counters modulo 4 | `FileRefsExact`, `PipeFreedOnce`, `PipeSleepersHaveCause`, `ReadersWoken`, `PipeIsFifo` |
| `fs` | 2 processes, 3 inodes, 2 blocks, crashes, calls on `/a`, `/a/b`, `/a/a`, `b` and `..` | `InodeRefsExact`, `NamesKeepInodes`, `BlocksOwnedOnce`, `NoLockCycle`, `OrphansAccounted` |
| `fs_dotdot` | 2 processes, 3 inodes, 3 blocks, directories in directories | violation of `NoPanic` |
| `vm` | 2 processes, 13 to 20 pages of 2 bytes, a program of 2 segments, at most 1 argument, sbrk by 3 | `PagesAccounted`, `ImplementsAddressSpaces` |
| `sim` | 64 workloads of 3 processes under each scheduler on 1 and 2 CPUs, longer ones for boost, stealing and aging, refused inputs, numbers wider than an int of 8 bits | `OnePlace`, `WorkConserving`, `BoostReachesAll`, `AgingBoundsOvertaking`, `MetricsMatchTimeline`, `TurnaroundAccounted` |

The type invariant of a module is a conjunct of the first invariant of its run;
those of `Proc`, `Ksem`, `Mailbox`, `Signal`, `Log` and `Disk` are proved.

Why these bounds.  Three slots are init, its shell and one more, enough for a
parent that dies before its child and for a slot that is reused; the fourth pid
makes reuse happen.  Two CPUs give the dying process that is still on its
stack.  That `reparent` must wake init even when the dying process is not
init's child needs four slots; it is part of `NoMissedExit`, which is proved
for every number of slots.  Three processes on a semaphore give two waiters for
one unit; two mailboxes give sender and receiver, and the third pid a new owner
of a slot.  One process is enough for signals, because senders have no state
that limits them.  In the log two calls run at once while a third waits.
Four descriptors serve one request and
leave one over, which a second requester takes and gives back; seven serve two, so
that completions arrive while the interrupt handler runs; three blocks in two buffers
make recycling happen.  Two files and one page make pipe fail at its second file and at its page (another
process is between fileclose and pipeclose), a single descriptor at fdalloc; counters
modulo 4 wrap after two pipefuls.  Three inodes are the root, a directory and
a file, so that ialloc hands out a number that iput has just freed; two blocks
let mkdir and write fail.  The memories of `vm` (13 to
17 pages, and 20) range from what init needs to start to two processes side by side:
every kalloc of fork, exec, sbrk and a page fault fails in some behaviour and succeeds in
another.
Sizes in steps of three with pages of two end inside a page half of the time.
The simulator's intervals are the code's (boost 20, steal 5), so there are
workloads long enough for them: an interactive process that keeps a second one
at level 1 until tick 20, one that uses up the slices of all levels, and two that
arrive together for a busy CPU.  Four processes fill a queue (`MAX_PROCESSES`).

`WorkConserving` leaves out the custom scheduler: with a queue per CPU and an
imbalance threshold of two, a CPU may be idle while one process waits for
another CPU.  `MetricsMatchTimeline` is about runs in which every process
completed.  At the tick limit the code reports all processes as completed and
computes turnaround and response from -1.  The pids of a workload are distinct
in the runs; the parser does not check it.

`NoPanic` is checked for calls that write fewer blocks than `MAXOPBLOCKS`.  The
test in log_write comes before absorption, so a call that has filled its whole
reservation and writes a logged block once more could panic; the code's own
calls stay well below ten blocks.

`SignalDelivered` says that a pending signal enters its handler unless the process
dies, stays in another handler, or never comes out of one system call: a process that
waits for a message nobody sends is woken by the signal and sleeps again.
`ContextRestored` says of every a0 what the code gives back: the pc, and `(int)` of a0.

`WorkConserving` exempts ready processes of the lottery whose tickets add up to more
than an int holds.  lottery_pick_next then finds a total that is negative, or zero, and
picks nobody, and the CPU stays idle; the run has such workloads.

In `fs` directories are made in the root only, and no call goes astray there: the run of
two processes with nested directories and crashes is beyond TLC's five minutes.  The
theorems of `FsProofs` are about any calls, and `fs_dotdot` shows one that does go astray.
Deadlock is checked in
`proc_*`, `log`, `disk`, `fs`, `vm` and `sim`; in the other runs every process may
be dead, or waiting for something nobody has to do.

### Disagreements with comments and documents
* `fs_dotdot`: ilock asserts that what it reads is allocated.  A process whose
  current directory was removed keeps that directory's `..`, which nlink of the
  parent no longer counts; once the parent is removed too, looking up `..` panics.

Met while modelling, and left without a run:

* `iput` frees an inode before it drops its reference.  If the number is allocated
  again meanwhile and that new inode unlinked under this reference, nobody frees
  it before the next boot (`missed` in `OrphansAccounted`).
* A name that is made in a directory that another process has just removed is never
  counted down; nlink may be above the number of names, never below
  (`NamesKeepInodes`).
* `pipewrite` of a killed writer returns without waking the readers of the bytes
  it has written (`ReadersWoken` excludes it).
* `copyinstr` does not fault in lazily allocated pages as copyin and copyout do, so
  a path or argument in fresh sbrk memory is refused (`Copyinstr` in `Vm`).
* `kwait` skips threads, but `reparent` hands them to init, which only waits: an
  unjoined thread of a process that exited is a zombie for ever.
  `OrphanProcessReaped` is therefore about processes.
* `kkill` does not look at the state and free slots have pid 0, so kill(0) marks a
  free slot and the next child is born killed (`NotBornKilled` says that this is the
  only way).
* The loops of `ksem_wait` and `msgrecv` do not look at p->killed: a killed process
  stays there until somebody posts or sends.  A kill between the test of killed() and
  sleep() in kwait, piperead and pipewrite is not seen either (`LateKill`).
* sigreturn returns `(int)saved_a0`, which syscall() stores: the upper half of the
  interrupted a0 is lost, and the interrupted code goes on with another value unless
  its a0 fits an int.  `ContextRestored` therefore claims no more than `AsInt` of it.
* The simulator counts waiting before the CPUs choose, so each dispatch adds a tick
  that the process in fact runs.  `TurnaroundAccounted` states what the metric does
  measure.

### Fairness
`Proc`: a process that is on a CPU again and again makes progress, a spinner
gets a lock that is released again and again (strong fairness of
`KernelStep(p)`); the scheduler's round robin passes over nobody; every CPU's
timer keeps firing; init keeps running its loop.  Nothing is assumed of other
programs.  `Ksem`, `Log`: woken processes run (weak fairness), file system
calls reach their end_op, disk writes finish.  `Mailbox`: strong fairness of
kernel steps because of wait_lock.  `Signal`: the scheduler runs whoever is RUNNABLE,
so usertrap's second half and a woken call go on, and timer interrupts come; that the
wake-up of a sleeping call ever comes, or that it finds what it waits for, is not assumed.  `Disk`, `Files`, `Fs` and `Vm` state no fairness: that a sleeper is woken is
put as an invariant there (it sleeps only while there is a cause that somebody will
take away).

## 4. Proofs

`ProcProofs` proves, for every NPROC, NCPU, MaxPid, KillPids and Calls, that the
invariant `IInv` of `Proc` is inductive, one lemma per action.  Its parts:
`CpuInv` (who is on which CPU, and what p->lock covers during swtch), `LockInv`
(wait_lock is held exactly at the labels inside its sections, by a RUNNING
process), `LabelInv` (state and place in the kernel agree), `ForkInv` (a fork in
progress owns its child's slot), `FamilyInv` (parents are alive; a process past
reparent has no children) and `WaitInv` (nobody asleep, or past its scan, awaits
a zombie; the parent of a process about to become ZOMBIE is not asleep).
`NoMissedExit` alone is not inductive: it needs that the sleeper's scan and the
exit exclude each other (`LockInv`) and that wakeup came after the last sleep
(`WaitInv`).  From `IInv` follow `TypeCorrect`, `OneCpu`, `StackSafe`,
`FamilySafe`, `ExitNotMissed` and `ZombieReaped`.  `ForkedUnkilled` is
`NotBornKilled` of every slot, whatever pids kill is called with: as long as no kill(0)
marks the slot while it is free (`KillsFree`), no child starts in it killed.  It adds
`PidInv` (who is not free has a pid other than 0) to `IInv`.

`KsemProofs` proves `NoLostPost` (`SleepsOnlyAtZero`) and `RefinesSemaphore`, the
safety part of the refinement, for any processes and semaphores.

`MailboxProofs`.  `MessageNotMissed` and `RefinesChannel`.  `NoMissedMessage` alone
is not inductive: a receiver between its test of msg_flag and sleep() must still
find the flag clear, which holds because wait_lock is held exactly inside the
critical sections (`LockHeldInside`) and so no sender is between its store and its
wakeup there.  The rest of `IInv` says that a set flag has a whole message behind it
in a live slot; this gives the refinement.

`SignalProofs`.  `PendingRegistered` and `AlarmInTime` are inductive together.
`AcceptedSignalKept` is an action property of every step.  `ResumesInterrupted`
(`ContextRestored`) needs `ContextSaved`, that signal_tf is the interrupted context for
as long as the handler runs; it holds for any values in a0.

`LogProofs`.  `NeverPanics` and `CrashAtomic`, both for system calls that write fewer
than MAXOPBLOCKS blocks (`OpBlocks < MAXOPBLOCKS`).  The code is written to that
limit: filewrite cuts its writes to `(MAXOPBLOCKS-1-1-2) / 2` blocks, and the other
calls touch a few inodes, directory blocks and bitmap blocks.  The invariant has two
parts.  `RoomReserved`: the log's length and what each call in progress may still add
fit into LOGBLOCKS; `Reserved` is a set of pairs
of a call and one of its blocks not yet written, and the proof of begin_op is the
arithmetic of its test.  `LogAgrees`: at each stage of a commit and of recovery, which
log blocks equal the cache, which home blocks equal the log, and which are pinned.
From it a crash at any step, recovery included, comes back to the same blocks: every
step of the commit stutters except the write of the header, which is the abstract
commit.

`DiskProofs`.  `ReferencesExact`, `SleepersAlwaysHaveCause` and `OneCopy`, for any
processes, buffers, blocks, values, descriptors (`Nums`) and pins.  The invariant adds
to the two checked ones: `LocksAgree` (who is past acquiresleep holds the lock, and a
referenced buffer caches a block), `ChainsAgree` (every descriptor is free or in one
request), `RingsAgree` (a request is once with the device or once in the used ring,
and its process waits) and `DataAgree` (a valid buffer agrees with the disk unless it
is pinned or its write is under way).  `RefsExact` needs `LocksAgree`, and
`SleepersHaveCause` needs `RingsAgree`: a completion finds the buffer it must wake.
`OneCopy` needs `DataAgree`: recycling a buffer nobody refers to loses nothing.  The
proof works with `Inv`, the same invariant without cardinalities of sets of buffers
(`IInvIs`).  The halting panic of bget is a step like the others there.

`FilesProofs`.  All five properties of `Files`: `FileReferencesExact`, `PipeFreed`,
`PipeSleepers`, `ReadersAreWoken` and `PipeQueue`, for any finite sets of processes and
file structures, any pages, number of descriptors, size of a pipe and length of a write
(`FilesAssumption`).  `Wrap`, the range of the unsigned counters, must be a multiple of
PIPESIZE of at least twice its size, as 2^32 is of 512: `PipeQueue` is false of other
sizes, because the place `nread % PIPESIZE` would jump when the counter wraps.  The
invariant adds to the three checked ones:

* `CallsAgree`: where a process is agrees with what it has in hand.  A call asleep on a
  pipe has a descriptor of that pipe's end, and this is why the file it uses cannot be
  freed under it.
* `NewFilesAgree`: a file being created has one reference, the creator's, and no type
  until pipealloc is through; a free one has no type (fileclose resets it), so an error
  path never closes an end it did not open.
* `EndsAgree`: an end of a pipe has one file, or one fileclose about to close it.
  Without it `PipeFreedOnce` is not inductive: a second file of an end would find it
  marked closed.
* `PipesAgree`: the lock is held by the writer inside the loop, and at most PIPESIZE
  bytes are between the counters.

References are counted by cardinalities of sets of descriptors and calls; the proof of
fork and of exit moves elements between those sets (`RefsKept` and the lemmas before
it).  The last part of the module is the arithmetic of the ring buffer: what
`nwrite - nread` is modulo `Wrap` after a read and a write (`Ring...`), that a wrapped
counter has the same place in the buffer (`SamePlace`), and that bytes less than PIPESIZE
apart have different places (`ModDiffer`), so that a write overwrites nothing unread.

`FsProofs`, with its definitions in `FsInv`.  The results are for any finite set of
processes and names, any blocks and number of inodes, and with crashes.

`BlocksOwned`, `NoDeadlock`, `ReferencesCounted` and `CopiesCurrent` are for any system
calls (`Calls`).  They follow from the invariant `Inv`:

* `CallsOK`: at each stage of a call, which inodes it has in hand.
* `RefsOK`: ip->ref is `Holders`.  The proof counts places (`Tokens`): a step of a
  process changes ref by the difference of its own tokens (`CountStep`), and a process
  with the only token is alone with the inode (`CountSole`), which is what iput's
  `ref == 1` relies on.
* `LocksOK`: a lock is held exactly at the stages between acquiresleep and
  releasesleep, by the process at that stage.
* `CoresOK`: a valid copy is the dinode's.  It needs the exception for the iput
  between iupdate and `valid = 0`, when ialloc may already have given the inode away.
* `HeldOK`: the parent of a call stays a directory and the inode being linked a file
  while the call does not hold their locks, since it has a reference; the number a call
  got from ialloc is its own.
* `DisksOK`: of the disk and of the last commit: free dinodes are empty, only
  directories have entries, bitmap and dinodes agree, and no two directories contain
  each other.
* `TreeOK`: the entry that unlink found is still there when it locks the child (the
  parent's lock is held), the name that create did not find is still missing, and nothing puts the parent below the inode that create
  makes.  Without it `NoLockCycle` is not inductive: the two waiting calls would be at
  unlink or at create, each with the other's child as parent.
* `Quiet`: no process runs before ireclaim is through.

A step that changes the disk is shown part by part (`TypesMove` to `TreeMove`, put
together in `DiskStep`); one that does not needs less (`SameDisk`).

`InodeRefs`, `NamesKeep`, `Orphaned` and `PanicStrays` (`InodeRefsExact`, `NamesKeepInodes`,
`OrphansAccounted`, `StrayPanics`) are for any system calls too, mkdirs in any directory
included.  With nested directories `NoPanic` is false of the code (`fs_dotdot`), and
the theorems say exactly where: everything holds in every state before a step that goes
astray in a removed directory (`Strays`), and no call panics without one.  The second part of
the invariant, `Kept`, is claimed until then (`NamesInvariant`):

* `BothTree`: directories form a tree: a named directory has the one that names it as its
  `..`, no directory names the root, a directory that has a link has its `..`, and its
  links are at most its name and the `..` of its subdirectories; of the disk and of the last
  commit.  The last clause is what makes the nlink of an empty directory 1, so that unlink
  takes it to 0.
* `NlinksOK`: nlink is at least the names of the inode, plus the links that sys_link has
  counted and not made yet (`Linking`), plus one for the root.  Without the second term a
  link under way could be the one that unlink takes away; `StableNlinks` is the same of
  the last commit, when no call is under way, and is what a crash comes back to.
* `InUse`: an inode that a process has is allocated, except for the reference that an iput
  which has freed the inode is about to drop (`Leaving`).  `Read`: once a process has
  locked an inode, the copy stays valid, so that no later ilock can find it free.
* `Fresh`, `Going`, `Gone`: nobody else uses the inode between ialloc and its first name;
  nobody finds one again between iput's decision and its end, but for a create whose
  ialloc got the same number.
* `Parented`: the directories a walk comes through, removed or not, have their `..`.
* `AtRoot`: no process has left the root before ireclaim is through.

A process comes to an inode through a name, which `NlinksOK` makes allocated (`NamedIs`),
or by ialloc; `Takes`, `Plain` and `Touches` say so of a step, and the lemmas of the
actions (`BeginKept` to `IreclaimKept`) show it.  The call that takes nlink to 0 holds the
inode itself, so ip->ref is not 0 before an iput has decided about it (`OrphansStep`).

The invariants `IInv` of `Mailbox`, `Signal`, `Log`, `Disk` and `Files`, and `Inv` and
`Kept` of `Fs`, were also model-checked with the constants of their runs.

Only model-checked:

* Liveness and the progress parts of the refinements (`WaitReturns`,
  `OrphanProcessReaped`, `SignalDelivered`, `WaiterRetries`, and the fairness in
  `ImplementsSemaphore` and `ImplementsChannel`): they rest on WF and SF, whose
  ENABLED the prover does not handle.
* `Vm` and `Sim`: no proofs (see the plan).

## 5. Not modelled

* Boot code, assembly and `printf` (straight-line or device I/O), user programs
  other than init (arbitrary callers; `usertests.c` and the demos are tests).
* Console, UART and PLIC; priorities and accounting, which the scheduler does not
  look at; the nesting of push_off and pop_off.
* `Signal`: fork, clone and exec.  exec keeps the handler's address and the alarm, so
  that the old address is entered in the new program.
* `Disk`: the layout of rings and registers; a status other than success (the
  driver panics).
* `Files`: devices, files' offsets, fstat.
* `Fs`: files and directories of more than one block (indirect blocks, the search
  for a free entry, offsets and partial writes), `.` entries, a device's major number,
  `panic("iget: no inodes")` (the runs have an entry for every inode), and the iput
  of the current directory in exit.
* `Vm`: the kernel's own page table; which physical frame a page is in.  The loops
  that free pages are one step.  The first process neither exits nor relies on
  lazy memory, whose lack would end it.
* `Sim`: the lottery's generator, the text of the reports.  At max_ticks the summary
  counts all processes as completed; no property is about it.

## 6. Plan

1. Proofs: `PagesAccounted` (`Vm`) and the invariants of `Sim`.
2. Signals across fork, clone and exec; priorities and accounting on top of
   `Proc`; the console.
