-------------------------------- MODULE Proc --------------------------------
(***************************************************************************)
(* The process table of the kernel (kernel/proc.c): fork, clone, exit,     *)
(* wait, join, kill, sleep and wakeup, and the scheduler that moves        *)
(* processes between the CPUs.                                             *)
(*                                                                         *)
(* Locks.  A p->lock section that reads and writes only what p->lock       *)
(* guards is one step.  The two places where a lock outlives a step are    *)
(* explicit: waitLock is the holder of wait_lock, and plock[s] says that   *)
(* process s holds its own p->lock from the moment it changed its state    *)
(* until the CPU has left its kernel stack (sched and swtch).              *)
(***************************************************************************)
EXTENDS Integers

CONSTANTS NPROC,     \* slots of the process table
          NCPU,      \* processors running scheduler()
          MaxPid,    \* bound on the pids handed out (the code has none)
          KillPids,  \* the arguments user programs pass to kill
          Calls      \* the system calls user programs other than init make

ASSUME SizesAssumption == NPROC \in Nat \ {0} /\ NCPU \in Nat \ {0}
ASSUME MaxPidAssumption == MaxPid \in Nat \ {0}
ASSUME KillPidsAssumption == KillPids \subseteq Nat

VARIABLES state,     \* p->state
          pid,       \* p->pid
          parent,    \* p->parent, a slot or Null
          killed,    \* p->killed
          isThread,  \* p->is_thread
          chan,      \* p->chan; wait and join sleep on their own slot
          plock,     \* p->lock kept by its own process across sched()
          pc,        \* where the process is in the kernel, or "user"
          tid,       \* the thread join looks for; 0 in wait
          child,     \* the slot fork is filling
          cpu,       \* c->proc
          waitLock,  \* holder of wait_lock, or Null
          nextpid,
          shell,     \* user/init.c: the pid init waits for, 0 before fork
          initRet,   \* what init's last system call returned
          panicked   \* panic("init exiting")

procVars == <<state, pid, parent, killed, isThread, chan>>
runVars  == <<pc, tid, child>>
initVars == <<shell, initRet, panicked>>
vars     == <<procVars, plock, runVars, cpu, waitLock, nextpid, initVars>>

Slots    == 1 .. NPROC
CPUs     == 1 .. NCPU
Null     == 0
initproc == 1

States == {"UNUSED", "USED", "SLEEPING", "RUNNABLE", "RUNNING", "ZOMBIE"}
Labels == {"none", "user", "ret", "fork_parent", "fork_run",
           "wait_acq", "wait_scan", "wait_killed", "wait_sleep",
           "exit", "exit_reparent", "exit_wakeup", "exit_zombie", "dead"}

TypeOK ==
  /\ state \in [Slots -> States]
  /\ pid \in [Slots -> Nat]
  /\ parent \in [Slots -> Slots \cup {Null}]
  /\ killed \in [Slots -> BOOLEAN]
  /\ isThread \in [Slots -> BOOLEAN]
  /\ chan \in [Slots -> Slots \cup {Null}]
  /\ plock \in [Slots -> BOOLEAN]
  /\ pc \in [Slots -> Labels]
  /\ tid \in [Slots -> Nat]
  /\ child \in [Slots -> Slots \cup {Null}]
  /\ cpu \in [CPUs -> Slots \cup {Null}]
  /\ waitLock \in Slots \cup {Null}
  /\ nextpid \in Nat
  /\ shell \in Nat
  /\ initRet \in Nat \cup {-1}
  /\ panicked \in BOOLEAN

(***************************************************************************)
(* procinit, then userinit: slot 1 is init, ready to run, with pid 1.      *)
(***************************************************************************)
Init ==
  /\ state = [s \in Slots |-> IF s = initproc THEN "RUNNABLE" ELSE "UNUSED"]
  /\ pid = [s \in Slots |-> IF s = initproc THEN 1 ELSE 0]
  /\ parent = [s \in Slots |-> Null]
  /\ killed = [s \in Slots |-> FALSE]
  /\ isThread = [s \in Slots |-> FALSE]
  /\ chan = [s \in Slots |-> Null]
  /\ plock = [s \in Slots |-> FALSE]
  /\ pc = [s \in Slots |-> IF s = initproc THEN "user" ELSE "none"]
  /\ tid = [s \in Slots |-> 0]
  /\ child = [s \in Slots |-> Null]
  /\ cpu = [c \in CPUs |-> Null]
  /\ waitLock = Null
  /\ nextpid = 2
  /\ shell = 0
  /\ initRet = 0
  /\ panicked = FALSE

-----------------------------------------------------------------------------
(* Helpers *)

OnCpu(p) == \E c \in CPUs : cpu[c] = p

\* p is executing at label l (a process inside sched() executes nothing else)
At(p, l) == ~panicked /\ OnCpu(p) /\ ~plock[p] /\ pc[p] = l

Goto(p, l) == pc' = [pc EXCEPT ![p] = l]

\* a system call returns v; usertrap then runs its second killed() check
Return(p, v) ==
  /\ Goto(p, "ret")
  /\ initRet' = IF p = initproc THEN v ELSE initRet

\* user/init.c alternates fork and wait(0); every other program is arbitrary
Program(p, call) ==
  IF p = initproc THEN call = (IF shell = 0 THEN "fork" ELSE "wait")
                  ELSE call \in Calls

\* p, in user mode and past usertrap's first killed() check, traps for call
Syscall(p, call) == At(p, "user") /\ ~killed[p] /\ Program(p, call)

\* wakeup(ch); the caller holds wait_lock, so nobody can start to sleep on ch
Wakeup(ch) ==
  LET asleep == {q \in Slots : state[q] = "SLEEPING" /\ chan[q] = ch}
  IN /\ \A q \in asleep : ~plock[q]
     /\ state' = [q \in Slots |-> IF q \in asleep THEN "RUNNABLE" ELSE state[q]]

Freeproc(s) ==
  /\ state' = [state EXCEPT ![s] = "UNUSED"]
  /\ pid' = [pid EXCEPT ![s] = 0]
  /\ parent' = [parent EXCEPT ![s] = Null]
  /\ killed' = [killed EXCEPT ![s] = FALSE]
  /\ isThread' = [isThread EXCEPT ![s] = FALSE]
  /\ chan' = [chan EXCEPT ![s] = Null]

-----------------------------------------------------------------------------
(* fork_with_priority and kclone *)

\* allocproc found slot s; the child is filled in under its lock.  allocproc
\* does not write p->killed.
ForkAlloc(p, s, thread) ==
  /\ Syscall(p, IF thread THEN "clone" ELSE "fork")
  /\ state[s] = "UNUSED" /\ nextpid <= MaxPid
  /\ state' = [state EXCEPT ![s] = "USED"]
  /\ pid' = [pid EXCEPT ![s] = nextpid]
  /\ nextpid' = nextpid + 1
  /\ isThread' = [isThread EXCEPT ![s] = thread]
  /\ child' = [child EXCEPT ![p] = s]
  /\ pc' = [pc EXCEPT ![p] = "fork_parent", ![s] = "user"]
  /\ UNCHANGED <<parent, killed, chan, plock, tid, cpu, waitLock, initVars>>

\* no UNUSED slot
ForkFull(p, call) ==
  /\ Syscall(p, call) /\ call \in {"fork", "clone"}
  /\ \A s \in Slots : state[s] # "UNUSED"
  /\ Return(p, -1)
  /\ UNCHANGED <<procVars, plock, tid, child, cpu, waitLock, nextpid, shell,
                 panicked>>

\* a pid was taken, then kalloc or uvmcopy failed and freeproc undid the slot
ForkNoMemory(p, s, call) ==
  /\ Syscall(p, call) /\ call \in {"fork", "clone"}
  /\ state[s] = "UNUSED" /\ nextpid <= MaxPid
  /\ nextpid' = nextpid + 1
  /\ Freeproc(s)
  /\ Return(p, -1)
  /\ UNCHANGED <<plock, tid, child, cpu, waitLock, shell, panicked>>

\* acquire(&wait_lock); np->parent = p; release(&wait_lock)
ForkParent(p) ==
  /\ At(p, "fork_parent") /\ waitLock = Null
  /\ parent' = [parent EXCEPT ![child[p]] = p]
  /\ Goto(p, "fork_run")
  /\ UNCHANGED <<state, pid, killed, isThread, chan, plock, tid, child, cpu,
                 waitLock, nextpid, initVars>>

\* np->state = RUNNABLE under np->lock
ForkRun(p) ==
  /\ At(p, "fork_run")
  /\ state' = [state EXCEPT ![child[p]] = "RUNNABLE"]
  /\ child' = [child EXCEPT ![p] = Null]
  /\ Return(p, pid[child[p]])
  /\ UNCHANGED <<pid, parent, killed, isThread, chan, plock, tid, cpu,
                 waitLock, nextpid, shell, panicked>>

-----------------------------------------------------------------------------
(* kwait and kjoin *)

WaitCall(p) ==
  /\ Syscall(p, "wait")
  /\ tid' = [tid EXCEPT ![p] = 0]
  /\ Goto(p, "wait_acq")
  /\ UNCHANGED <<procVars, plock, child, cpu, waitLock, nextpid, initVars>>

JoinCall(p, t) ==
  /\ Syscall(p, "join")
  /\ tid' = [tid EXCEPT ![p] = t]
  /\ Goto(p, "wait_acq")
  /\ UNCHANGED <<procVars, plock, child, cpu, waitLock, nextpid, initVars>>

\* acquire(&wait_lock), on entry and again at the end of sleep()
WaitAcquire(p) ==
  /\ At(p, "wait_acq") /\ waitLock = Null
  /\ waitLock' = p
  /\ Goto(p, "wait_scan")
  /\ UNCHANGED <<procVars, plock, tid, child, cpu, nextpid, initVars>>

\* the children the scan of kwait (t = 0) or of kjoin (t a thread) looks at
KwaitMatch(p, s) == parent[s] = p /\ ~isThread[s]
KjoinMatch(p, s, t) == parent[s] = p /\ pid[s] = t /\ isThread[s]
Awaits(p, s) == IF tid[p] = 0 THEN KwaitMatch(p, s) ELSE KjoinMatch(p, s, tid[p])
Awaited(p) == {s \in Slots : Awaits(p, s)}
Reapable(p) == {s \in Awaited(p) : state[s] = "ZOMBIE"}

\* fault variant of WaitReap: pp->state is read without acquire(&pp->lock)
WaitReapUnlocked(p) ==
  /\ At(p, "wait_scan")
  /\ \E s \in Reapable(p) :
       /\ Freeproc(s)
       /\ pc' = [pc EXCEPT ![p] = "ret", ![s] = "none"]
       /\ tid' = [tid EXCEPT ![p] = 0, ![s] = 0]
       /\ initRet' = IF p = initproc THEN pid[s] ELSE initRet
  /\ waitLock' = Null
  /\ UNCHANGED <<plock, child, cpu, nextpid, shell, panicked>>

\* reap the first zombie found; its lock is free once it has left its stack
WaitReap(p) ==
  /\ At(p, "wait_scan")
  /\ \E s \in Reapable(p) :
       /\ \A r \in Reapable(p) : s <= r
       /\ ~plock[s]
       /\ Freeproc(s)
       /\ pc' = [pc EXCEPT ![p] = "ret", ![s] = "none"]
       /\ tid' = [tid EXCEPT ![p] = 0, ![s] = 0]
       /\ initRet' = IF p = initproc THEN pid[s] ELSE initRet
  /\ waitLock' = Null
  /\ UNCHANGED <<plock, child, cpu, nextpid, shell, panicked>>

\* kwait only: copyout of the exit status failed; the zombie stays
WaitCopyoutFails(p) ==
  /\ At(p, "wait_scan") /\ tid[p] = 0 /\ p # initproc
  /\ \E s \in Reapable(p) : (\A r \in Reapable(p) : s <= r) /\ ~plock[s]
  /\ waitLock' = Null
  /\ Return(p, -1)
  /\ UNCHANGED <<procVars, plock, tid, child, cpu, nextpid, shell, panicked>>

\* fault variant of WaitNoKids: wait_lock is not released on this early return
WaitNoKidsLocked(p) ==
  /\ At(p, "wait_scan") /\ Awaited(p) = {}
  /\ tid' = [tid EXCEPT ![p] = 0]
  /\ Return(p, -1)
  /\ UNCHANGED <<procVars, plock, child, cpu, waitLock, nextpid, shell, panicked>>

WaitNoKids(p) ==
  /\ At(p, "wait_scan") /\ Awaited(p) = {}
  /\ waitLock' = Null
  /\ tid' = [tid EXCEPT ![p] = 0]
  /\ Return(p, -1)
  /\ UNCHANGED <<procVars, plock, child, cpu, nextpid, shell, panicked>>

WaitNoZombie(p) ==
  /\ At(p, "wait_scan") /\ Awaited(p) # {} /\ Reapable(p) = {}
  /\ Goto(p, "wait_killed")
  /\ UNCHANGED <<procVars, plock, tid, child, cpu, waitLock, nextpid, initVars>>

\* killed(p) takes and releases p->lock before sleep() takes it again
WaitKilled(p) ==
  /\ At(p, "wait_killed")
  /\ IF killed[p]
       THEN /\ waitLock' = Null
            /\ tid' = [tid EXCEPT ![p] = 0]
            /\ Return(p, -1)
       ELSE /\ Goto(p, "wait_sleep")
            /\ UNCHANGED <<waitLock, tid, initRet>>
  /\ UNCHANGED <<procVars, plock, child, cpu, nextpid, shell, panicked>>

\* sleep(p, &wait_lock) up to sched()
Sleep(p) ==
  /\ At(p, "wait_sleep")
  /\ state' = [state EXCEPT ![p] = "SLEEPING"]
  /\ chan' = [chan EXCEPT ![p] = p]
  /\ plock' = [plock EXCEPT ![p] = TRUE]
  /\ waitLock' = Null
  /\ Goto(p, "wait_acq")
  /\ UNCHANGED <<pid, parent, killed, isThread, tid, child, cpu, nextpid, initVars>>

-----------------------------------------------------------------------------
(* kexit *)

ExitCall(p) ==
  /\ Syscall(p, "exit")
  /\ Goto(p, "exit")
  /\ UNCHANGED <<procVars, plock, tid, child, cpu, waitLock, nextpid, initVars>>

\* panic for init; otherwise files and cwd are dropped and wait_lock taken
ExitAcquire(p) ==
  /\ At(p, "exit")
  /\ IF p = initproc
       THEN panicked' = TRUE /\ UNCHANGED <<pc, waitLock>>
       ELSE /\ waitLock = Null
            /\ waitLock' = p
            /\ Goto(p, "exit_reparent")
            /\ UNCHANGED panicked
  /\ UNCHANGED <<procVars, plock, tid, child, cpu, nextpid, shell, initRet>>

\* fault variant of Reparent: threads are skipped, as in kwait's scan
ReparentSkipsThreads(p) ==
  /\ At(p, "exit_reparent")
  /\ parent' = [s \in Slots |-> IF parent[s] = p /\ ~isThread[s]
                                  THEN initproc ELSE parent[s]]
  /\ IF \E s \in Slots : parent[s] = p THEN Wakeup(initproc) ELSE UNCHANGED state
  /\ Goto(p, "exit_wakeup")
  /\ UNCHANGED <<pid, killed, isThread, chan, plock, tid, child, cpu, waitLock,
                 nextpid, initVars>>

\* reparent(p), with its wakeup(initproc) for every child handed over
Reparent(p) ==
  /\ At(p, "exit_reparent")
  /\ parent' = [s \in Slots |-> IF parent[s] = p THEN initproc ELSE parent[s]]
  /\ IF \E s \in Slots : parent[s] = p THEN Wakeup(initproc) ELSE UNCHANGED state
  /\ Goto(p, "exit_wakeup")
  /\ UNCHANGED <<pid, killed, isThread, chan, plock, tid, child, cpu, waitLock,
                 nextpid, initVars>>

\* fault variant of ExitWakeup: wait_lock is released before p is a ZOMBIE
ExitWakeupUnlocks(p) ==
  /\ At(p, "exit_wakeup")
  /\ Wakeup(parent[p])
  /\ waitLock' = Null
  /\ Goto(p, "exit_zombie")
  /\ UNCHANGED <<pid, parent, killed, isThread, chan, plock, tid, child, cpu,
                 nextpid, initVars>>

\* fault variant of ExitWakeup: wakeup(p) for wakeup(p->parent)
ExitWakeupSelf(p) ==
  /\ At(p, "exit_wakeup")
  /\ Wakeup(p)
  /\ Goto(p, "exit_zombie")
  /\ UNCHANGED <<pid, parent, killed, isThread, chan, plock, tid, child, cpu,
                 waitLock, nextpid, initVars>>

\* wakeup(p->parent)
ExitWakeup(p) ==
  /\ At(p, "exit_wakeup")
  /\ Wakeup(parent[p])
  /\ Goto(p, "exit_zombie")
  /\ UNCHANGED <<pid, parent, killed, isThread, chan, plock, tid, child, cpu,
                 waitLock, nextpid, initVars>>

\* p->state = ZOMBIE under p->lock, which is kept; then wait_lock is released
ExitZombie(p) ==
  /\ At(p, "exit_zombie")
  /\ state' = [state EXCEPT ![p] = "ZOMBIE"]
  /\ plock' = [plock EXCEPT ![p] = TRUE]
  /\ waitLock' = Null
  /\ Goto(p, "dead")
  /\ UNCHANGED <<pid, parent, killed, isThread, chan, tid, child, cpu, nextpid,
                 initVars>>

-----------------------------------------------------------------------------
(* kkill, setkilled and usertrap's checks *)

\* fault variant of Kill: every process that is not running is made RUNNABLE
KillWakesAll(p, k) ==
  /\ Syscall(p, "kill")
  /\ \E s \in Slots :
       /\ pid[s] = k /\ (\A r \in Slots : pid[r] = k => s <= r)
       /\ ~plock[s]
       /\ killed' = [killed EXCEPT ![s] = TRUE]
       /\ state' = [state EXCEPT ![s] = IF @ # "RUNNING" THEN "RUNNABLE" ELSE @]
  /\ Return(p, 0)
  /\ UNCHANGED <<pid, parent, isThread, chan, plock, tid, child, cpu, waitLock,
                 nextpid, shell, panicked>>

\* the first slot whose pid matches, whatever its state
Kill(p, k) ==
  /\ Syscall(p, "kill")
  /\ \E s \in Slots :
       /\ pid[s] = k /\ (\A r \in Slots : pid[r] = k => s <= r)
       /\ ~plock[s]
       /\ killed' = [killed EXCEPT ![s] = TRUE]
       /\ state' = [state EXCEPT ![s] = IF @ = "SLEEPING" THEN "RUNNABLE" ELSE @]
  /\ Return(p, 0)
  /\ UNCHANGED <<pid, parent, isThread, chan, plock, tid, child, cpu, waitLock,
                 nextpid, shell, panicked>>

\* sigsend to q, which has a handler (init has none): a sleeper is made RUNNABLE
Sigsend(p, q) ==
  /\ Syscall(p, "sigsend")
  /\ q # initproc /\ state[q] # "UNUSED" /\ ~plock[q]
  /\ state' = [state EXCEPT ![q] = IF @ = "SLEEPING" THEN "RUNNABLE" ELSE @]
  /\ Return(p, 0)
  /\ UNCHANGED <<pid, parent, killed, isThread, chan, plock, tid, child, cpu,
                 waitLock, nextpid, shell, panicked>>

\* a trap the kernel cannot handle: setkilled(p)
UserFault(p) ==
  /\ Syscall(p, "fault")
  /\ killed' = [killed EXCEPT ![p] = TRUE]
  /\ Return(p, 0)
  /\ UNCHANGED <<state, pid, parent, isThread, chan, plock, tid, child, cpu,
                 waitLock, nextpid, shell, panicked>>

\* usertrap on entry: a killed process does not reach syscall()
TrapKilled(p) ==
  /\ At(p, "user") /\ killed[p]
  /\ Goto(p, "exit")
  /\ UNCHANGED <<procVars, plock, tid, child, cpu, waitLock, nextpid, initVars>>

\* usertrap on the way out; init exits when fork or wait failed, and starts
\* over when the shell it waits for was reaped
TrapReturn(p) ==
  /\ At(p, "ret")
  /\ Goto(p, IF killed[p] \/ (p = initproc /\ initRet = -1) THEN "exit" ELSE "user")
  /\ IF p = initproc /\ initRet # -1
       THEN /\ shell' = IF shell = 0 THEN initRet
                        ELSE IF initRet = shell THEN 0 ELSE shell
            /\ initRet' = 0
       ELSE UNCHANGED <<shell, initRet>>
  /\ UNCHANGED <<procVars, plock, tid, child, cpu, waitLock, nextpid, panicked>>

-----------------------------------------------------------------------------
(* scheduler, yield and sched *)

\* a CPU found p RUNNABLE; p resumes, and sleep() clears p->chan
Scheduler(c, p) ==
  /\ ~panicked /\ cpu[c] = Null /\ state[p] = "RUNNABLE" /\ ~plock[p]
  /\ cpu' = [cpu EXCEPT ![c] = p]
  /\ state' = [state EXCEPT ![p] = "RUNNING"]
  /\ chan' = [chan EXCEPT ![p] = Null]
  /\ UNCHANGED <<pid, parent, killed, isThread, plock, runVars, waitLock,
                 nextpid, initVars>>

\* acquire() turns interrupts off before it spins and release() turns them on
InterruptsOn(p) == waitLock # p /\ pc[p] \notin {"fork_parent", "wait_acq", "exit"}

\* fault variant of Yield: p->lock is released before swtch
YieldUnlocked(p) ==
  /\ ~panicked /\ OnCpu(p) /\ ~plock[p] /\ InterruptsOn(p)
  /\ state' = [state EXCEPT ![p] = "RUNNABLE"]
  /\ UNCHANGED <<pid, parent, killed, isThread, chan, plock, runVars, cpu,
                 waitLock, nextpid, initVars>>

\* a timer interrupt
Yield(p) ==
  /\ ~panicked /\ OnCpu(p) /\ ~plock[p] /\ InterruptsOn(p)
  /\ state' = [state EXCEPT ![p] = "RUNNABLE"]
  /\ plock' = [plock EXCEPT ![p] = TRUE]
  /\ UNCHANGED <<pid, parent, killed, isThread, chan, runVars, cpu, waitLock,
                 nextpid, initVars>>

\* swtch to the scheduler, which releases p->lock
Sched(c) ==
  /\ ~panicked /\ cpu[c] # Null /\ plock[cpu[c]]
  /\ plock' = [plock EXCEPT ![cpu[c]] = FALSE]
  /\ cpu' = [cpu EXCEPT ![c] = Null]
  /\ UNCHANGED <<procVars, runVars, waitLock, nextpid, initVars>>

\* panic() spins forever
Halted == panicked /\ UNCHANGED vars

-----------------------------------------------------------------------------
\* the steps of p that are not the user program's choice
KernelStep(p) ==
  \/ ForkParent(p) \/ ForkRun(p)
  \/ WaitAcquire(p) \/ WaitReap(p) \/ WaitCopyoutFails(p) \/ WaitNoKids(p)
  \/ WaitNoZombie(p) \/ WaitKilled(p) \/ Sleep(p)
  \/ ExitAcquire(p) \/ Reparent(p) \/ ExitWakeup(p) \/ ExitZombie(p)
  \/ TrapKilled(p) \/ TrapReturn(p)

ForkStep(p) ==
  \/ \E s \in Slots, thread \in BOOLEAN : ForkAlloc(p, s, thread)
  \/ \E call \in {"fork", "clone"} : ForkFull(p, call)
  \/ \E s \in Slots, call \in {"fork", "clone"} : ForkNoMemory(p, s, call)

UserStep(p) ==
  \/ ForkStep(p)
  \/ WaitCall(p)
  \/ \E t \in 1 .. MaxPid : JoinCall(p, t)
  \/ \E k \in KillPids : Kill(p, k)
  \/ \E q \in Slots : Sigsend(p, q)
  \/ ExitCall(p) \/ UserFault(p)

Next ==
  \/ \E p \in Slots : KernelStep(p) \/ UserStep(p) \/ Yield(p)
  \/ \E c \in CPUs, p \in Slots : Scheduler(c, p)
  \/ \E c \in CPUs : Sched(c)
  \/ Halted

Spec == Init /\ [][Next]_vars

(***************************************************************************)
(* Fairness.  Timer interrupts keep coming on every CPU, but a process     *)
(* that is put on a CPU again and again executes some of its code in       *)
(* between (the slice is not empty), and one that spins on a lock which is *)
(* released again and again gets it in the end: strong fairness of a       *)
(* process's kernel steps.  scheduler() goes round the whole table, so a   *)
(* RUNNABLE process is not passed over forever.  init's loop is its own    *)
(* program and keeps calling; no other user program is assumed to do       *)
(* anything.                                                               *)
(***************************************************************************)
Timer(c) == cpu[c] # Null /\ Yield(cpu[c])

Fairness ==
  /\ \A p \in Slots : SF_vars(KernelStep(p))
  /\ \A p \in Slots : SF_vars(\E c \in CPUs : Scheduler(c, p))
  /\ \A c \in CPUs : WF_vars(Sched(c)) /\ SF_vars(Timer(c))
  /\ SF_vars(ForkStep(initproc) \/ WaitCall(initproc))

FairSpec == Spec /\ Fairness

-----------------------------------------------------------------------------
(* Properties *)

InWait(p) == pc[p] \in {"wait_acq", "wait_scan", "wait_killed", "wait_sleep"}

\* A process executes on at most one CPU, it is RUNNING exactly while it does,
\* and once it gave up that state it keeps p->lock until swtch has left its
\* stack: the reason sched() requires p->lock (proc.c, scheduler and sched).
OneCpuPerProcess ==
  /\ \A c, d \in CPUs : cpu[c] # Null /\ cpu[c] = cpu[d] => c = d
  /\ \A s \in Slots : state[s] = "RUNNING" <=> OnCpu(s) /\ ~plock[s]

\* wait and join never free (nor fork reuse) a slot while a CPU is still on its
\* kernel stack: "make sure the child isn't still in exit() or swtch()" (kwait).
StackNotFreed ==
  \A s \in Slots : OnCpu(s) => state[s] \notin {"UNUSED", "USED"}

\* Every process but init that was made runnable, dead or alive, has a parent
\* that is itself alive, so someone can still wait for it (reparent in kexit).
ParentAlive ==
  \A s \in Slots \ {initproc} :
    state[s] \in {"SLEEPING", "RUNNABLE", "RUNNING", "ZOMBIE"} =>
      parent[s] \in Slots /\ state[parent[s]] \notin {"UNUSED", "USED", "ZOMBIE"}

\* Nobody sleeps in wait or join while a child it awaits is already a ZOMBIE:
\* wait_lock makes the scan and sleep() one with respect to kexit.
NoMissedExit ==
  \A p \in Slots : state[p] = "SLEEPING" => Reapable(p) = {}

\* A ZOMBIE changes state only by its own parent's wait or join, which returns
\* at that step: an exit is collected once, and kill does not revive the dead.
ZombieLeavesByParent ==
  [][\A s \in Slots : state[s] = "ZOMBIE" /\ state'[s] # "ZOMBIE" =>
       /\ state'[s] = "UNUSED"
       /\ waitLock = parent[s]
       /\ pc[parent[s]] = "wait_scan" /\ pc'[parent[s]] = "ret"]_vars

\* kill(0) finds slot s, whose pid is 0 because it is free, and marks it killed
KillsFree(s) == state[s] = "UNUSED" /\ \E p \in Slots : Kill(p, 0) /\ killed'[s]

\* fork or clone takes slot s
Born(s) == state[s] = "UNUSED" /\ state'[s] = "USED"

\* A child made in slot s is already killed only if a kill(0) marked s while it was
\* free: allocproc does not clear p->killed, but freeproc does, and no kill of the
\* slot's earlier process is left for the child (allocproc, freeproc, kkill).
NotBornKilled(s) == [][~KillsFree(s)]_vars => [][Born(s) => ~killed'[s]]_vars

-----------------------------------------------------------------------------
(***************************************************************************)
(* The inductive invariant behind the safety properties (ProcProofs).      *)
(***************************************************************************)
Alive    == {"SLEEPING", "RUNNABLE", "RUNNING"}
Forking  == {"fork_parent", "fork_run"}
Holding  == {"wait_scan", "wait_killed", "wait_sleep",
             "exit_reparent", "exit_wakeup", "exit_zombie"}

\* who is on a CPU, and what p->lock protects while swtch is under way
CpuInv ==
  /\ OneCpuPerProcess
  /\ \A s \in Slots : plock[s] => OnCpu(s) /\ state[s] \in Alive \cup {"ZOMBIE"}

\* wait_lock is held exactly inside its critical sections, by a running process
LockInv ==
  \A s \in Slots : /\ pc[s] \in Holding <=> waitLock = s
                   /\ waitLock = s => state[s] = "RUNNING"

\* how a slot's state and its place in the kernel go together
LabelInv ==
  \A s \in Slots : /\ state[s] = "UNUSED" <=> pc[s] = "none"
                   /\ state[s] = "ZOMBIE" <=> pc[s] = "dead"
                   /\ state[s] = "USED" => pc[s] = "user"
                   /\ state[s] = "SLEEPING" => pc[s] = "wait_acq" /\ chan[s] = s

\* a fork in progress owns its child's slot
ForkInv ==
  /\ \A p \in Slots : pc[p] \in Forking => child[p] \in Slots /\ state[child[p]] = "USED"
  /\ \A p \in Slots : pc[p] = "fork_run" => parent[child[p]] = p
  /\ \A p, q \in Slots : pc[p] \in Forking /\ pc[q] \in Forking /\ child[p] = child[q] => p = q

\* who is whose parent; init never gets into the middle of kexit
FamilyInv ==
  /\ state[initproc] \in Alive
  /\ pc[initproc] \notin {"exit_reparent", "exit_wakeup", "exit_zombie"}
  /\ \A s \in Slots : state[s] = "UNUSED" => parent[s] = Null
  /\ \A s \in Slots : parent[s] # Null => state[parent[s]] \in Alive
  /\ \A s \in Slots \ {initproc} : state[s] \in Alive \cup {"ZOMBIE"} => parent[s] # Null
  /\ \A p, s \in Slots : pc[p] \in {"exit_wakeup", "exit_zombie"} => parent[s] # p

\* who may be asleep, or about to be, when a child exits
WaitInv ==
  /\ \A p, s \in Slots :
       state[p] = "SLEEPING" \/ pc[p] \in {"wait_killed", "wait_sleep"} =>
         ~(Awaits(p, s) /\ state[s] = "ZOMBIE")
  /\ \A p \in Slots : pc[p] = "exit_zombie" => state[parent[p]] # "SLEEPING"

IInv == TypeOK /\ CpuInv /\ LockInv /\ LabelInv /\ ForkInv /\ FamilyInv /\ WaitInv

\* pid 0 marks the free slots
PidInv == nextpid > 0 /\ \A s \in Slots : pid[s] = 0 <=> state[s] = "UNUSED"

-----------------------------------------------------------------------------
(* Liveness *)

\* init came to the bound MaxPid: the model, not the code, stops it
AtPidBound == shell = 0 /\ nextpid > MaxPid

\* A process in wait or join one of whose awaited children has exited comes
\* back from the call (kwait, kjoin, wakeup in kexit).
WaitReturns ==
  \A p \in Slots : (InWait(p) /\ Reapable(p) # {}) ~> (~InWait(p) \/ panicked)

Orphaned(s) == state[s] = "ZOMBIE" /\ parent[s] = initproc

\* A dead process handed to init is freed by init's wait loop.
OrphanProcessReaped ==
  \A s \in Slots :
    (Orphaned(s) /\ ~isThread[s]) ~> (state[s] = "UNUSED" \/ panicked \/ AtPidBound)

=============================================================================
