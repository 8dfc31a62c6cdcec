----------------------------- MODULE ProcProofs -----------------------------
(***************************************************************************)
(* Proofs about the process table: IInv is inductive, and the safety       *)
(* properties of Proc follow from it, for every NPROC, NCPU and MaxPid.    *)
(* One lemma per action, one step per conjunct of IInv.                    *)
(***************************************************************************)
EXTENDS Proc, TLAPS

\* Slot 1 exists, and the null pointer is no slot (procinit, userinit).
LEMMA ConstFacts == initproc \in Slots /\ Null \notin Slots
  BY SizesAssumption DEF initproc, Slots, Null

\* A process that executes kernel code is RUNNING (sched keeps p->lock otherwise).
LEMMA RunningAt ==
  ASSUME IInv, NEW p \in Slots, NEW l, At(p, l)
  PROVE  state[p] = "RUNNING" /\ pc[p] = l /\ ~plock[p]
  BY DEF IInv, CpuInv, OneCpuPerProcess, At

\* Reapable is empty exactly when no awaited child is a ZOMBIE (kwait, kjoin).
LEMMA ReapableEmpty ==
  ASSUME NEW p \in Slots
  PROVE  Reapable(p) = {} <=> \A s \in Slots : ~(Awaits(p, s) /\ state[s] = "ZOMBIE")
  BY DEF Reapable, Awaited

\* The state procinit and userinit leave behind satisfies the invariant.
LEMMA InitIInv == Init => IInv
<1>. SUFFICES ASSUME Init PROVE IInv
  OBVIOUS
<1>. USE ConstFacts DEF Init
<1>1. TypeOK
  BY DEF TypeOK, States, Labels, Null
<1>2. CpuInv
  BY DEF CpuInv, OneCpuPerProcess, OnCpu
<1>3. LockInv
  BY DEF LockInv, Holding
<1>4. LabelInv
  BY DEF LabelInv
<1>5. ForkInv
  BY DEF ForkInv, Forking
<1>6. FamilyInv
  BY DEF FamilyInv, Alive
<1>7. WaitInv
  BY DEF WaitInv
<1>. QED
  BY <1>1, <1>2, <1>3, <1>4, <1>5, <1>6, <1>7 DEF IInv

-----------------------------------------------------------------------------
(* Every action preserves the invariant *)

\* fork_with_priority, kclone: a free slot becomes the child of a fork in progress.
LEMMA ForkAllocIInv ==
  ASSUME IInv, NEW p \in Slots, NEW s \in Slots,
         NEW thread \in BOOLEAN, ForkAlloc(p, s, thread)
  PROVE  IInv'
<1>1. state[p] = "RUNNING" /\ pc[p] = "user" /\ ~plock[p]
  BY RunningAt DEF Syscall, ForkAlloc
<1>. USE <1>1, ConstFacts DEF IInv, ForkAlloc, initVars
<1>2. TypeOK'
  BY DEF TypeOK, States, Labels
<1>3. CpuInv'
  BY DEF CpuInv, OneCpuPerProcess, OnCpu, Alive, TypeOK
<1>4. LockInv'
  BY DEF LockInv, Holding, TypeOK
<1>5. LabelInv'
  BY DEF LabelInv, TypeOK
<1>6. ForkInv'
  BY DEF ForkInv, Forking, LabelInv, TypeOK
<1>7. FamilyInv'
  BY DEF FamilyInv, Alive, LabelInv, TypeOK
<1>8. WaitInv'
  BY DEF WaitInv, Awaits, KwaitMatch, KjoinMatch, LabelInv, LockInv, Holding, TypeOK
<1>. QED
  BY <1>2, <1>3, <1>4, <1>5, <1>6, <1>7, <1>8

\* fork with a full table.
LEMMA ForkFullIInv ==
  ASSUME IInv, NEW p \in Slots,
         NEW call \in {"fork", "clone"}, ForkFull(p, call)
  PROVE  IInv'
<1>1. state[p] = "RUNNING" /\ pc[p] = "user" /\ ~plock[p]
  BY RunningAt DEF Syscall, ForkFull
<1>. USE <1>1, ConstFacts DEF IInv, ForkFull, procVars, Return, Goto
<1>2. TypeOK'
  BY DEF TypeOK, States, Labels
<1>3. CpuInv'
  BY DEF CpuInv, OneCpuPerProcess, OnCpu, Alive, TypeOK
<1>4. LockInv'
  BY DEF LockInv, Holding, TypeOK
<1>5. LabelInv'
  BY DEF LabelInv, TypeOK
<1>6. ForkInv'
  BY DEF ForkInv, Forking, LabelInv, TypeOK
<1>7. FamilyInv'
  BY DEF FamilyInv, Alive, LabelInv, TypeOK
<1>8. WaitInv'
  BY DEF WaitInv, Awaits, KwaitMatch, KjoinMatch, LabelInv, LockInv, Holding, TypeOK
<1>. QED
  BY <1>2, <1>3, <1>4, <1>5, <1>6, <1>7, <1>8

\* fork that runs out of memory: the slot is free again.
LEMMA ForkNoMemoryIInv ==
  ASSUME IInv, NEW p \in Slots, NEW s \in Slots,
         NEW call \in {"fork", "clone"}, ForkNoMemory(p, s, call)
  PROVE  IInv'
<1>1. state[p] = "RUNNING" /\ pc[p] = "user" /\ ~plock[p]
  BY RunningAt DEF Syscall, ForkNoMemory
<1>. USE <1>1, ConstFacts DEF IInv, ForkNoMemory, Freeproc, Return, Goto
<1>2. TypeOK'
  BY DEF TypeOK, States, Labels
<1>3. CpuInv'
  BY DEF CpuInv, OneCpuPerProcess, OnCpu, Alive, TypeOK
<1>4. LockInv'
  BY DEF LockInv, Holding, TypeOK
<1>5. LabelInv'
  BY DEF LabelInv, TypeOK
<1>6. ForkInv'
  BY DEF ForkInv, Forking, LabelInv, TypeOK
<1>7. FamilyInv'
  BY DEF FamilyInv, Alive, LabelInv, TypeOK
<1>8. WaitInv'
  BY DEF WaitInv, Awaits, KwaitMatch, KjoinMatch, LabelInv, LockInv, Holding, TypeOK
<1>. QED
  BY <1>2, <1>3, <1>4, <1>5, <1>6, <1>7, <1>8

\* np->parent = p.
LEMMA ForkParentIInv ==
  ASSUME IInv, NEW p \in Slots, ForkParent(p)
  PROVE  IInv'
<1>1. state[p] = "RUNNING" /\ pc[p] = "fork_parent" /\ ~plock[p]
  BY RunningAt DEF ForkParent
<1>. USE <1>1, ConstFacts DEF IInv, ForkParent, Goto, initVars
<1>2. TypeOK'
  BY DEF TypeOK, States, Labels, ForkInv, Forking
<1>3. CpuInv'
  BY DEF CpuInv, OneCpuPerProcess, OnCpu, Alive, TypeOK
<1>4. LockInv'
  BY DEF LockInv, Holding, TypeOK
<1>5. LabelInv'
  BY DEF LabelInv, TypeOK
<1>6. ForkInv'
  BY DEF ForkInv, Forking, LabelInv, TypeOK
<1>7. FamilyInv'
  BY DEF FamilyInv, Alive, LabelInv, TypeOK, ForkInv, Forking
<1>8. WaitInv'
  BY DEF WaitInv, Awaits, KwaitMatch, KjoinMatch, LabelInv, LockInv, Holding, TypeOK
<1>. QED
  BY <1>2, <1>3, <1>4, <1>5, <1>6, <1>7, <1>8

\* np->state = RUNNABLE: the child joins the processes ParentAlive is about.
LEMMA ForkRunIInv ==
  ASSUME IInv, NEW p \in Slots, ForkRun(p)
  PROVE  IInv'
<1>1. state[p] = "RUNNING" /\ pc[p] = "fork_run" /\ ~plock[p]
  BY RunningAt DEF ForkRun
<1>. USE <1>1, ConstFacts DEF IInv, ForkRun, Return, Goto
<1>2. TypeOK'
  BY DEF TypeOK, States, Labels, ForkInv, Forking
<1>3. CpuInv'
  BY DEF CpuInv, OneCpuPerProcess, OnCpu, Alive, TypeOK, ForkInv, Forking
<1>4. LockInv'
  BY DEF LockInv, Holding, TypeOK, ForkInv, Forking
<1>5. LabelInv'
  BY DEF LabelInv, TypeOK, ForkInv, Forking
<1>6. ForkInv'
  BY DEF ForkInv, Forking, LabelInv, TypeOK
<1>7. FamilyInv'
  BY DEF FamilyInv, Alive, LabelInv, TypeOK, ForkInv, Forking
<1>8. WaitInv'
  BY DEF WaitInv, Awaits, KwaitMatch, KjoinMatch, LabelInv, LockInv, Holding, TypeOK, ForkInv, Forking
<1>. QED
  BY <1>2, <1>3, <1>4, <1>5, <1>6, <1>7, <1>8

\* wait is called.
LEMMA WaitCallIInv ==
  ASSUME IInv, NEW p \in Slots, WaitCall(p)
  PROVE  IInv'
<1>1. state[p] = "RUNNING" /\ pc[p] = "user" /\ ~plock[p]
  BY RunningAt DEF Syscall, WaitCall
<1>. USE <1>1, ConstFacts DEF IInv, WaitCall, procVars, Goto, initVars
<1>2. TypeOK'
  BY DEF TypeOK, States, Labels
<1>3. CpuInv'
  BY DEF CpuInv, OneCpuPerProcess, OnCpu, Alive, TypeOK
<1>4. LockInv'
  BY DEF LockInv, Holding, TypeOK
<1>5. LabelInv'
  BY DEF LabelInv, TypeOK
<1>6. ForkInv'
  BY DEF ForkInv, Forking, LabelInv, TypeOK
<1>7. FamilyInv'
  BY DEF FamilyInv, Alive, LabelInv, TypeOK
<1>8. WaitInv'
  BY DEF WaitInv, Awaits, KwaitMatch, KjoinMatch, LabelInv, LockInv, Holding, TypeOK
<1>. QED
  BY <1>2, <1>3, <1>4, <1>5, <1>6, <1>7, <1>8

\* join is called.
LEMMA JoinCallIInv ==
  ASSUME IInv, NEW p \in Slots, NEW t \in 1 .. MaxPid, JoinCall(p, t)
  PROVE  IInv'
<1>1. state[p] = "RUNNING" /\ pc[p] = "user" /\ ~plock[p]
  BY RunningAt DEF Syscall, JoinCall
<1>. USE <1>1, ConstFacts DEF IInv, JoinCall, procVars, Goto, initVars
<1>2. TypeOK'
  BY DEF TypeOK, States, Labels
<1>3. CpuInv'
  BY DEF CpuInv, OneCpuPerProcess, OnCpu, Alive, TypeOK
<1>4. LockInv'
  BY DEF LockInv, Holding, TypeOK
<1>5. LabelInv'
  BY DEF LabelInv, TypeOK
<1>6. ForkInv'
  BY DEF ForkInv, Forking, LabelInv, TypeOK
<1>7. FamilyInv'
  BY DEF FamilyInv, Alive, LabelInv, TypeOK
<1>8. WaitInv'
  BY DEF WaitInv, Awaits, KwaitMatch, KjoinMatch, LabelInv, LockInv, Holding, TypeOK
<1>. QED
  BY <1>2, <1>3, <1>4, <1>5, <1>6, <1>7, <1>8

\* wait_lock is taken by wait or join.
LEMMA WaitAcquireIInv ==
  ASSUME IInv, NEW p \in Slots, WaitAcquire(p)
  PROVE  IInv'
<1>1. state[p] = "RUNNING" /\ pc[p] = "wait_acq" /\ ~plock[p]
  BY RunningAt DEF WaitAcquire
<1>. USE <1>1, ConstFacts DEF IInv, WaitAcquire, procVars, Goto, initVars
<1>2. TypeOK'
  BY DEF TypeOK, States, Labels
<1>3. CpuInv'
  BY DEF CpuInv, OneCpuPerProcess, OnCpu, Alive, TypeOK
<1>4. LockInv'
  BY DEF LockInv, Holding, TypeOK
<1>5. LabelInv'
  BY DEF LabelInv, TypeOK
<1>6. ForkInv'
  BY DEF ForkInv, Forking, LabelInv, TypeOK
<1>7. FamilyInv'
  BY DEF FamilyInv, Alive, LabelInv, TypeOK
<1>8. WaitInv'
  BY DEF WaitInv, Awaits, KwaitMatch, KjoinMatch, LabelInv, LockInv, Holding, TypeOK
<1>. QED
  BY <1>2, <1>3, <1>4, <1>5, <1>6, <1>7, <1>8

\* a ZOMBIE is freed; nobody has a ZOMBIE as parent.
LEMMA WaitReapIInv ==
  ASSUME IInv, NEW p \in Slots, WaitReap(p)
  PROVE  IInv'
<1>1. state[p] = "RUNNING" /\ pc[p] = "wait_scan" /\ ~plock[p]
  BY RunningAt DEF WaitReap
<1>. USE <1>1, ConstFacts DEF IInv, WaitReap, Freeproc, Reapable, Awaited, Awaits, KwaitMatch, KjoinMatch
<1>2. TypeOK'
  BY DEF TypeOK, States, Labels
<1>3. CpuInv'
  BY DEF CpuInv, OneCpuPerProcess, OnCpu, Alive, TypeOK
<1>4. LockInv'
  BY DEF LockInv, Holding, TypeOK
<1>5. LabelInv'
  BY DEF LabelInv, TypeOK
<1>6. ForkInv'
  BY DEF ForkInv, Forking, LabelInv, TypeOK
<1>7. FamilyInv'
  BY DEF FamilyInv, Alive, LabelInv, TypeOK
<1>8. WaitInv'
  BY DEF WaitInv, LabelInv, LockInv, Holding, TypeOK
<1>. QED
  BY <1>2, <1>3, <1>4, <1>5, <1>6, <1>7, <1>8

\* wait fails and leaves the ZOMBIE.
LEMMA WaitCopyoutFailsIInv ==
  ASSUME IInv, NEW p \in Slots, WaitCopyoutFails(p)
  PROVE  IInv'
<1>1. state[p] = "RUNNING" /\ pc[p] = "wait_scan" /\ ~plock[p]
  BY RunningAt DEF WaitCopyoutFails
<1>. USE <1>1, ConstFacts DEF IInv, WaitCopyoutFails, procVars, Return, Goto
<1>2. TypeOK'
  BY DEF TypeOK, States, Labels
<1>3. CpuInv'
  BY DEF CpuInv, OneCpuPerProcess, OnCpu, Alive, TypeOK
<1>4. LockInv'
  BY DEF LockInv, Holding, TypeOK
<1>5. LabelInv'
  BY DEF LabelInv, TypeOK
<1>6. ForkInv'
  BY DEF ForkInv, Forking, LabelInv, TypeOK
<1>7. FamilyInv'
  BY DEF FamilyInv, Alive, LabelInv, TypeOK
<1>8. WaitInv'
  BY DEF WaitInv, Awaits, KwaitMatch, KjoinMatch, LabelInv, LockInv, Holding, TypeOK
<1>. QED
  BY <1>2, <1>3, <1>4, <1>5, <1>6, <1>7, <1>8

\* wait or join finds nothing to wait for.
LEMMA WaitNoKidsIInv ==
  ASSUME IInv, NEW p \in Slots, WaitNoKids(p)
  PROVE  IInv'
<1>1. state[p] = "RUNNING" /\ pc[p] = "wait_scan" /\ ~plock[p]
  BY RunningAt DEF WaitNoKids
<1>. USE <1>1, ConstFacts DEF IInv, WaitNoKids, procVars, Return, Goto
<1>2. TypeOK'
  BY DEF TypeOK, States, Labels
<1>3. CpuInv'
  BY DEF CpuInv, OneCpuPerProcess, OnCpu, Alive, TypeOK
<1>4. LockInv'
  BY DEF LockInv, Holding, TypeOK
<1>5. LabelInv'
  BY DEF LabelInv, TypeOK
<1>6. ForkInv'
  BY DEF ForkInv, Forking, LabelInv, TypeOK
<1>7. FamilyInv'
  BY DEF FamilyInv, Alive, LabelInv, TypeOK
<1>8. WaitInv'
  BY DEF WaitInv, Awaits, KwaitMatch, KjoinMatch, LabelInv, LockInv, Holding, TypeOK
<1>. QED
  BY <1>2, <1>3, <1>4, <1>5, <1>6, <1>7, <1>8

\* the scan found no ZOMBIE: the fact that WaitInv carries on to sleep().
LEMMA WaitNoZombieIInv ==
  ASSUME IInv, NEW p \in Slots, WaitNoZombie(p)
  PROVE  IInv'
<1>1. state[p] = "RUNNING" /\ pc[p] = "wait_scan" /\ ~plock[p]
  BY RunningAt DEF WaitNoZombie
<1>. USE <1>1, ConstFacts DEF IInv, WaitNoZombie, procVars, Goto, initVars, Reapable, Awaited
<1>2. TypeOK'
  BY DEF TypeOK, States, Labels
<1>3. CpuInv'
  BY DEF CpuInv, OneCpuPerProcess, OnCpu, Alive, TypeOK
<1>4. LockInv'
  BY DEF LockInv, Holding, TypeOK
<1>5. LabelInv'
  BY DEF LabelInv, TypeOK
<1>6. ForkInv'
  BY DEF ForkInv, Forking, LabelInv, TypeOK
<1>7. FamilyInv'
  BY DEF FamilyInv, Alive, LabelInv, TypeOK
<1>8. WaitInv'
  BY DEF WaitInv, Awaits, KwaitMatch, KjoinMatch, LabelInv, LockInv, Holding, TypeOK
<1>. QED
  BY <1>2, <1>3, <1>4, <1>5, <1>6, <1>7, <1>8

\* the killed() test of wait and join.
LEMMA WaitKilledIInv ==
  ASSUME IInv, NEW p \in Slots, WaitKilled(p)
  PROVE  IInv'
<1>1. state[p] = "RUNNING" /\ pc[p] = "wait_killed" /\ ~plock[p]
  BY RunningAt DEF WaitKilled
<1>. USE <1>1, ConstFacts DEF IInv, WaitKilled, procVars, Return, Goto
<1>2. TypeOK'
  BY DEF TypeOK, States, Labels
<1>3. CpuInv'
  BY DEF CpuInv, OneCpuPerProcess, OnCpu, Alive, TypeOK
<1>4. LockInv'
  BY DEF LockInv, Holding, TypeOK
<1>5. LabelInv'
  BY DEF LabelInv, TypeOK
<1>6. ForkInv'
  BY DEF ForkInv, Forking, LabelInv, TypeOK
<1>7. FamilyInv'
  BY DEF FamilyInv, Alive, LabelInv, TypeOK
<1>8. WaitInv'
  BY DEF WaitInv, Awaits, KwaitMatch, KjoinMatch, LabelInv, LockInv, Holding, TypeOK
<1>. QED
  BY <1>2, <1>3, <1>4, <1>5, <1>6, <1>7, <1>8

\* sleep(): the waiter gives up wait_lock.
LEMMA SleepIInv ==
  ASSUME IInv, NEW p \in Slots, Sleep(p)
  PROVE  IInv'
<1>1. state[p] = "RUNNING" /\ pc[p] = "wait_sleep" /\ ~plock[p]
  BY RunningAt DEF Sleep
<1>. USE <1>1, ConstFacts DEF IInv, Sleep, Goto, initVars
<1>2. TypeOK'
  BY DEF TypeOK, States, Labels
<1>3. CpuInv'
  BY DEF CpuInv, OneCpuPerProcess, OnCpu, Alive, TypeOK
<1>4. LockInv'
  BY DEF LockInv, Holding, TypeOK
<1>5. LabelInv'
  BY DEF LabelInv, TypeOK
<1>6. ForkInv'
  BY DEF ForkInv, Forking, LabelInv, TypeOK
<1>7. FamilyInv'
  BY DEF FamilyInv, Alive, LabelInv, TypeOK
<1>8. WaitInv'
  BY DEF WaitInv, Awaits, KwaitMatch, KjoinMatch, LabelInv, LockInv, Holding, TypeOK
<1>. QED
  BY <1>2, <1>3, <1>4, <1>5, <1>6, <1>7, <1>8

\* exit is called.
LEMMA ExitCallIInv ==
  ASSUME IInv, NEW p \in Slots, ExitCall(p)
  PROVE  IInv'
<1>1. state[p] = "RUNNING" /\ pc[p] = "user" /\ ~plock[p]
  BY RunningAt DEF Syscall, ExitCall
<1>. USE <1>1, ConstFacts DEF IInv, ExitCall, procVars, Goto, initVars
<1>2. TypeOK'
  BY DEF TypeOK, States, Labels
<1>3. CpuInv'
  BY DEF CpuInv, OneCpuPerProcess, OnCpu, Alive, TypeOK
<1>4. LockInv'
  BY DEF LockInv, Holding, TypeOK
<1>5. LabelInv'
  BY DEF LabelInv, TypeOK
<1>6. ForkInv'
  BY DEF ForkInv, Forking, LabelInv, TypeOK
<1>7. FamilyInv'
  BY DEF FamilyInv, Alive, LabelInv, TypeOK
<1>8. WaitInv'
  BY DEF WaitInv, Awaits, KwaitMatch, KjoinMatch, LabelInv, LockInv, Holding, TypeOK
<1>. QED
  BY <1>2, <1>3, <1>4, <1>5, <1>6, <1>7, <1>8

\* kexit takes wait_lock, or panics.
LEMMA ExitAcquireIInv ==
  ASSUME IInv, NEW p \in Slots, ExitAcquire(p)
  PROVE  IInv'
<1>1. state[p] = "RUNNING" /\ pc[p] = "exit" /\ ~plock[p]
  BY RunningAt DEF ExitAcquire
<1>. USE <1>1, ConstFacts DEF IInv, ExitAcquire, procVars, Goto
<1>2. TypeOK'
  BY DEF TypeOK, States, Labels
<1>3. CpuInv'
  BY DEF CpuInv, OneCpuPerProcess, OnCpu, Alive, TypeOK
<1>4. LockInv'
  BY DEF LockInv, Holding, TypeOK
<1>5. LabelInv'
  BY DEF LabelInv, TypeOK
<1>6. ForkInv'
  BY DEF ForkInv, Forking, LabelInv, TypeOK
<1>7. FamilyInv'
  BY DEF FamilyInv, Alive, LabelInv, TypeOK
<1>8. WaitInv'
  BY DEF WaitInv, Awaits, KwaitMatch, KjoinMatch, LabelInv, LockInv, Holding, TypeOK
<1>. QED
  BY <1>2, <1>3, <1>4, <1>5, <1>6, <1>7, <1>8

\* the children change parent, and init is woken if there are any.
LEMMA ReparentIInv ==
  ASSUME IInv, NEW p \in Slots, Reparent(p)
  PROVE  IInv'
<1>1. state[p] = "RUNNING" /\ pc[p] = "exit_reparent" /\ ~plock[p]
  BY RunningAt DEF Reparent
<1>. USE <1>1, ConstFacts DEF IInv, Reparent, Goto, Wakeup, initVars
<1>2. TypeOK'
  BY DEF TypeOK, States, Labels
<1>3. CpuInv'
  BY DEF CpuInv, OneCpuPerProcess, OnCpu, Alive, TypeOK
<1>4. LockInv'
  BY DEF LockInv, Holding, TypeOK
<1>5. LabelInv'
  BY DEF LabelInv, TypeOK
<1>6. ForkInv'
  BY DEF ForkInv, Forking, LabelInv, TypeOK
<1>7. FamilyInv'
  BY DEF FamilyInv, Alive, LabelInv, TypeOK
<1>8. WaitInv'
  BY DEF WaitInv, Awaits, KwaitMatch, KjoinMatch, LabelInv, LockInv, Holding, TypeOK
<1>. QED
  BY <1>2, <1>3, <1>4, <1>5, <1>6, <1>7, <1>8

\* after wakeup(p->parent) the parent is not asleep.
LEMMA ExitWakeupIInv ==
  ASSUME IInv, NEW p \in Slots, ExitWakeup(p)
  PROVE  IInv'
<1>1. state[p] = "RUNNING" /\ pc[p] = "exit_wakeup" /\ ~plock[p]
  BY RunningAt DEF ExitWakeup
<1>. USE <1>1, ConstFacts DEF IInv, ExitWakeup, Goto, Wakeup, initVars
<1>2. TypeOK'
  BY DEF TypeOK, States, Labels
<1>3. CpuInv'
  BY DEF CpuInv, OneCpuPerProcess, OnCpu, Alive, TypeOK
<1>4. LockInv'
  BY DEF LockInv, Holding, TypeOK
<1>5. LabelInv'
  BY DEF LabelInv, TypeOK
<1>6. ForkInv'
  BY DEF ForkInv, Forking, LabelInv, TypeOK
<1>7. FamilyInv'
  BY DEF FamilyInv, Alive, LabelInv, TypeOK
<1>8. WaitInv'
  BY DEF WaitInv, Awaits, KwaitMatch, KjoinMatch, LabelInv, LockInv, Holding, TypeOK, FamilyInv, Alive, CpuInv
<1>. QED
  BY <1>2, <1>3, <1>4, <1>5, <1>6, <1>7, <1>8

\* p becomes a ZOMBIE: it has no children left, and its parent is awake.
LEMMA ExitZombieIInv ==
  ASSUME IInv, NEW p \in Slots, ExitZombie(p)
  PROVE  IInv'
<1>1. state[p] = "RUNNING" /\ pc[p] = "exit_zombie" /\ ~plock[p]
  BY RunningAt DEF ExitZombie
<1>. USE <1>1, ConstFacts DEF IInv, ExitZombie, Goto, initVars
<1>2. TypeOK'
  BY DEF TypeOK, States, Labels
<1>3. CpuInv'
  BY DEF CpuInv, OneCpuPerProcess, OnCpu, Alive, TypeOK
<1>4. LockInv'
  BY DEF LockInv, Holding, TypeOK
<1>5. LabelInv'
  BY DEF LabelInv, TypeOK
<1>6. ForkInv'
  BY DEF ForkInv, Forking, LabelInv, TypeOK
<1>7. FamilyInv'
  BY DEF FamilyInv, Alive, LabelInv, TypeOK
<1>8. WaitInv'
  BY DEF WaitInv, Awaits, KwaitMatch, KjoinMatch, LabelInv, LockInv, Holding, TypeOK
<1>. QED
  BY <1>2, <1>3, <1>4, <1>5, <1>6, <1>7, <1>8

\* kill.
LEMMA KillIInv ==
  ASSUME IInv, NEW p \in Slots, NEW k \in KillPids, Kill(p, k)
  PROVE  IInv'
<1>1. state[p] = "RUNNING" /\ pc[p] = "user" /\ ~plock[p]
  BY RunningAt DEF Syscall, Kill
<1>. USE <1>1, ConstFacts DEF IInv, Kill, Return, Goto
<1>2. TypeOK'
  BY DEF TypeOK, States, Labels
<1>3. CpuInv'
  BY DEF CpuInv, OneCpuPerProcess, OnCpu, Alive, TypeOK
<1>4. LockInv'
  BY DEF LockInv, Holding, TypeOK
<1>5. LabelInv'
  BY DEF LabelInv, TypeOK
<1>6. ForkInv'
  BY DEF ForkInv, Forking, LabelInv, TypeOK
<1>7. FamilyInv'
  BY DEF FamilyInv, Alive, LabelInv, TypeOK
<1>8. WaitInv'
  BY DEF WaitInv, Awaits, KwaitMatch, KjoinMatch, LabelInv, LockInv, Holding, TypeOK
<1>. QED
  BY <1>2, <1>3, <1>4, <1>5, <1>6, <1>7, <1>8

\* sigsend.
LEMMA SigsendIInv ==
  ASSUME IInv, NEW p \in Slots, NEW q \in Slots, Sigsend(p, q)
  PROVE  IInv'
<1>1. state[p] = "RUNNING" /\ pc[p] = "user" /\ ~plock[p]
  BY RunningAt DEF Syscall, Sigsend
<1>. USE <1>1, ConstFacts DEF IInv, Sigsend, Return, Goto
<1>2. TypeOK'
  BY DEF TypeOK, States, Labels
<1>3. CpuInv'
  BY DEF CpuInv, OneCpuPerProcess, OnCpu, Alive, TypeOK
<1>4. LockInv'
  BY DEF LockInv, Holding, TypeOK
<1>5. LabelInv'
  BY DEF LabelInv, TypeOK
<1>6. ForkInv'
  BY DEF ForkInv, Forking, LabelInv, TypeOK
<1>7. FamilyInv'
  BY DEF FamilyInv, Alive, LabelInv, TypeOK
<1>8. WaitInv'
  BY DEF WaitInv, Awaits, KwaitMatch, KjoinMatch, LabelInv, LockInv, Holding, TypeOK
<1>. QED
  BY <1>2, <1>3, <1>4, <1>5, <1>6, <1>7, <1>8

\* setkilled.
LEMMA UserFaultIInv ==
  ASSUME IInv, NEW p \in Slots, UserFault(p)
  PROVE  IInv'
<1>1. state[p] = "RUNNING" /\ pc[p] = "user" /\ ~plock[p]
  BY RunningAt DEF Syscall, UserFault
<1>. USE <1>1, ConstFacts DEF IInv, UserFault, Return, Goto
<1>2. TypeOK'
  BY DEF TypeOK, States, Labels
<1>3. CpuInv'
  BY DEF CpuInv, OneCpuPerProcess, OnCpu, Alive, TypeOK
<1>4. LockInv'
  BY DEF LockInv, Holding, TypeOK
<1>5. LabelInv'
  BY DEF LabelInv, TypeOK
<1>6. ForkInv'
  BY DEF ForkInv, Forking, LabelInv, TypeOK
<1>7. FamilyInv'
  BY DEF FamilyInv, Alive, LabelInv, TypeOK
<1>8. WaitInv'
  BY DEF WaitInv, Awaits, KwaitMatch, KjoinMatch, LabelInv, LockInv, Holding, TypeOK
<1>. QED
  BY <1>2, <1>3, <1>4, <1>5, <1>6, <1>7, <1>8

\* usertrap's first killed() check.
LEMMA TrapKilledIInv ==
  ASSUME IInv, NEW p \in Slots, TrapKilled(p)
  PROVE  IInv'
<1>1. state[p] = "RUNNING" /\ pc[p] = "user" /\ ~plock[p]
  BY RunningAt DEF TrapKilled
<1>. USE <1>1, ConstFacts DEF IInv, TrapKilled, procVars, Goto, initVars
<1>2. TypeOK'
  BY DEF TypeOK, States, Labels
<1>3. CpuInv'
  BY DEF CpuInv, OneCpuPerProcess, OnCpu, Alive, TypeOK
<1>4. LockInv'
  BY DEF LockInv, Holding, TypeOK
<1>5. LabelInv'
  BY DEF LabelInv, TypeOK
<1>6. ForkInv'
  BY DEF ForkInv, Forking, LabelInv, TypeOK
<1>7. FamilyInv'
  BY DEF FamilyInv, Alive, LabelInv, TypeOK
<1>8. WaitInv'
  BY DEF WaitInv, Awaits, KwaitMatch, KjoinMatch, LabelInv, LockInv, Holding, TypeOK
<1>. QED
  BY <1>2, <1>3, <1>4, <1>5, <1>6, <1>7, <1>8

\* usertrap's second killed() check.
LEMMA TrapReturnIInv ==
  ASSUME IInv, NEW p \in Slots, TrapReturn(p)
  PROVE  IInv'
<1>1. state[p] = "RUNNING" /\ pc[p] = "ret" /\ ~plock[p]
  BY RunningAt DEF TrapReturn
<1>. USE <1>1, ConstFacts DEF IInv, TrapReturn, procVars, Goto
<1>2. TypeOK'
  BY DEF TypeOK, States, Labels
<1>3. CpuInv'
  BY DEF CpuInv, OneCpuPerProcess, OnCpu, Alive, TypeOK
<1>4. LockInv'
  BY DEF LockInv, Holding, TypeOK
<1>5. LabelInv'
  BY DEF LabelInv, TypeOK
<1>6. ForkInv'
  BY DEF ForkInv, Forking, LabelInv, TypeOK
<1>7. FamilyInv'
  BY DEF FamilyInv, Alive, LabelInv, TypeOK
<1>8. WaitInv'
  BY DEF WaitInv, Awaits, KwaitMatch, KjoinMatch, LabelInv, LockInv, Holding, TypeOK
<1>. QED
  BY <1>2, <1>3, <1>4, <1>5, <1>6, <1>7, <1>8

\* a CPU picks a RUNNABLE process.
LEMMA SchedulerIInv ==
  ASSUME IInv, NEW c \in CPUs, NEW p \in Slots, Scheduler(c, p)
  PROVE  IInv'
<1>. USE ConstFacts DEF IInv, Scheduler, runVars, initVars
<1>1. TypeOK'
  BY DEF TypeOK, States, Labels
<1>2. CpuInv'
  BY DEF CpuInv, OneCpuPerProcess, OnCpu, Alive, TypeOK
<1>3. LockInv'
  BY DEF LockInv, Holding, TypeOK
<1>4. LabelInv'
  BY DEF LabelInv, TypeOK
<1>5. ForkInv'
  BY DEF ForkInv, Forking, LabelInv, TypeOK
<1>6. FamilyInv'
  BY DEF FamilyInv, Alive, LabelInv, TypeOK
<1>7. WaitInv'
  BY DEF WaitInv, Awaits, KwaitMatch, KjoinMatch, LabelInv, LockInv, Holding, TypeOK
<1>. QED
  BY <1>1, <1>2, <1>3, <1>4, <1>5, <1>6, <1>7

\* yield, up to sched().
LEMMA YieldIInv ==
  ASSUME IInv, NEW p \in Slots, Yield(p)
  PROVE  IInv'
<1>1. state[p] = "RUNNING"
  BY DEF Yield, IInv, CpuInv, OneCpuPerProcess
<1>. USE <1>1, ConstFacts DEF IInv, Yield, InterruptsOn, runVars, initVars
<1>2. TypeOK'
  BY DEF TypeOK, States, Labels
<1>3. CpuInv'
  BY DEF CpuInv, OneCpuPerProcess, OnCpu, Alive, TypeOK
<1>4. LockInv'
  BY DEF LockInv, Holding, TypeOK
<1>5. LabelInv'
  BY DEF LabelInv, TypeOK
<1>6. ForkInv'
  BY DEF ForkInv, Forking, LabelInv, TypeOK
<1>7. FamilyInv'
  BY DEF FamilyInv, Alive, LabelInv, TypeOK
<1>8. WaitInv'
  BY DEF WaitInv, Awaits, KwaitMatch, KjoinMatch, LabelInv, LockInv, Holding, TypeOK
<1>. QED
  BY <1>2, <1>3, <1>4, <1>5, <1>6, <1>7, <1>8

\* swtch back to the scheduler.
LEMMA SchedIInv ==
  ASSUME IInv, NEW c \in CPUs, Sched(c)
  PROVE  IInv'
<1>. USE ConstFacts DEF IInv, Sched, procVars, runVars, initVars
<1>1. TypeOK'
  BY DEF TypeOK, States, Labels
<1>2. CpuInv'
  BY DEF CpuInv, OneCpuPerProcess, OnCpu, Alive, TypeOK
<1>3. LockInv'
  BY DEF LockInv, Holding, TypeOK
<1>4. LabelInv'
  BY DEF LabelInv, TypeOK
<1>5. ForkInv'
  BY DEF ForkInv, Forking, LabelInv, TypeOK
<1>6. FamilyInv'
  BY DEF FamilyInv, Alive, LabelInv, TypeOK
<1>7. WaitInv'
  BY DEF WaitInv, Awaits, KwaitMatch, KjoinMatch, LabelInv, LockInv, Holding, TypeOK
<1>. QED
  BY <1>1, <1>2, <1>3, <1>4, <1>5, <1>6, <1>7

-----------------------------------------------------------------------------
(* The invariant and what follows from it *)

\* Every step of the kernel and of the programs preserves the invariant.
LEMMA NextIInv == IInv /\ [Next]_vars => IInv'
<1>. SUFFICES ASSUME IInv, [Next]_vars PROVE IInv'
  OBVIOUS
<1>1. ASSUME NEW p \in Slots, KernelStep(p) PROVE IInv'
  BY <1>1, ForkParentIInv, ForkRunIInv, WaitAcquireIInv, WaitReapIInv,
     WaitCopyoutFailsIInv, WaitNoKidsIInv, WaitNoZombieIInv, WaitKilledIInv,
     SleepIInv, ExitAcquireIInv, ReparentIInv, ExitWakeupIInv, ExitZombieIInv,
     TrapKilledIInv, TrapReturnIInv DEF KernelStep
<1>2. ASSUME NEW p \in Slots, UserStep(p) PROVE IInv'
  BY <1>2, ForkAllocIInv, ForkFullIInv, ForkNoMemoryIInv, WaitCallIInv,
     JoinCallIInv, KillIInv, SigsendIInv, ExitCallIInv, UserFaultIInv DEF UserStep, ForkStep
<1>3. ASSUME vars' = vars PROVE IInv'
  BY <1>3 DEF vars, procVars, runVars, initVars, IInv, TypeOK, CpuInv,
     OneCpuPerProcess, OnCpu, LockInv, LabelInv, ForkInv, FamilyInv, WaitInv,
     Awaits, KwaitMatch, KjoinMatch
<1>. QED
  BY <1>1, <1>2, <1>3, YieldIInv, SchedulerIInv, SchedIInv DEF Next, Halted

\* The inductive invariant holds in every reachable state of the process table.
THEOREM IInvHolds == Spec => []IInv
  BY InitIInv, NextIInv, PTL DEF Spec

\* Every variable of the process table keeps its type.
THEOREM TypeCorrect == Spec => []TypeOK
<1>1. IInv => TypeOK
  BY DEF IInv
<1>. QED
  BY <1>1, IInvHolds, PTL

\* No process is ever on two CPUs, nor RUNNING while it is on none (scheduler).
THEOREM OneCpu == Spec => []OneCpuPerProcess
<1>1. IInv => OneCpuPerProcess
  BY DEF IInv, CpuInv
<1>. QED
  BY <1>1, IInvHolds, PTL

\* No slot is freed or reused while a CPU is on its kernel stack (kwait, kjoin).
THEOREM StackSafe == Spec => []StackNotFreed
<1>1. IInv => StackNotFreed
  BY DEF IInv, CpuInv, OneCpuPerProcess, StackNotFreed, Alive
<1>. QED
  BY <1>1, IInvHolds, PTL

\* Nobody but init is ever left without a living parent (reparent in kexit).
THEOREM FamilySafe == Spec => []ParentAlive
<1>1. IInv => ParentAlive
  BY DEF IInv, FamilyInv, ParentAlive, Alive, TypeOK
<1>. QED
  BY <1>1, IInvHolds, PTL

\* No parent sleeps through the exit of a child it awaits (wait_lock protocol).
THEOREM ExitNotMissed == Spec => []NoMissedExit
<1>1. IInv => NoMissedExit
  BY ReapableEmpty DEF IInv, WaitInv, NoMissedExit
<1>. QED
  BY <1>1, IInvHolds, PTL

\* An exit is collected once, by the parent, in the step in which its wait or
\* join returns; nothing else changes a ZOMBIE.
THEOREM ZombieReaped == Spec => ZombieLeavesByParent
<1>. DEFINE Collected ==
       \A s \in Slots : state[s] = "ZOMBIE" /\ state'[s] # "ZOMBIE" =>
         /\ state'[s] = "UNUSED"
         /\ waitLock = parent[s]
         /\ pc[parent[s]] = "wait_scan" /\ pc'[parent[s]] = "ret"
<1>1. ASSUME IInv, NEW p \in Slots, KernelStep(p) PROVE Collected
  <2>1. CASE WaitReap(p)
    <3>1. state[p] = "RUNNING" /\ pc[p] = "wait_scan"
      BY <1>1, <2>1, RunningAt DEF WaitReap
    <3>2. waitLock = p
      BY <1>1, <3>1 DEF IInv, LockInv, Holding
    <3>. QED
      BY <1>1, <2>1, <3>1, <3>2 DEF WaitReap, Freeproc, Reapable, Awaited, Awaits,
         KwaitMatch, KjoinMatch, IInv, TypeOK
  <2>2. CASE ForkRun(p)
    <3>1. state[child[p]] = "USED"
      BY <1>1, <2>2, RunningAt DEF ForkRun, IInv, ForkInv, Forking
    <3>. QED
      BY <1>1, <2>2, <3>1 DEF ForkRun, IInv, TypeOK
  <2>3. CASE Sleep(p) \/ ExitZombie(p)
    BY <1>1, <2>3, RunningAt DEF Sleep, ExitZombie, IInv, TypeOK
  <2>4. CASE Reparent(p) \/ ExitWakeup(p)
    BY <1>1, <2>4 DEF Reparent, ExitWakeup, Wakeup, IInv, TypeOK
  <2>. QED
    BY <1>1, <2>1, <2>2, <2>3, <2>4 DEF KernelStep, ForkParent, WaitAcquire,
       WaitCopyoutFails, WaitNoKids, WaitNoZombie, WaitKilled, ExitAcquire,
       TrapKilled, TrapReturn, procVars
<1>2. ASSUME IInv, NEW p \in Slots, UserStep(p) PROVE Collected
  BY <1>2 DEF UserStep, ForkStep, ForkAlloc, ForkFull, ForkNoMemory, Freeproc,
     WaitCall, JoinCall, Kill, Sigsend, ExitCall, UserFault, procVars, IInv, TypeOK
<1>3. ASSUME IInv, NEW p \in Slots, Yield(p) PROVE Collected
  BY <1>3 DEF Yield, IInv, TypeOK, CpuInv, OneCpuPerProcess
<1>4. ASSUME IInv, NEW c \in CPUs, NEW p \in Slots, Scheduler(c, p) PROVE Collected
  BY <1>4 DEF Scheduler, IInv, TypeOK
<1>5. ASSUME IInv, (\E c \in CPUs : Sched(c)) \/ Halted PROVE Collected
  BY <1>5 DEF Sched, Halted, vars, procVars
<1>6. IInv /\ [Next]_vars => [Collected]_vars
  BY <1>1, <1>2, <1>3, <1>4, <1>5 DEF Next
<1>. QED
  BY <1>6, IInvHolds, PTL DEF Spec, ZombieLeavesByParent

-----------------------------------------------------------------------------
(* Only kill(0) lets a child be born killed *)

\* Slots are free exactly when their pid is 0, and a free slot is killed by kill(0) only.
LEMMA NextFree ==
  ASSUME IInv, PidInv, [Next]_vars, NEW f \in Slots, ~KillsFree(f), state[f] = "UNUSED" => ~killed[f]
  PROVE  /\ PidInv'
         /\ state'[f] = "UNUSED" => ~killed'[f]
         /\ state[f] = "UNUSED" => ~killed'[f]
<1>. DEFINE Kept == /\ PidInv'
                    /\ state'[f] = "UNUSED" => ~killed'[f]
                    /\ state[f] = "UNUSED" => ~killed'[f]
<1>. SUFFICES Kept
  OBVIOUS
<1>. USE DEF PidInv, IInv, TypeOK
<1>1. ASSUME NEW p \in Slots, KernelStep(p) PROVE Kept
  <2>1. CASE WaitReap(p)
    BY <2>1 DEF WaitReap, Freeproc, Reapable, Awaited
  <2>2. CASE ForkRun(p)
    <3>1. child[p] \in Slots /\ state[child[p]] = "USED"
      BY <2>2, RunningAt DEF ForkRun, ForkInv, Forking
    <3>. QED
      BY <2>2, <3>1 DEF ForkRun
  <2>3. CASE Sleep(p) \/ ExitZombie(p)
    BY <2>3, RunningAt DEF Sleep, ExitZombie
  <2>4. CASE Reparent(p) \/ ExitWakeup(p)
    BY <2>4 DEF Reparent, ExitWakeup, Wakeup
  <2>. QED
    BY <1>1, <2>1, <2>2, <2>3, <2>4 DEF KernelStep, ForkParent, WaitAcquire,
       WaitCopyoutFails, WaitNoKids, WaitNoZombie, WaitKilled, ExitAcquire,
       TrapKilled, TrapReturn, procVars
<1>2. ASSUME NEW p \in Slots, UserStep(p) PROVE Kept
  <2>1. ASSUME NEW k \in KillPids, Kill(p, k) PROVE Kept
    <3>1. \A s \in Slots : (state'[s] = "UNUSED" <=> state[s] = "UNUSED") /\ pid'[s] = pid[s]
      BY <2>1 DEF Kill
    <3>2. killed'[f] /\ ~killed[f] => pid[f] = k
      BY <2>1 DEF Kill
    <3>3. ~(state[f] = "UNUSED" /\ killed'[f])
      <4>. SUFFICES ASSUME state[f] = "UNUSED", killed'[f] PROVE FALSE
        OBVIOUS
      <4>1. k = 0
        BY <3>2
      <4>. QED
        BY <1>2, <2>1, <4>1 DEF KillsFree
    <3>4. nextpid' = nextpid
      BY <2>1 DEF Kill
    <3>. QED
      BY <3>1, <3>3, <3>4
  <2>2. CASE UserFault(p)
    BY <2>2, RunningAt DEF UserFault, Syscall
  <2>3. CASE ForkStep(p)
    BY <2>3 DEF ForkStep, ForkAlloc, ForkFull, ForkNoMemory, Freeproc, procVars
  <2>4. CASE \E q \in Slots : Sigsend(p, q)
    BY <2>4 DEF Sigsend
  <2>. QED
    BY <1>2, <2>1, <2>2, <2>3, <2>4 DEF UserStep, WaitCall, JoinCall, ExitCall, procVars
<1>3. ASSUME NEW p \in Slots, Yield(p) PROVE Kept
  BY <1>3 DEF Yield, CpuInv, OneCpuPerProcess
<1>4. ASSUME NEW c \in CPUs, NEW p \in Slots, Scheduler(c, p) PROVE Kept
  BY <1>4 DEF Scheduler
<1>5. ASSUME (\E c \in CPUs : Sched(c)) \/ Halted \/ vars' = vars PROVE Kept
  BY <1>5 DEF Sched, Halted, vars, procVars
<1>. HIDE DEF Kept, PidInv, IInv, TypeOK
<1>. QED
  BY <1>1, <1>2, <1>3, <1>4, <1>5, Zenon DEF Next

\* A child is born killed only in a slot that kill(0) marked while it was free,
\* although allocproc does not clear p->killed.
THEOREM ForkedUnkilled == ASSUME NEW s \in Slots PROVE Spec => NotBornKilled(s)
<1>. DEFINE FreeInv == PidInv /\ (state[s] = "UNUSED" => ~killed[s])
<1>1. Init => FreeInv
  BY ConstFacts DEF Init, PidInv
<1>2. FreeInv /\ IInv /\ [Next]_vars /\ [~KillsFree(s)]_vars => FreeInv'
  <2>1. CASE ~KillsFree(s)
    BY <2>1, NextFree
  <2>2. CASE UNCHANGED vars
    BY <2>2 DEF PidInv, vars, procVars
  <2>. QED
    BY <2>1, <2>2
<1>3. FreeInv /\ IInv /\ [Next]_vars /\ [~KillsFree(s)]_vars => [Born(s) => ~killed'[s]]_vars
  BY NextFree DEF Born
<1>. HIDE DEF FreeInv
<1>. QED
  BY <1>1, <1>2, <1>3, IInvHolds, PTL DEF Spec, NotBornKilled
=============================================================================
