----------------------------- MODULE KsemProofs -----------------------------
(***************************************************************************)
(* Proofs about the kernel semaphores: no wakeup is lost, and the table    *)
(* with its sleepers implements the abstract semaphores (safety part), for *)
(* every set of processes and semaphores and every bound.                  *)
(***************************************************************************)
EXTENDS Ksem, TLAPS

\* The table procinit builds satisfies the invariant.
LEMMA InitIInv == Init => IInv
<1>. SUFFICES ASSUME Init PROVE IInv
  OBVIOUS
<1>1. TypeOK /\ SleepsOnlyAtZero
  BY KsemAssumption DEF Init, TypeOK, SleepsOnlyAtZero
<1>2. \A p \in Procs : pc[p] \in {"asleep", "awake"} <=> on[p] # NoSem
  BY DEF Init
<1>3. \A p \in Procs : on[p] # NoSem => used[on[p]]
  BY DEF Init
<1>. QED
  BY <1>1, <1>2, <1>3 DEF IInv

\* One pass of ksem_wait's loop, on entry or after sleep(), keeps the invariant.
LEMMA WaitLoopIInv ==
  ASSUME IInv, NEW p \in Procs, NEW s \in Sems, used[s], pc[p] \in {"user", "awake"},
         WaitLoop(p, s), UNCHANGED <<used, killed>>
  PROVE  IInv'
<1>1. CASE value[s] = 0
  BY <1>1, KsemAssumption DEF WaitLoop, IInv, TypeOK, SleepsOnlyAtZero
<1>2. CASE value[s] # 0
  <2>1. value[s] \in 1 .. MaxValue /\ value[s] - 1 \in 0 .. MaxValue
    BY <1>2, KsemAssumption DEF IInv, TypeOK
  <2>2. TypeOK'
    BY <1>2, <2>1 DEF WaitLoop, ReturnToUser, IInv, TypeOK
  <2>3. SleepsOnlyAtZero'
    BY <1>2, <2>1, KsemAssumption DEF WaitLoop, ReturnToUser, IInv, TypeOK, SleepsOnlyAtZero
  <2>4. \A q \in Procs : pc'[q] \in {"asleep", "awake"} <=> on'[q] # NoSem
    BY <1>2 DEF WaitLoop, ReturnToUser, IInv, TypeOK
  <2>5. \A q \in Procs : on'[q] # NoSem => used'[on'[q]]
    BY <1>2 DEF WaitLoop, IInv, TypeOK
  <2>. QED
    BY <2>2, <2>3, <2>4, <2>5 DEF IInv
<1>. QED
  BY <1>1, <1>2

\* Every system call, kill, signal and trap keeps the invariant.
LEMMA NextIInv == IInv /\ [Next]_vars => IInv'
<1>. SUFFICES ASSUME IInv, [Next]_vars PROVE IInv'
  OBVIOUS
<1>1. ASSUME NEW p \in Procs, NEW s \in Sems, KsemPost(p, s) PROVE IInv'
  BY <1>1, KsemAssumption DEF KsemPost, Calling, ReturnToUser, Woken, IInv, TypeOK, SleepsOnlyAtZero
<1>2. ASSUME NEW p \in Procs, NEW s \in Sems, KsemWait(p, s) PROVE IInv'
  BY <1>2, WaitLoopIInv DEF KsemWait, Calling
<1>3. ASSUME NEW p \in Procs, NEW s \in Sems, KsemUnused(p, s) PROVE IInv'
  BY <1>3 DEF KsemUnused, Calling, ReturnToUser, IInv, TypeOK, SleepsOnlyAtZero
<1>4. ASSUME NEW p \in Procs, NEW s \in Sems, NEW v \in 0 .. MaxValue, KsemInit(p, s, v)
      PROVE  IInv'
  BY <1>4, KsemAssumption DEF KsemInit, Calling, ReturnToUser, Woken, IInv, TypeOK, SleepsOnlyAtZero
<1>5. ASSUME NEW p \in Procs, KsemRetry(p) PROVE IInv'
  <2>1. on[p] \in Sems /\ used[on[p]]
    BY <1>5 DEF KsemRetry, IInv, TypeOK
  <2>. QED
    BY <1>5, <2>1, WaitLoopIInv DEF KsemRetry
<1>6. ASSUME NEW p \in Procs, Kill(p) \/ Sigsend(p) \/ Trap(p) PROVE IInv'
  <2>1. CASE Kill(p)
    BY <2>1 DEF Kill, IInv, TypeOK, SleepsOnlyAtZero
  <2>2. CASE Sigsend(p)
    BY <2>2 DEF Sigsend, IInv, TypeOK, SleepsOnlyAtZero
  <2>3. CASE Trap(p)
    BY <2>3 DEF Trap, ReturnToUser, IInv, TypeOK, SleepsOnlyAtZero
  <2>. QED
    BY <1>6, <2>1, <2>2, <2>3
<1>7. ASSUME vars' = vars PROVE IInv'
  BY <1>7 DEF vars, IInv, TypeOK, SleepsOnlyAtZero
<1>. QED
  BY <1>1, <1>2, <1>3, <1>4, <1>5, <1>6, <1>7 DEF Next

\* The inductive invariant of the semaphore table holds throughout.
THEOREM IInvHolds == Spec => []IInv
  BY InitIInv, NextIInv, PTL DEF Spec

\* No post and no ksem_init is lost on a process that is about to sleep.
THEOREM NoLostPost == Spec => []SleepsOnlyAtZero
<1>1. IInv => SleepsOnlyAtZero
  BY DEF IInv
<1>. QED
  BY <1>1, IInvHolds, PTL

\* ksem_init, ksem_wait and ksem_post with their sleeping and waking processes
\* implement the abstract semaphores, kills and signals included.
THEOREM RefinesSemaphore == Spec => Abstract!ASafeSpec
<1>1. Init => Abstract!AInit
  BY DEF Init, Abstract!AInit
<1>2. IInv /\ [Next]_vars => [Abstract!ANext]_(Abstract!avars)
  <2>. SUFFICES ASSUME IInv, [Next]_vars PROVE [Abstract!ANext]_(Abstract!avars)
    OBVIOUS
  <2>. USE DEF Abstract!ANext, Abstract!avars
  <2>1. ASSUME NEW p \in Procs, NEW s \in Sems, used[s], on[p] \in {NoSem, s},
               pc[p] = "awake" => on[p] = s, pc[p] \in {"user", "awake"},
               WaitLoop(p, s), UNCHANGED used
        PROVE  [Abstract!ANext]_(Abstract!avars)
    <3>1. CASE value[s] = 0
      <4>1. CASE on[p] = NoSem
        <5>1. Abstract!Block(p, s)
          BY <2>1, <3>1, <4>1 DEF WaitLoop, Abstract!Block
        <5>. QED
          BY <5>1
      <4>2. CASE on[p] = s
        <5>1. on' = on /\ value' = value /\ used' = used
          BY <2>1, <3>1, <4>2 DEF WaitLoop, IInv, TypeOK
        <5>. QED
          BY <5>1
      <4>. QED
        BY <2>1, <4>1, <4>2
    <3>2. CASE value[s] # 0
      <4>1. Abstract!Down(p, s)
        BY <2>1, <3>2 DEF WaitLoop, Abstract!Down, IInv, TypeOK
      <4>. QED
        BY <4>1
    <3>. QED
      BY <3>1, <3>2
  <2>2. ASSUME NEW p \in Procs, NEW s \in Sems, KsemPost(p, s)
        PROVE  [Abstract!ANext]_(Abstract!avars)
    <3>1. Abstract!Up(s)
      BY <2>2 DEF KsemPost, Abstract!Up
    <3>. QED
      BY <3>1
  <2>3. ASSUME NEW p \in Procs, NEW s \in Sems, NEW v \in 0 .. MaxValue, KsemInit(p, s, v)
        PROVE  [Abstract!ANext]_(Abstract!avars)
    <3>1. Abstract!Set(s, v)
      BY <2>3 DEF KsemInit, Abstract!Set
    <3>. QED
      BY <3>1
  <2>4. ASSUME NEW p \in Procs, NEW s \in Sems, KsemWait(p, s)
        PROVE  [Abstract!ANext]_(Abstract!avars)
    <3>1. on[p] = NoSem /\ pc[p] = "user"
      BY <2>4 DEF KsemWait, Calling, IInv
    <3>. QED
      BY <2>1, <2>4, <3>1 DEF KsemWait
  <2>5. ASSUME NEW p \in Procs, KsemRetry(p) PROVE [Abstract!ANext]_(Abstract!avars)
    <3>1. on[p] \in Sems /\ used[on[p]] /\ pc[p] = "awake"
      BY <2>5 DEF KsemRetry, IInv, TypeOK
    <3>. QED
      BY <2>1, <2>5, <3>1 DEF KsemRetry
  <2>6. ASSUME NEW p \in Procs, Kill(p) \/ Sigsend(p) \/ Trap(p) \/ (\E s \in Sems : KsemUnused(p, s))
        PROVE  [Abstract!ANext]_(Abstract!avars)
    BY <2>6 DEF Kill, Sigsend, Trap, KsemUnused
  <2>7. CASE UNCHANGED vars
    BY <2>7 DEF vars
  <2>. QED
    BY <2>2, <2>3, <2>4, <2>5, <2>6, <2>7 DEF Next
<1>. QED
  BY <1>1, <1>2, IInvHolds, PTL DEF Spec, Abstract!ASafeSpec
=============================================================================
