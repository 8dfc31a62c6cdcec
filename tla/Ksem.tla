-------------------------------- MODULE Ksem --------------------------------
(***************************************************************************)
(* The kernel semaphores (kernel/proc.c: semtable, ksem_init, ksem_wait,   *)
(* ksem_post) on top of sleep and wakeup.                                  *)
(*                                                                         *)
(* A section under s->lock is one step: sleep() gives the lock up only     *)
(* with p->lock held, and wakeup() needs p->lock.  kill and sigsend take   *)
(* p->lock alone, so they come between any two steps.  A semid outside the *)
(* table, and a negative initial value, return -1 and change nothing.      *)
(***************************************************************************)
EXTENDS Integers

CONSTANTS Procs, Sems, NoSem, MaxValue

ASSUME KsemAssumption == NoSem \notin Sems /\ MaxValue \in Nat \ {0}

VARIABLES value,    \* s->value
          used,     \* s->used
          pc,       \* "user", "asleep" (SLEEPING in ksem_wait), "awake" (made
                    \* RUNNABLE again, before sleep() retakes s->lock), "dead"
          on,       \* the semaphore p waits for
          killed,   \* p->killed
          pending   \* p->pending_signal # 0 (every process has a handler)

vars == <<value, used, pc, on, killed, pending>>

TypeOK ==
  /\ value \in [Sems -> 0 .. MaxValue]
  /\ used \in [Sems -> BOOLEAN]
  /\ pc \in [Procs -> {"user", "asleep", "awake", "dead"}]
  /\ on \in [Procs -> Sems \cup {NoSem}]
  /\ killed \in [Procs -> BOOLEAN]
  /\ pending \in [Procs -> BOOLEAN]

Init ==
  /\ value = [s \in Sems |-> 0]
  /\ used = [s \in Sems |-> FALSE]
  /\ pc = [p \in Procs |-> "user"]
  /\ on = [p \in Procs |-> NoSem]
  /\ killed = [p \in Procs |-> FALSE]
  /\ pending = [p \in Procs |-> FALSE]

-----------------------------------------------------------------------------
(* Helpers *)

\* wakeup(s): every process asleep on s, as a new value of pc
Woken(s) == [p \in Procs |-> IF pc[p] = "asleep" /\ on[p] = s THEN "awake" ELSE pc[p]]

Calling(p) == pc[p] = "user" /\ ~killed[p]

\* p is back in usertrap: a killed process exits, a signal is handed over
ReturnToUser(p, from) ==
  /\ pc' = [from EXCEPT ![p] = IF killed[p] THEN "dead" ELSE "user"]
  /\ pending' = [pending EXCEPT ![p] = FALSE]

-----------------------------------------------------------------------------
(* System calls *)

KsemInit(p, s, v) ==
  /\ Calling(p)
  /\ used' = [used EXCEPT ![s] = TRUE]
  /\ value' = [value EXCEPT ![s] = v]
  /\ ReturnToUser(p, Woken(s))
  /\ UNCHANGED <<on, killed>>

\* fault variant of KsemPost: no wakeup(s)
KsemPostSilent(p, s) ==
  /\ Calling(p) /\ used[s] /\ value[s] < MaxValue
  /\ value' = [value EXCEPT ![s] = @ + 1]
  /\ ReturnToUser(p, pc)
  /\ UNCHANGED <<used, on, killed>>

KsemPost(p, s) ==
  /\ Calling(p) /\ used[s] /\ value[s] < MaxValue
  /\ value' = [value EXCEPT ![s] = @ + 1]
  /\ ReturnToUser(p, Woken(s))
  /\ UNCHANGED <<used, on, killed>>

\* ksem_wait or ksem_post on a semaphore nobody initialised
KsemUnused(p, s) ==
  /\ Calling(p) /\ ~used[s]
  /\ ReturnToUser(p, pc)
  /\ UNCHANGED <<value, used, on, killed>>

\* the loop of ksem_wait under s->lock: take a unit, or sleep(s, &s->lock)
WaitLoop(p, s) ==
  IF value[s] = 0
    THEN /\ pc' = [pc EXCEPT ![p] = "asleep"]
         /\ on' = [on EXCEPT ![p] = s]
         /\ UNCHANGED <<value, pending>>
    ELSE /\ value' = [value EXCEPT ![s] = @ - 1]
         /\ on' = [on EXCEPT ![p] = NoSem]
         /\ ReturnToUser(p, pc)

KsemWait(p, s) ==
  /\ Calling(p) /\ used[s]
  /\ WaitLoop(p, s)
  /\ UNCHANGED <<used, killed>>

\* fault variant of KsemRetry: "if" for "while", the value is not read again
KsemRetryIf(p) ==
  /\ pc[p] = "awake"
  /\ value' = [value EXCEPT ![on[p]] = @ - 1]
  /\ on' = [on EXCEPT ![p] = NoSem]
  /\ ReturnToUser(p, pc)
  /\ UNCHANGED <<used, killed>>

\* after sleep(): s->used is still 1 (nothing clears it), then the loop again.
\* The loop does not look at p->killed.
KsemRetry(p) ==
  /\ pc[p] = "awake"
  /\ WaitLoop(p, on[p])
  /\ UNCHANGED <<used, killed>>

\* kkill by anyone: the victim is made RUNNABLE if it sleeps
Kill(q) ==
  /\ pc[q] # "dead"
  /\ killed' = [killed EXCEPT ![q] = TRUE]
  /\ pc' = [pc EXCEPT ![q] = IF @ = "asleep" THEN "awake" ELSE @]
  /\ UNCHANGED <<value, used, on, pending>>

\* sigsend by anyone: -1 while a signal is pending; wakes a sleeper
Sigsend(q) ==
  /\ pc[q] # "dead" /\ ~pending[q]
  /\ pending' = [pending EXCEPT ![q] = TRUE]
  /\ pc' = [pc EXCEPT ![q] = IF @ = "asleep" THEN "awake" ELSE @]
  /\ UNCHANGED <<value, used, on, killed>>

\* a trap in user mode (usertrap): exit if killed, deliver a pending signal
Trap(p) ==
  /\ pc[p] = "user" /\ (killed[p] \/ pending[p])
  /\ ReturnToUser(p, pc)
  /\ UNCHANGED <<value, used, on, killed>>

-----------------------------------------------------------------------------
Next ==
  \/ \E p \in Procs, s \in Sems : KsemPost(p, s) \/ KsemWait(p, s) \/ KsemUnused(p, s)
  \/ \E p \in Procs, s \in Sems, v \in 0 .. MaxValue : KsemInit(p, s, v)
  \/ \E p \in Procs : KsemRetry(p) \/ Kill(p) \/ Sigsend(p) \/ Trap(p)

\* A RUNNABLE process is run (scheduler) and timer interrupts trap user code.
Fairness == \A p \in Procs : WF_vars(KsemRetry(p)) /\ WF_vars(Trap(p))

Spec == Init /\ [][Next]_vars
FairSpec == Spec /\ Fairness

-----------------------------------------------------------------------------
(* Properties *)

\* A process sleeps in ksem_wait only while the counter is zero: a post, or a
\* new ksem_init, between the test of s->value and sleep() is not lost.
SleepsOnlyAtZero ==
  \A p \in Procs : pc[p] = "asleep" => value[on[p]] = 0

\* what else SleepsOnlyAtZero needs to be inductive
IInv ==
  /\ TypeOK
  /\ SleepsOnlyAtZero
  /\ \A p \in Procs : pc[p] \in {"asleep", "awake"} <=> on[p] # NoSem
  /\ \A p \in Procs : on[p] # NoSem => used[on[p]]

\* The semaphore table implements the abstract semaphores: waits, wakeups, kills
\* and signals never create or destroy a unit, and a unit is not left lying
\* while a process waits for it.
Abstract == INSTANCE Semaphore WITH waiting <- on
ImplementsSemaphore == Abstract!ASpec

=============================================================================
