----------------------------- MODULE Semaphore ------------------------------
(***************************************************************************)
(* What the kernel's semaphores promise: a table of counters.  A wait that *)
(* finds its counter at zero blocks, and takes one unit in a single step   *)
(* later; nobody is asleep, woken or awake here.                           *)
(***************************************************************************)
EXTENDS Integers

CONSTANTS Procs,    \* the processes using the table
          Sems,     \* the slots of the table
          NoSem,    \* "in no wait"
          MaxValue  \* bound on a counter (the code's is INT_MAX)

VARIABLES value,    \* units of each slot
          used,     \* the slot was initialised
          waiting   \* the slot each process is blocked on

avars == <<value, used, waiting>>

ATypeOK ==
  /\ value \in [Sems -> 0 .. MaxValue]
  /\ used \in [Sems -> BOOLEAN]
  /\ waiting \in [Procs -> Sems \cup {NoSem}]

AInit ==
  /\ value = [s \in Sems |-> 0]
  /\ used = [s \in Sems |-> FALSE]
  /\ waiting = [p \in Procs |-> NoSem]

Set(s, v) ==
  /\ value' = [value EXCEPT ![s] = v]
  /\ used' = [used EXCEPT ![s] = TRUE]
  /\ UNCHANGED waiting

Up(s) ==
  /\ used[s] /\ value[s] < MaxValue
  /\ value' = [value EXCEPT ![s] = @ + 1]
  /\ UNCHANGED <<used, waiting>>

\* one unit is taken by p, which is not blocked or is blocked on s
Down(p, s) ==
  /\ used[s] /\ value[s] > 0 /\ waiting[p] \in {NoSem, s}
  /\ value' = [value EXCEPT ![s] = @ - 1]
  /\ waiting' = [waiting EXCEPT ![p] = NoSem]
  /\ UNCHANGED used

Block(p, s) ==
  /\ used[s] /\ value[s] = 0 /\ waiting[p] = NoSem
  /\ waiting' = [waiting EXCEPT ![p] = s]
  /\ UNCHANGED <<value, used>>

ANext ==
  \E s \in Sems : \/ \E v \in 0 .. MaxValue : Set(s, v)
                  \/ Up(s)
                  \/ \E p \in Procs : Down(p, s) \/ Block(p, s)

\* some process blocked on s is let through
Unblock(s) == \E p \in Procs : waiting[p] = s /\ Down(p, s)

ASafeSpec == AInit /\ [][ANext]_avars
ASpec == ASafeSpec /\ \A s \in Sems : WF_avars(Unblock(s))
=============================================================================
