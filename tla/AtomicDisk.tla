----------------------------- MODULE AtomicDisk -----------------------------
(***************************************************************************)
(* What the log promises to the file system: the disk moves from one state *)
(* to the next in whole groups of finished system calls, and a crash takes *)
(* the system back to the last of these states.                            *)
(***************************************************************************)
CONSTANTS Procs,    \* file system calls in progress are named by processes
          Blocks,
          Vals      \* block contents

VARIABLES mem,     \* the contents the system calls read and write
          stable,  \* the contents a crash goes back to
          active   \* the system calls between begin_op and end_op

avars == <<mem, stable, active>>

AInit == \E v \in Vals : /\ mem = [b \in Blocks |-> v]
                         /\ stable = mem
                         /\ active = {}

Begin(p) ==
  /\ p \notin active
  /\ active' = active \cup {p}
  /\ UNCHANGED <<mem, stable>>

Write(p, b, v) ==
  /\ p \in active
  /\ mem' = [mem EXCEPT ![b] = v]
  /\ UNCHANGED <<stable, active>>

End(p) ==
  /\ p \in active
  /\ active' = active \ {p}
  /\ UNCHANGED <<mem, stable>>

\* never while a system call is half done
Commit ==
  /\ active = {}
  /\ stable' = mem
  /\ UNCHANGED <<mem, active>>

Crash ==
  /\ mem' = stable
  /\ active' = {}
  /\ UNCHANGED stable

ANext ==
  \/ \E p \in Procs : Begin(p) \/ End(p) \/ \E b \in Blocks, v \in Vals : Write(p, b, v)
  \/ Commit
  \/ Crash

ASpec == AInit /\ [][ANext]_avars
=============================================================================
