-------------------------------- MODULE Log ---------------------------------
(***************************************************************************)
(* The write-ahead log (kernel/log.c) between the file system calls and    *)
(* the disk, with crashes at every step and the recovery after them.       *)
(*                                                                         *)
(* A section under log.lock is one step, and so is each write of one block *)
(* to the disk, which is taken to be atomic.  commit() runs without locks, *)
(* so every other step may come between two of its writes.                 *)
(***************************************************************************)
EXTENDS Integers, Sequences, FiniteSets

CONSTANTS Procs,        \* processes making file system calls
          Blocks,       \* home blocks
          Vals,         \* block contents
          Zero,         \* the contents of a fresh disk
          LOGBLOCKS,    \* data blocks of the log
          MAXOPBLOCKS,  \* blocks one system call may write
          OpBlocks      \* distinct blocks the system calls really write

ASSUME LogAssumption ==
  /\ LOGBLOCKS \in Nat \ {0} /\ MAXOPBLOCKS \in 1 .. LOGBLOCKS
  /\ OpBlocks \in 1 .. MAXOPBLOCKS
  /\ Zero \in Vals

VARIABLES disk,         \* home blocks on disk
          logData,      \* log blocks on disk
          logHead,      \* header block on disk: the committed block numbers
          cache,        \* the buffers
          pinned,       \* blocks bpin keeps in the cache
          lh,           \* log.lh in memory
          outstanding,  \* log.outstanding
          committing,   \* log.committing
          pc,           \* "idle", "asleep" and "awake" in begin_op, "op", "commit"
          wrote,        \* the blocks the current system call of p logged
          stage, tail,  \* where commit() or recovery is; "up" outside of both
          panicked      \* panic("too big a transaction"), panic("log.committing")

diskVars == <<disk, logData, logHead>>
memVars  == <<cache, pinned, lh, outstanding, committing>>
runVars  == <<pc, wrote, stage, tail, panicked>>
vars     == <<diskVars, memVars, runVars>>

Stages == {"up", "write_log", "write_head", "install", "clear", "done",
           "read_head", "reinstall", "reclear"}

TypeOK ==
  /\ disk \in [Blocks -> Vals]
  /\ logData \in [1 .. LOGBLOCKS -> Vals]
  /\ logHead \in Seq(Blocks) /\ Len(logHead) <= LOGBLOCKS
  /\ cache \in [Blocks -> Vals]
  /\ pinned \in SUBSET Blocks
  /\ lh \in Seq(Blocks) /\ Len(lh) <= LOGBLOCKS
  /\ outstanding \in Nat
  /\ committing \in BOOLEAN
  /\ pc \in [Procs -> {"idle", "asleep", "awake", "op", "commit"}]
  /\ wrote \in [Procs -> SUBSET Blocks]
  /\ stage \in Stages /\ tail \in 1 .. LOGBLOCKS + 1
  /\ panicked \in BOOLEAN

\* a fresh file system, mounted
Init ==
  /\ disk = [b \in Blocks |-> Zero]
  /\ logData = [i \in 1 .. LOGBLOCKS |-> Zero]
  /\ logHead = <<>>
  /\ cache = disk
  /\ pinned = {}
  /\ lh = <<>>
  /\ outstanding = 0
  /\ committing = FALSE
  /\ pc = [p \in Procs |-> "idle"]
  /\ wrote = [p \in Procs |-> {}]
  /\ stage = "up" /\ tail = 1
  /\ panicked = FALSE

-----------------------------------------------------------------------------
(* Helpers *)

Logged(s) == {s[i] : i \in 1 .. Len(s)}
Woken == [p \in Procs |-> IF pc[p] = "asleep" THEN "awake" ELSE pc[p]]
Running == ~panicked /\ stage \notin {"read_head", "reinstall", "reclear"}

\* what bread may return: bget recycles buffers that are not pinned, and then the
\* block comes from disk again
Bread(b) == IF b \in pinned THEN {cache[b]} ELSE {cache[b], disk[b]}

\* begin_op has to wait: a commit is under way, or this op might not fit
MustWait == committing \/ Len(lh) + (outstanding + 1) * MAXOPBLOCKS > LOGBLOCKS

-----------------------------------------------------------------------------
(* begin_op, log_write, end_op *)

\* fault variant of BeginOp: the blocks logged already are not counted
BeginOpIgnoresLogged(p) ==
  /\ Running /\ pc[p] \in {"idle", "awake"}
  /\ IF committing \/ (outstanding + 1) * MAXOPBLOCKS > LOGBLOCKS
       THEN pc' = [pc EXCEPT ![p] = "asleep"] /\ UNCHANGED outstanding
       ELSE pc' = [pc EXCEPT ![p] = "op"] /\ outstanding' = outstanding + 1
  /\ UNCHANGED <<diskVars, cache, pinned, lh, committing, wrote, stage, tail, panicked>>

BeginOp(p) ==
  /\ Running /\ pc[p] \in {"idle", "awake"}
  /\ IF MustWait
       THEN pc' = [pc EXCEPT ![p] = "asleep"] /\ UNCHANGED outstanding
       ELSE pc' = [pc EXCEPT ![p] = "op"] /\ outstanding' = outstanding + 1
  /\ UNCHANGED <<diskVars, cache, pinned, lh, committing, wrote, stage, tail, panicked>>

\* the caller changed the buffer, then calls log_write: the block is absorbed
\* if it is logged already, and appended and pinned if not
LogWrite(p, b, v) ==
  /\ Running /\ pc[p] = "op"
  /\ b \in wrote[p] \/ Cardinality(wrote[p]) < OpBlocks
  /\ cache' = [cache EXCEPT ![b] = v]
  /\ IF Len(lh) >= LOGBLOCKS
       THEN panicked' = TRUE /\ UNCHANGED <<lh, pinned>>
       ELSE /\ lh' = IF b \in Logged(lh) THEN lh ELSE Append(lh, b)
            /\ pinned' = pinned \cup {b}
            /\ UNCHANGED panicked
  /\ wrote' = [wrote EXCEPT ![p] = @ \cup {b}]
  /\ UNCHANGED <<diskVars, outstanding, committing, pc, stage, tail>>

\* the last op out commits (a commit under way is a panic); the others free the room they had reserved
EndOp(p) ==
  /\ Running /\ pc[p] = "op"
  /\ outstanding' = outstanding - 1
  /\ wrote' = [wrote EXCEPT ![p] = {}]
  /\ panicked' = committing
  /\ IF outstanding = 1
       THEN /\ committing' = TRUE
            /\ pc' = [pc EXCEPT ![p] = "commit"]
            /\ stage' = IF lh = <<>> THEN "done" ELSE "write_log"
       ELSE /\ pc' = [Woken EXCEPT ![p] = "idle"]
            /\ UNCHANGED <<committing, stage>>
  /\ UNCHANGED <<diskVars, cache, pinned, lh, tail>>

-----------------------------------------------------------------------------
(* commit *)

\* the next block of the loops over log.lh, or the stage after the loop
Advance(next) ==
  IF tail = Len(lh) THEN stage' = next /\ tail' = 1
                    ELSE tail' = tail + 1 /\ UNCHANGED stage

\* write_log: one block from the cache to the log
WriteLog ==
  /\ stage = "write_log"
  /\ \E v \in Bread(lh[tail]) : logData' = [logData EXCEPT ![tail] = v]
  /\ Advance("write_head")
  /\ UNCHANGED <<disk, logHead, memVars, pc, wrote, panicked>>

\* fault variant of WriteHead: the blocks are installed first
WriteHeadLate ==
  /\ stage = "write_head"
  /\ stage' = "install"
  /\ UNCHANGED <<diskVars, memVars, pc, wrote, tail, panicked>>

\* write_head: the true point at which the transaction commits
WriteHead ==
  /\ stage = "write_head"
  /\ logHead' = lh
  /\ stage' = "install"
  /\ UNCHANGED <<disk, logData, memVars, pc, wrote, tail, panicked>>

\* install_trans: one block from the log to its home; recovery pinned nothing
Install ==
  /\ stage \in {"install", "reinstall"} /\ ~panicked
  /\ disk' = [disk EXCEPT ![lh[tail]] = logData[tail]]
  /\ cache' = [cache EXCEPT ![lh[tail]] = logData[tail]]
  /\ pinned' = pinned \ {lh[tail]}
  /\ Advance(IF stage = "install" THEN "clear" ELSE "reclear")
  /\ UNCHANGED <<logData, logHead, lh, outstanding, committing, pc, wrote, panicked>>

\* log.lh.n = 0; write_head()
ClearHead ==
  /\ stage \in {"clear", "reclear"} /\ ~panicked
  /\ lh' = <<>> /\ logHead' = <<>>
  /\ stage' = IF stage = "clear" THEN "done" ELSE "up"
  /\ UNCHANGED <<disk, logData, cache, pinned, outstanding, committing, pc, wrote, tail,
                 panicked>>

\* fault variant of CommitDone: nobody is woken
CommitDoneSilent(p) ==
  /\ stage = "done" /\ pc[p] = "commit"
  /\ committing' = FALSE
  /\ stage' = "up"
  /\ pc' = [pc EXCEPT ![p] = "idle"]
  /\ UNCHANGED <<diskVars, cache, pinned, lh, outstanding, wrote, tail, panicked>>

\* end_op after commit()
CommitDone(p) ==
  /\ stage = "done" /\ pc[p] = "commit"
  /\ committing' = FALSE
  /\ stage' = "up"
  /\ pc' = [Woken EXCEPT ![p] = "idle"]
  /\ UNCHANGED <<diskVars, cache, pinned, lh, outstanding, wrote, tail, panicked>>

-----------------------------------------------------------------------------
(* Crashes and recovery *)

\* the machine stops and boots again: memory is lost
Crash ==
  /\ ~panicked
  /\ cache' = disk
  /\ pinned' = {} /\ lh' = <<>> /\ outstanding' = 0 /\ committing' = FALSE
  /\ pc' = [p \in Procs |-> "idle"]
  /\ wrote' = [p \in Procs |-> {}]
  /\ stage' = "read_head" /\ tail' = 1
  /\ UNCHANGED <<diskVars, panicked>>

\* recover_from_log: read_head, then install_trans and the clearing write_head
ReadHead ==
  /\ stage = "read_head"
  /\ lh' = logHead
  /\ stage' = IF logHead = <<>> THEN "reclear" ELSE "reinstall"
  /\ UNCHANGED <<diskVars, cache, pinned, outstanding, committing, pc, wrote, tail, panicked>>

-----------------------------------------------------------------------------
CommitStep ==
  \/ WriteLog \/ WriteHead \/ Install \/ ClearHead \/ ReadHead
  \/ \E p \in Procs : CommitDone(p)

Next ==
  \/ \E p \in Procs : BeginOp(p) \/ EndOp(p)
  \/ \E p \in Procs, b \in Blocks, v \in Vals : LogWrite(p, b, v)
  \/ CommitStep
  \/ Crash

Spec == Init /\ [][Next]_vars

\* File system calls come to their end_op, woken processes run, and the disk
\* finishes its writes.
Fairness ==
  /\ WF_vars(CommitStep)
  /\ \A p \in Procs : WF_vars(EndOp(p)) /\ WF_vars(pc[p] = "awake" /\ BeginOp(p))

FairSpec == Spec /\ Fairness

-----------------------------------------------------------------------------
(* Properties *)

\* "too big a transaction" never happens to system calls that write fewer than
\* MAXOPBLOCKS blocks each, however they overlap and rewrite blocks that are
\* logged already (the reservation in begin_op, the test in log_write).
NoPanic == TypeOK /\ ~panicked

\* Who waits in begin_op is woken, again and again, as ops end and commit.
WaiterRetries == \A p \in Procs : (pc[p] = "asleep") ~> (pc[p] # "asleep")

\* the system calls between begin_op and end_op
InOp == {p \in Procs : pc[p] = "op"}

\* The contents a crash at this moment would come back to.
RecoveredFrom(head, data, home) ==
  [b \in Blocks |-> IF b \in Logged(head)
                      THEN data[CHOOSE i \in 1 .. Len(head) : head[i] = b]
                      ELSE home[b]]
Recovered == RecoveredFrom(logHead, logData, disk)
Mem == IF Running THEN cache ELSE Recovered

\* Log and disk implement the atomic disk: system calls become durable in whole
\* groups, never half done, whenever the machine crashes, recovery included
\* ("there is never any reasoning required about whether a commit might write an
\* uncommitted system call's updates to disk", log.c).
Abstract == INSTANCE AtomicDisk WITH mem <- Mem, stable <- Recovered, active <- InOp
ImplementsAtomicDisk == Abstract!ASpec

-----------------------------------------------------------------------------
(* What the two properties rest on *)

\* the room begin_op set aside for the calls in progress and not yet used
Room(ops, written) == {t \in ops \X (1 .. MAXOPBLOCKS) : t[2] > Cardinality(written[t[1]])}
Reserved == Room(InOp, wrote)

\* log.outstanding counts the calls in progress, which write only what they may,
\* and what they have still to write fits into the log
RoomReserved ==
  /\ IsFiniteSet(InOp) /\ Cardinality(InOp) = outstanding
  /\ \A p \in Procs : /\ IsFiniteSet(wrote[p]) /\ Cardinality(wrote[p]) <= OpBlocks
                      /\ wrote[p] \subseteq (IF pc[p] = "op" THEN Logged(lh) ELSE {})
  /\ Len(lh) + Cardinality(Reserved) <= LOGBLOCKS
  /\ committing <=> stage \in {"write_log", "write_head", "install", "clear", "done"}
  /\ stage # "up" => InOp = {}

Distinct(s) == \A i, j \in 1 .. Len(s) : s[i] = s[j] => i = j

\* how far log, disk and cache agree at every stage of a commit and of recovery
LogAgrees ==
  /\ Distinct(lh) /\ Distinct(logHead)
  /\ tail \in (IF stage \in {"write_log", "install", "reinstall"} THEN 1 .. Len(lh) ELSE {1})
  /\ stage \in {"done", "read_head"} => lh = <<>>
  /\ stage = "write_head" => lh # <<>>
  /\ stage \in {"up", "write_log", "write_head", "done"} => logHead = <<>>
  /\ stage \in {"install", "clear", "reinstall", "reclear"} => logHead = lh
  /\ \A i \in 1 .. Len(lh) :
       /\ stage \in {"write_head", "install", "clear"} \/ (stage = "write_log" /\ i < tail) =>
            logData[i] = cache[lh[i]]
       /\ stage \in {"clear", "reclear"} \/ (stage \in {"install", "reinstall"} /\ i < tail) =>
            disk[lh[i]] = logData[i]
       /\ stage \in {"up", "write_log", "write_head"} \/ (stage = "install" /\ i >= tail) =>
            lh[i] \in pinned
  /\ \A b \in Blocks \ Logged(lh) : cache[b] = disk[b]
  /\ stage \in {"read_head", "reinstall", "reclear"} => cache = disk

IInv == NoPanic /\ RoomReserved /\ LogAgrees
=============================================================================
