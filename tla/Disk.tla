-------------------------------- MODULE Disk --------------------------------
(***************************************************************************)
(* The buffer cache (kernel/bio.c), its sleep locks (kernel/sleeplock.c)   *)
(* and the virtio disk driver (kernel/virtio_disk.c) over the device.      *)
(*                                                                         *)
(* A process reads a block, uses the locked buffer and releases it.  Each  *)
(* section under bcache.lock, under a sleep lock's spin lock or under      *)
(* vdisk_lock is one step; the interrupt handler, which holds vdisk_lock   *)
(* while the device goes on, takes several.  The device (external) serves  *)
(* the requests of the avail ring in any order.                            *)
(***************************************************************************)
EXTENDS Integers, SequencesExt

CONSTANTS Procs,    \* processes using blocks
          NBUF,     \* buffers of the cache
          Blocks,   \* block numbers
          Vals,     \* block contents
          Zero,     \* the contents of a fresh disk
          Nums,     \* sizes of the descriptor table (NUM) to consider
          MaxPins,  \* buffers the log keeps pinned at a time
          NoBlock, NoProc

Bufs == 1 .. NBUF
Desc == 0 .. Max(Nums) - 1

ASSUME DiskAssumption ==
  /\ Nums \subseteq Nat /\ \A n \in Nums : n >= 3
  /\ \E m \in Nums : \A n \in Nums : n <= m
  /\ IsFiniteSet(Procs)
  /\ MaxPins \in Nat
  /\ NoBlock \notin Blocks /\ NoProc \notin Procs /\ Zero \in Vals
  /\ NBUF \in Nat \ {0}

VARIABLES buf,     \* blockno, valid, disk, refcnt and data of every buffer
          lru,     \* the list from bcache.head: most recently used first
          lock,    \* who holds the sleep lock of a buffer
          pinned,  \* buffers with a reference of the log
          pc, cur, \* where a process is, and with which buffer (0: none)
          chain,   \* the descriptors of its request
          free,    \* disk.free
          info,    \* disk.info[].b
          avail,   \* the requests the device has not served
          used,    \* the used ring from disk.used_idx on
          irq,     \* the device's interrupt is pending
          inIntr,  \* virtio_disk_intr is running, and holds vdisk_lock
          disk,    \* the blocks on disk
          panicked \* panic("bget: no buffers"), panic("brelse"), panic("bwrite")

cacheVars  == <<buf, lru, lock, pinned>>
procVars   == <<pc, cur, chain>>
driverVars == <<free, info, avail, used, irq, inIntr>>
vars       == <<cacheVars, procVars, driverVars, disk, panicked>>

InRw == {"readDesc", "read", "readWait", "readDone",
         "writeDesc", "write", "writeWait", "writeDone"}
Holding == {"hold"} \cup InRw

\* struct buf
Buffers == [blockno : Blocks \cup {NoBlock}, valid : BOOLEAN, disk : BOOLEAN,
            refcnt : 0 .. Cardinality(Procs) + 1, data : Vals]

\* a process is in bget, in acquiresleep, in virtio_disk_rw (waiting for
\* descriptors, for the device, done), has the buffer, or is in brelse
TypeOK ==
  /\ buf \in [Bufs -> Buffers]
  /\ lru \in [Bufs -> Bufs] /\ ToSet(lru) = Bufs
  /\ lock \in [Bufs -> Procs \cup {NoProc}]
  /\ pinned \subseteq Bufs
  /\ pc \in [Procs -> {"idle", "lock", "lockAsleep", "relse"} \cup Holding]
  /\ cur \in [Procs -> Bufs \cup {0}]
  /\ chain \in [Procs -> SUBSET Desc]
  /\ free \subseteq Desc /\ info \in [Desc -> Bufs \cup {0}]
  /\ avail \subseteq [head : Desc, write : BOOLEAN]
  /\ used \in Seq(Desc)
  /\ irq \in BOOLEAN /\ inIntr \in BOOLEAN
  /\ disk \in [Blocks -> Vals]
  /\ panicked \in BOOLEAN

\* binit and virtio_disk_init: an empty cache and an idle device
Init ==
  /\ buf = [b \in Bufs |-> [blockno |-> NoBlock, valid |-> FALSE, disk |-> FALSE,
                            refcnt |-> 0, data |-> Zero]]
  /\ lru = [i \in Bufs |-> NBUF + 1 - i]
  /\ lock = [b \in Bufs |-> NoProc]
  /\ pinned = {}
  /\ pc = [p \in Procs |-> "idle"]
  /\ cur = [p \in Procs |-> 0]
  /\ chain = [p \in Procs |-> {}]
  /\ \E n \in Nums : free = 0 .. n - 1
  /\ info = [d \in Desc |-> 0]
  /\ avail = {} /\ used = <<>> /\ irq = FALSE /\ inIntr = FALSE
  /\ disk = [k \in Blocks |-> Zero]
  /\ panicked = FALSE

-----------------------------------------------------------------------------
(* bread: bget, acquiresleep, and a read of the disk if the buffer is new *)

Cached(k) == {b \in Bufs : buf[b].blockno = k}
Unused    == {b \in Bufs : buf[b].refcnt = 0}
\* the unused buffer nearest to the end of the list
LeastRecent == lru[CHOOSE i \in Bufs : /\ lru[i] \in Unused
                                       /\ \A j \in Bufs : lru[j] \in Unused => j <= i]

\* fault variant of Recycle: the reference is not counted
RecycleUncounted(b, k) == [buf EXCEPT ![b].blockno = k, ![b].valid = FALSE]

\* fault variant of Recycle: the old contents stay valid
RecycleValid(b, k) == [buf EXCEPT ![b].blockno = k, ![b].refcnt = 1]

Recycle(b, k) == [buf EXCEPT ![b].blockno = k, ![b].valid = FALSE, ![b].refcnt = 1]

\* under bcache.lock: the buffer that caches the block, or a recycled one
Bget(p, k) ==
  /\ pc[p] = "idle" /\ ~panicked
  /\ \/ \E b \in Cached(k) :
          /\ buf' = [buf EXCEPT ![b].refcnt = @ + 1]
          /\ cur' = [cur EXCEPT ![p] = b]
          /\ pc' = [pc EXCEPT ![p] = "lock"]
          /\ UNCHANGED panicked
     \/ /\ Cached(k) = {}
        /\ IF Unused = {}
             THEN panicked' = TRUE /\ UNCHANGED <<buf, cur, pc>>
             ELSE /\ buf' = Recycle(LeastRecent, k)
                  /\ cur' = [cur EXCEPT ![p] = LeastRecent]
                  /\ pc' = [pc EXCEPT ![p] = "lock"]
                  /\ UNCHANGED panicked
  /\ UNCHANGED <<lru, lock, pinned, chain, driverVars, disk>>

\* acquiresleep(&b->lock): sleep while it is locked; then bread looks at b->valid
AcquireSleep(p) ==
  /\ pc[p] = "lock"
  /\ IF lock[cur[p]] # NoProc
       THEN pc' = [pc EXCEPT ![p] = "lockAsleep"] /\ UNCHANGED lock
       ELSE /\ lock' = [lock EXCEPT ![cur[p]] = p]
            /\ pc' = [pc EXCEPT ![p] = IF buf[cur[p]].valid THEN "hold" ELSE "read"]
  /\ UNCHANGED <<buf, lru, pinned, cur, chain, driverVars, disk, panicked>>

-----------------------------------------------------------------------------
(* virtio_disk_rw *)

\* wakeup(&disk.free[0])
WakeDesc == [q \in Procs |-> CASE pc[q] = "readDesc"  -> "read"
                               [] pc[q] = "writeDesc" -> "write"
                               [] OTHER -> pc[q]]

\* the three lowest free descriptors
Lowest3 == CHOOSE s \in SUBSET free : /\ Cardinality(s) = 3
                                      /\ \A d \in s, e \in free \ s : d < e

\* alloc3_desc gives back the one or two it got, and each free_desc wakes the
\* sleepers; then this process sleeps itself
Alloc3Fails(p) ==
  /\ Cardinality(free) < 3
  /\ pc' = [IF free = {} THEN pc ELSE WakeDesc
             EXCEPT ![p] = IF pc[p] = "read" THEN "readDesc" ELSE "writeDesc"]
  /\ UNCHANGED <<buf, chain, free, info, avail>>

\* the request goes to the device, and the process sleeps on b
Submit(p) ==
  /\ Cardinality(free) >= 3
  /\ LET head == CHOOSE d \in Lowest3 : \A e \in Lowest3 : d <= e IN
       /\ chain' = [chain EXCEPT ![p] = Lowest3]
       /\ free' = free \ Lowest3
       /\ buf' = [buf EXCEPT ![cur[p]].disk = TRUE]
       /\ info' = [info EXCEPT ![head] = cur[p]]
       /\ avail' = avail \cup {[head |-> head, write |-> pc[p] = "write"]}
  /\ pc' = [pc EXCEPT ![p] = IF pc[p] = "read" THEN "readWait" ELSE "writeWait"]

VirtioDiskRw(p) ==
  /\ pc[p] \in {"read", "write"} /\ ~inIntr
  /\ Alloc3Fails(p) \/ Submit(p)
  /\ UNCHANGED <<lru, lock, pinned, cur, used, irq, inIntr, disk, panicked>>

\* after the last sleep(b): free_chain, and back in bread or bwrite
VirtioDiskDone(p) ==
  /\ pc[p] \in {"readDone", "writeDone"} /\ ~inIntr
  /\ info' = [d \in Desc |-> IF d \in chain[p] THEN 0 ELSE info[d]]
  /\ free' = free \cup chain[p]
  /\ chain' = [chain EXCEPT ![p] = {}]
  /\ pc' = [WakeDesc EXCEPT ![p] = "hold"]
  /\ buf' = [buf EXCEPT ![cur[p]].valid = TRUE]
  /\ UNCHANGED <<lru, lock, pinned, cur, avail, used, irq, inIntr, disk, panicked>>

-----------------------------------------------------------------------------
(* The device, and virtio_disk_intr *)

\* the device moves the data of one request and raises its interrupt
DeviceServes(r) ==
  /\ LET b == info[r.head]  k == buf[b].blockno IN
       IF r.write THEN disk' = [disk EXCEPT ![k] = buf[b].data] /\ UNCHANGED buf
                  ELSE buf' = [buf EXCEPT ![b].data = disk[k]] /\ UNCHANGED disk
  /\ avail' = avail \ {r}
  /\ used' = Append(used, r.head)
  /\ irq' = TRUE
  /\ UNCHANGED <<lru, lock, pinned, procVars, free, info, inIntr, panicked>>

\* acquire vdisk_lock, and acknowledge before the loop
IntrEnter ==
  /\ irq /\ ~inIntr
  /\ irq' = FALSE /\ inIntr' = TRUE
  /\ UNCHANGED <<cacheVars, procVars, free, info, avail, used, disk, panicked>>

\* one turn of the loop: b->disk = 0 and wakeup(b)
IntrTurn ==
  /\ inIntr /\ used # <<>>
  /\ LET b == info[Head(used)] IN
       /\ buf' = [buf EXCEPT ![b].disk = FALSE]
       /\ pc' = [q \in Procs |-> CASE cur[q] = b /\ pc[q] = "readWait"  -> "readDone"
                                   [] cur[q] = b /\ pc[q] = "writeWait" -> "writeDone"
                                   [] OTHER -> pc[q]]
  /\ used' = Tail(used)
  /\ UNCHANGED <<lru, lock, pinned, cur, chain, free, info, avail, irq, inIntr, disk, panicked>>

\* fault variant of IntrLeave: an if in the place of the while, one completion at most
IntrLeaveEarly ==
  /\ inIntr
  /\ inIntr' = FALSE
  /\ UNCHANGED <<cacheVars, procVars, free, info, avail, used, irq, disk, panicked>>

IntrLeave ==
  /\ inIntr /\ used = <<>>
  /\ inIntr' = FALSE
  /\ UNCHANGED <<cacheVars, procVars, free, info, avail, used, irq, disk, panicked>>

-----------------------------------------------------------------------------
(* The holder of a buffer *)

\* a change that log_write makes durable later: the buffer is pinned, once
Modify(p, v) ==
  /\ pc[p] = "hold"
  /\ cur[p] \in pinned \/ Cardinality(pinned) < MaxPins
  /\ buf' = [buf EXCEPT ![cur[p]].data = v,
                        ![cur[p]].refcnt = IF cur[p] \in pinned THEN @ ELSE @ + 1]
  /\ pinned' = pinned \cup {cur[p]}
  /\ UNCHANGED <<lru, lock, procVars, driverVars, disk, panicked>>

\* the log unpins a buffer it has written
Bunpin(p) ==
  /\ pc[p] = "hold" /\ cur[p] \in pinned
  /\ disk[buf[cur[p]].blockno] = buf[cur[p]].data
  /\ pinned' = pinned \ {cur[p]}
  /\ buf' = [buf EXCEPT ![cur[p]].refcnt = @ - 1]
  /\ UNCHANGED <<lru, lock, procVars, driverVars, disk, panicked>>

\* new contents, written at once by bwrite
Bwrite(p, v) ==
  /\ pc[p] = "hold"
  /\ panicked' = (panicked \/ lock[cur[p]] # p)
  /\ buf' = [buf EXCEPT ![cur[p]].data = v]
  /\ pc' = [pc EXCEPT ![p] = "write"]
  /\ UNCHANGED <<lru, lock, pinned, cur, chain, driverVars, disk>>

\* brelse, first half: releasesleep and its wakeup
ReleaseSleep(p) ==
  /\ pc[p] = "hold"
  /\ panicked' = (panicked \/ lock[cur[p]] # p)
  /\ lock' = [lock EXCEPT ![cur[p]] = NoProc]
  /\ pc' = [q \in Procs |-> IF q = p THEN "relse"
                            ELSE IF pc[q] = "lockAsleep" /\ cur[q] = cur[p] THEN "lock"
                            ELSE pc[q]]
  /\ UNCHANGED <<buf, lru, pinned, cur, chain, driverVars, disk>>

\* the list with b taken out and put back at its head
MoveToFront(b) ==
  LET k == CHOOSE i \in Bufs : lru[i] = b IN
  [i \in Bufs |-> IF i = 1 THEN b ELSE IF i <= k THEN lru[i - 1] ELSE lru[i]]

\* brelse, second half, under bcache.lock: an unused buffer becomes the most recent
Brelse(p) ==
  /\ pc[p] = "relse"
  /\ buf' = [buf EXCEPT ![cur[p]].refcnt = @ - 1]
  /\ lru' = IF buf[cur[p]].refcnt = 1 THEN MoveToFront(cur[p]) ELSE lru
  /\ pc' = [pc EXCEPT ![p] = "idle"]
  /\ cur' = [cur EXCEPT ![p] = 0]
  /\ UNCHANGED <<lock, pinned, chain, driverVars, disk, panicked>>

\* panic: for(;;)
Halted == panicked /\ UNCHANGED vars

-----------------------------------------------------------------------------
Next ==
  \/ \E p \in Procs :
       \/ \E k \in Blocks : Bget(p, k)
       \/ AcquireSleep(p) \/ VirtioDiskRw(p) \/ VirtioDiskDone(p)
       \/ \E v \in Vals : Modify(p, v) \/ Bwrite(p, v)
       \/ Bunpin(p) \/ ReleaseSleep(p) \/ Brelse(p)
  \/ \E r \in avail : DeviceServes(r)
  \/ IntrEnter \/ IntrTurn \/ IntrLeave
  \/ Halted

Spec == Init /\ [][Next]_vars

-----------------------------------------------------------------------------
(* Properties *)

\* No block is cached twice, and a buffer is referenced exactly by the processes
\* between its bget and its brelse and by the log's pin: it is neither recycled
\* under one of them nor lost to the cache (b->refcnt in bget, brelse, bpin).
RefsExact ==
  /\ TypeOK
  /\ \A k \in Blocks : Cardinality(Cached(k)) <= 1
  /\ \A b \in Bufs :
       buf[b].refcnt = Cardinality({p \in Procs : cur[p] = b}) + Cardinality(pinned \cap {b})

\* Nobody sleeps without a reason that will go away: on a sleep lock only while it
\* is held, for descriptors only while fewer than three are free, for the device
\* only while the request is with it or its completion waits for an interrupt that
\* is pending or being served (acquiresleep, virtio_disk_rw, virtio_disk_intr: the
\* acknowledgement comes before the loop over the used ring).
SleepersHaveCause ==
  /\ \A p \in Procs :
       /\ pc[p] = "lockAsleep" => lock[cur[p]] # NoProc
       /\ pc[p] \in {"readDesc", "writeDesc"} => Cardinality(free) < 3
       /\ pc[p] \in {"readWait", "writeWait"} =>
            /\ buf[cur[p]].disk
            /\ \E d \in chain[p] : \/ \E r \in avail : r.head = d
                                   \/ d \in ToSet(used)
  /\ used # <<>> => irq \/ inIntr

\* The cache over the disk behaves as one copy of every block: who gets a buffer
\* has it alone and finds what was last written to the block, whichever buffers
\* were recycled since and in whatever order the device served its requests.
ContentOf(bufs, home) == [k \in Blocks |->
  IF \E b \in Bufs : bufs[b].blockno = k /\ bufs[b].valid
    THEN bufs[CHOOSE b \in Bufs : bufs[b].blockno = k].data
    ELSE home[k]]
Content == ContentOf(buf, disk)
OwnerOf(held) == [k \in Blocks |->
  IF \E p \in Procs : <<p, k>> \in held THEN CHOOSE p \in Procs : <<p, k>> \in held ELSE NoProc]
Held == {h \in Procs \X Blocks : pc[h[1]] \in Holding /\ cur[h[1]] \in Cached(h[2])}
Owner == OwnerOf(Held)
Abstract == INSTANCE BlockStore WITH content <- Content, owner <- Owner
ImplementsBlockStore == Abstract!ASpec

-----------------------------------------------------------------------------
(* What the properties rest on *)

Waiting == {"readWait", "writeWait"}
Served  == {"readDone", "writeDone"}

\* a buffer is held exactly by the process its sleep lock names; a process with a
\* buffer has one that caches a block, and valid data unless it is reading them
LocksAgree ==
  /\ \A p \in Procs : pc[p] \in Holding <=> cur[p] # 0 /\ lock[cur[p]] = p
  /\ \A b \in Bufs : lock[b] # NoProc => cur[lock[b]] = b
  /\ \A p \in Procs : pc[p] = "idle" <=> cur[p] = 0
  /\ \A p \in Procs : cur[p] # 0 => buf[cur[p]].blockno # NoBlock
  /\ \A p \in Procs : pc[p] \in Holding =>
       (buf[cur[p]].valid <=> pc[p] \notin {"readDesc", "read", "readWait", "readDone"})

\* descriptors belong to one request or to none, and one of a request names the buffer
ChainsAgree ==
  /\ \A p \in Procs : chain[p] \cap free = {}
  /\ \A p, q \in Procs : p # q => chain[p] \cap chain[q] = {}
  /\ \A p \in Procs : pc[p] \notin Waiting \cup Served => chain[p] = {}
  /\ \A d \in free : info[d] = 0
  /\ \A p \in Procs : \A d, e \in chain[p] : info[d] # 0 /\ info[e] # 0 => d = e

\* a request is once with the device or once in the used ring while its process waits
RingsAgree ==
  /\ \A r \in avail : \E p \in Procs : /\ pc[p] = IF r.write THEN "writeWait" ELSE "readWait"
                                       /\ r.head \in chain[p] /\ info[r.head] = cur[p]
  /\ \A d \in ToSet(used) : \E p \in Procs : pc[p] \in Waiting /\ d \in chain[p] /\ info[d] = cur[p]
  /\ \A r, s \in avail : r.head = s.head => r = s
  /\ \A r \in avail : r.head \notin ToSet(used)
  /\ \A i, j \in 1 .. Len(used) : used[i] = used[j] => i = j
  /\ \A p \in Procs : pc[p] \in Waiting =>
       /\ buf[cur[p]].disk
       /\ \E d \in chain[p] : /\ info[d] = cur[p]
                              /\ (\E r \in avail : r.head = d) \/ d \in ToSet(used)

RequestsAgree == ChainsAgree /\ RingsAgree

\* the contents of the buffer have still to reach the disk
Unwritten(p) == pc[p] \in {"write", "writeDesc"}
                  \/ (pc[p] = "writeWait" /\ \E r \in avail : r.head \in chain[p])

\* a valid buffer has the contents of its block on disk unless it is pinned or
\* being written, and what the device read is what the block holds
DataAgree ==
  /\ \A b \in Bufs : buf[b].valid =>
       /\ buf[b].blockno # NoBlock
       /\ \/ buf[b].data = disk[buf[b].blockno]
          \/ b \in pinned
          \/ \E p \in Procs : cur[p] = b /\ Unwritten(p)
  /\ \A p \in Procs :
       pc[p] = "readDone" \/ (pc[p] = "readWait" /\ \A r \in avail : r.head \notin chain[p]) =>
         buf[cur[p]].data = disk[buf[cur[p]].blockno]

IInv == RefsExact /\ SleepersHaveCause /\ LocksAgree /\ RequestsAgree /\ DataAgree
=============================================================================
