----------------------------- MODULE DiskProofs -----------------------------
(***************************************************************************)
(* Proofs about the buffer cache and the disk driver: references are       *)
(* exact, nobody sleeps without a cause, and cache and disk implement one  *)
(* copy of every block, for every set of processes, blocks and contents,   *)
(* every size of the cache and of the descriptor table.                    *)
(***************************************************************************)
EXTENDS Disk, FiniteSetTheorems, WellFoundedInduction, TLAPS

-----------------------------------------------------------------------------
(* The operators of the model *)

\* A set of natural numbers that is not empty has a least element.
LEMMA LeastNat == ASSUME NEW T \in SUBSET Nat, T # {} PROVE \E x \in T : \A y \in T : x <= y
<1>. DEFINE R == {s \in Nat \X Nat : s[1] < s[2]}
<1>1. IsWellFoundedOn(R, Nat)
  BY NatLessThanWellFounded, Zenon DEF OpToRel
<1>. HIDE DEF R
<1>2. PICK x \in T : \A y \in T : ~(<<y, x>> \in R)
  BY <1>1, WFMin
<1>3. \A y \in T : ~(y < x)
  BY <1>2 DEF R
<1>. QED
  BY <1>3

\* An element leaves a finite set.
LEMMA CardRemove ==
  ASSUME NEW S, IsFiniteSet(S), NEW x \in S
  PROVE  IsFiniteSet(S \ {x}) /\ Cardinality(S \ {x}) = Cardinality(S) - 1 /\ Cardinality(S) \in Nat
  BY FS_RemoveElement, FS_CardinalityType

\* An element joins a finite set.
LEMMA CardAdd ==
  ASSUME NEW S, IsFiniteSet(S), NEW x, x \notin S
  PROVE  IsFiniteSet(S \cup {x}) /\ Cardinality(S \cup {x}) = Cardinality(S) + 1 /\ Cardinality(S) \in Nat
  BY FS_AddElement, FS_CardinalityType

\* The numbers of processes with a buffer and of the log's pins of a buffer.
LEMMA CardRefs ==
  ASSUME NEW S \in SUBSET Procs
  PROVE  IsFiniteSet(S) /\ Cardinality(S) \in 0 .. Cardinality(Procs)
  BY DiskAssumption, FS_Subset, FS_CardinalityType

\* A buffer is pinned once or not at all: what brelse's refcnt counts for bpin.
LEMMA CardPin == ASSUME NEW P, NEW b PROVE Cardinality(P \cap {b}) = IF b \in P THEN 1 ELSE 0
<1>1. CASE b \in P
  <2>1. P \cap {b} = {b}
    BY <1>1
  <2>. QED
    BY <1>1, <2>1, FS_Singleton
<1>2. CASE b \notin P
  <2>1. P \cap {b} = {}
    BY <1>2
  <2>. QED
    BY <1>2, <2>1, FS_EmptySet
<1>. QED
  BY <1>1, <1>2

\* At most one element: any two are the same.
LEMMA AtMostOne ==
  ASSUME NEW S, IsFiniteSet(S) PROVE Cardinality(S) <= 1 <=> \A x, y \in S : x = y
<1>1. ASSUME Cardinality(S) <= 1, NEW x \in S, NEW y \in S PROVE x = y
  <2>1. Cardinality(S) \in Nat
    BY FS_CardinalityType
  <2>2. Cardinality(S) # 0
    BY FS_EmptySet
  <2>3. Cardinality(S) = 1
    BY <1>1, <2>1, <2>2
  <2>. QED
    BY <2>3, FS_Singleton
<1>2. ASSUME \A x, y \in S : x = y PROVE Cardinality(S) <= 1
  <2>1. CASE S = {}
    BY <2>1, FS_EmptySet
  <2>2. CASE S # {}
    <3>1. PICK x : x \in S
      BY <2>2
    <3>2. S = {x}
      BY <1>2, <3>1
    <3>. QED
      BY <3>2, FS_Singleton
  <2>. QED
    BY <2>1, <2>2
<1>. QED
  BY <1>1, <1>2

\* The descriptor tables considered are intervals of Desc, which is finite.
LEMMA Descriptors ==
  /\ Desc \subseteq Nat /\ IsFiniteSet(Desc)
  /\ \A n \in Nums : 0 .. n - 1 \subseteq Desc
<1>1. PICK top \in Nums : \A n \in Nums : n <= top
  BY DiskAssumption
<1>2. Max(Nums) \in Nums /\ \A n \in Nums : n <= Max(Nums)
  BY <1>1 DEF Max
<1>3. Nums \subseteq Nat
  BY DiskAssumption
<1>4. ASSUME NEW m \in Nat PROVE IsFiniteSet(0 .. m - 1)
  <2>1. m - 1 \in Int
    OBVIOUS
  <2>. QED
    BY <2>1, FS_Interval
<1>5. ASSUME NEW m \in Nat, NEW n \in Nat, n <= m PROVE 0 .. n - 1 \subseteq 0 .. m - 1
  BY <1>5
<1>6. PICK M \in Nat : M = Max(Nums) /\ \A n \in Nums : n <= M
  BY <1>2, <1>3
<1>7. Desc = 0 .. M - 1
  BY <1>6 DEF Desc
<1>. QED
  BY <1>3, <1>4, <1>5, <1>6, <1>7

\* A set of at least three descriptors has three lowest ones.
LEMMA ThreeLowest ==
  ASSUME NEW F \in SUBSET Nat, IsFiniteSet(F), Cardinality(F) >= 3
  PROVE  \E s \in SUBSET F : Cardinality(s) = 3 /\ \A d \in s, e \in F \ s : d < e
<1>1. F # {}
  BY FS_EmptySet
<1>2. PICK a \in F : \A y \in F : a <= y
  BY <1>1, LeastNat
<1>3. IsFiniteSet(F \ {a}) /\ Cardinality(F \ {a}) >= 2
  BY CardRemove
<1>4. F \ {a} # {}
  BY <1>3, FS_EmptySet
<1>5. PICK b \in F \ {a} : \A y \in F \ {a} : b <= y
  BY <1>4, LeastNat
<1>6. IsFiniteSet((F \ {a}) \ {b}) /\ Cardinality((F \ {a}) \ {b}) >= 1
  <2>. DEFINE G == F \ {a}
  <2>1. IsFiniteSet(G) /\ Cardinality(G) >= 2 /\ b \in G
    BY <1>3
  <2>. HIDE DEF G
  <2>2. IsFiniteSet(G \ {b}) /\ Cardinality(G \ {b}) >= 1
    BY <2>1, CardRemove
  <2>. QED
    BY <2>2 DEF G
<1>7. (F \ {a}) \ {b} # {}
  BY <1>6, FS_EmptySet
<1>8. PICK c \in (F \ {a}) \ {b} : \A y \in (F \ {a}) \ {b} : c <= y
  BY <1>7, LeastNat
<1>9. Cardinality({a, b, c}) = 3
  <2>1. IsFiniteSet({a}) /\ Cardinality({a}) = 1
    BY FS_Singleton
  <2>2. IsFiniteSet({a, b}) /\ Cardinality({a, b}) = 2
    <3>1. {a, b} = {a} \cup {b} /\ b \notin {a}
      OBVIOUS
    <3>. QED
      BY <2>1, <3>1, CardAdd
  <2>3. {a, b, c} = {a, b} \cup {c} /\ c \notin {a, b}
    OBVIOUS
  <2>. QED
    BY <2>2, <2>3, CardAdd
<1>10. \A d \in {a, b, c}, e \in F \ {a, b, c} : d < e
  BY <1>2, <1>5, <1>8
<1>. QED
  BY <1>9, <1>10

\* What alloc3_desc takes: free descriptors, one of which is the lowest.
LEMMA Lowest3Is ==
  ASSUME free \subseteq Desc, Cardinality(free) >= 3
  PROVE  Lowest3 \subseteq free /\ \E d \in Lowest3 : \A e \in Lowest3 : d <= e
<1>1. free \in SUBSET Nat /\ IsFiniteSet(free)
  BY Descriptors, FS_Subset
<1>2. Lowest3 \subseteq free /\ Cardinality(Lowest3) = 3
  BY <1>1, ThreeLowest DEF Lowest3
<1>3. Lowest3 # {}
  BY <1>2, FS_EmptySet
<1>. QED
  BY <1>1, <1>2, <1>3, LeastNat

\* bget's second loop finds an unused buffer if there is one.
LEMMA LeastRecentIs ==
  ASSUME lru \in [Bufs -> Bufs], ToSet(lru) = Bufs, Unused # {}
  PROVE  LeastRecent \in Unused
<1>. DEFINE T == {n \in Nat : \E i \in Bufs : lru[i] \in Unused /\ n = NBUF - i}
<1>1. NBUF \in Nat
  BY DiskAssumption
<1>2. ToSet(lru) = {lru[i] : i \in Bufs}
  BY DEF ToSet
<1>3. \E i \in Bufs : lru[i] \in Unused
  BY <1>2 DEF Unused
<1>4. T # {} /\ T \in SUBSET Nat
  <2>1. PICK i \in Bufs : lru[i] \in Unused
    BY <1>3
  <2>2. NBUF - i \in Nat
    BY <1>1 DEF Bufs
  <2>3. NBUF - i \in T
    BY <2>1, <2>2
  <2>. QED
    BY <2>3
<1>5. PICK n \in T : \A m \in T : n <= m
  <2>. HIDE DEF T
  <2>. QED
    BY <1>4, LeastNat
<1>6. PICK i \in Bufs : lru[i] \in Unused /\ n = NBUF - i
  BY <1>5
<1>7. ASSUME NEW j \in Bufs, lru[j] \in Unused PROVE j <= i
  <2>1. NBUF - j \in T
    BY <1>1, <1>7 DEF Bufs
  <2>2. n <= NBUF - j
    BY <1>5, <2>1
  <2>. QED
    BY <1>1, <1>6, <2>2 DEF Bufs
<1>. QED
  BY <1>6, <1>7 DEF LeastRecent

\* The list that brelse leaves has the same buffers.
LEMMA MoveToFrontIs ==
  ASSUME lru \in [Bufs -> Bufs], ToSet(lru) = Bufs, NEW b \in Bufs
  PROVE  MoveToFront(b) \in [Bufs -> Bufs] /\ ToSet(MoveToFront(b)) = Bufs
<1>. DEFINE k == CHOOSE i \in Bufs : lru[i] = b
            f == [i \in Bufs |-> IF i = 1 THEN b ELSE IF i <= k THEN lru[i - 1] ELSE lru[i]]
<1>1. NBUF \in Nat \ {0}
  BY DiskAssumption
<1>2. ToSet(lru) = {lru[i] : i \in Bufs}
  BY DEF ToSet
<1>3. k \in Bufs /\ lru[k] = b
  BY <1>2
<1>. HIDE DEF k
<1>4. f \in [Bufs -> Bufs]
  BY <1>1, <1>3 DEF Bufs
<1>5. ASSUME NEW c \in Bufs PROVE \E i \in Bufs : f[i] = c
  <2>1. PICK j \in Bufs : lru[j] = c
    BY <1>2
  <2>2. CASE j = k
    BY <1>1, <1>3, <2>1, <2>2 DEF Bufs
  <2>3. CASE j < k
    <3>1. j + 1 \in Bufs /\ j + 1 # 1 /\ j + 1 <= k
      BY <1>1, <1>3, <2>3 DEF Bufs
    <3>. QED
      BY <2>1, <3>1 DEF Bufs
  <2>4. CASE j > k
    BY <1>1, <1>3, <2>1, <2>4 DEF Bufs
  <2>. QED
    BY <1>3, <2>2, <2>3, <2>4 DEF Bufs
<1>6. ToSet(f) = {f[i] : i \in Bufs}
  BY DEF ToSet
<1>7. f \in [Bufs -> Bufs] /\ ToSet(f) = Bufs
  <2>. HIDE DEF f
  <2>. QED
    BY <1>4, <1>5, <1>6
<1>. QED
  BY <1>7 DEF MoveToFront, k

\* The used ring as a set: what the device appends, and what one turn of
\* virtio_disk_intr takes.
LEMMA UsedSet == ASSUME NEW s \in Seq(Desc) PROVE ToSet(s) = {s[i] : i \in 1 .. Len(s)}
  BY DEF ToSet

\* The device puts a request's head at the end of the used ring.
LEMMA UsedAppend ==
  ASSUME NEW s \in Seq(Desc), NEW d \in Desc
  PROVE  Append(s, d) \in Seq(Desc) /\ ToSet(Append(s, d)) = ToSet(s) \cup {d}
<1>1. /\ Append(s, d) \in Seq(Desc) /\ Len(Append(s, d)) = Len(s) + 1 /\ Len(s) \in Nat
      /\ Append(s, d)[Len(s) + 1] = d /\ \A i \in 1 .. Len(s) : Append(s, d)[i] = s[i]
  OBVIOUS
<1>2. ToSet(Append(s, d)) = {Append(s, d)[i] : i \in 1 .. Len(s) + 1}
  BY <1>1, UsedSet
<1>3. ToSet(s) = {s[i] : i \in 1 .. Len(s)}
  BY UsedSet
<1>4. ASSUME NEW x \in ToSet(s) \cup {d} PROVE x \in ToSet(Append(s, d))
  BY <1>1, <1>2, <1>3
<1>5. ASSUME NEW x \in ToSet(Append(s, d)) PROVE x \in ToSet(s) \cup {d}
  BY <1>1, <1>2, <1>3
<1>. QED
  BY <1>1, <1>4, <1>5

\* virtio_disk_intr takes the head at used_idx; no head is in the ring twice, so
\* it leaves the set as well.
LEMMA UsedTail ==
  ASSUME NEW s \in Seq(Desc), s # <<>>, \A i, j \in 1 .. Len(s) : s[i] = s[j] => i = j
  PROVE  /\ Tail(s) \in Seq(Desc) /\ Head(s) \in ToSet(s) /\ Head(s) \in Desc
         /\ ToSet(Tail(s)) = ToSet(s) \ {Head(s)}
         /\ \A i, j \in 1 .. Len(Tail(s)) : Tail(s)[i] = Tail(s)[j] => i = j
<1>1. Tail(s) \in Seq(Desc) /\ Len(Tail(s)) = Len(s) - 1 /\ Len(s) \in Nat \ {0}
      /\ Head(s) = s[1] /\ \A i \in 1 .. Len(s) - 1 : Tail(s)[i] = s[i + 1]
  OBVIOUS
<1>. DEFINE t == Tail(s)
<1>6. t \in Seq(Desc) /\ Len(t) = Len(s) - 1 /\ \A i \in 1 .. Len(t) : t[i] = s[i + 1]
  BY <1>1
<1>. HIDE DEF t
<1>7. ToSet(t) = {t[i] : i \in 1 .. Len(t)}
  BY <1>6, UsedSet
<1>2. Head(s) \in ToSet(s) /\ Head(s) \in Desc
  BY <1>1, UsedSet
<1>3. \A i, j \in 1 .. Len(Tail(s)) : Tail(s)[i] = Tail(s)[j] => i = j
  BY <1>1
<1>4. ASSUME NEW x \in ToSet(s) \ {Head(s)} PROVE x \in ToSet(t)
  <2>1. PICK i \in 1 .. Len(s) : s[i] = x
    BY UsedSet
  <2>2. i - 1 \in 1 .. Len(t) /\ t[i - 1] = x
    BY <1>1, <1>6, <2>1
  <2>. QED
    BY <1>7, <2>2
<1>5. ASSUME NEW x \in ToSet(t) PROVE x \in ToSet(s) \ {Head(s)}
  <2>1. PICK i \in 1 .. Len(t) : t[i] = x
    BY <1>7
  <2>2. i + 1 \in 1 .. Len(s) /\ s[i + 1] = x /\ x # s[1]
    BY <1>1, <1>6, <2>1
  <2>. QED
    BY <1>1, <2>2, UsedSet
<1>8. ToSet(t) = ToSet(s) \ {Head(s)}
  BY <1>4, <1>5
<1>. QED
  BY <1>1, <1>2, <1>3, <1>8 DEF t

-----------------------------------------------------------------------------
(* The inductive invariant *)

\* RefsExact without cardinalities of caches: no two buffers cache a block.
OneBuffer == \A b, c \in Bufs : buf[b].blockno = buf[c].blockno /\ buf[b].blockno # NoBlock => b = c
References(p2b, pins, b) == Cardinality({p \in Procs : p2b[p] = b}) + (IF b \in pins THEN 1 ELSE 0)
RefsCounted == \A b \in Bufs : buf[b].refcnt = References(cur, pinned, b)

\* The reference counts and the one copy of a block (bget, brelse, bpin, bunpin)
\* in the form the steps below use.
LEMMA RefsExactIs == RefsExact <=> TypeOK /\ OneBuffer /\ RefsCounted
<1>. SUFFICES ASSUME TypeOK
              PROVE  /\ (\A k \in Blocks : Cardinality(Cached(k)) <= 1) <=> OneBuffer
                     /\ (\A b \in Bufs : buf[b].refcnt = Cardinality({p \in Procs : cur[p] = b})
                                                           + Cardinality(pinned \cap {b})) <=> RefsCounted
  BY DEF RefsExact
<1>1. ASSUME NEW k \in Blocks
      PROVE  Cardinality(Cached(k)) <= 1 <=> \A b, c \in Cached(k) : b = c
  <2>1. IsFiniteSet(Bufs) /\ Cached(k) \in SUBSET Bufs
    <3>1. NBUF \in Int
      BY DiskAssumption
    <3>. QED
      BY <3>1, FS_Interval DEF Bufs, Cached
  <2>2. IsFiniteSet(Cached(k))
    BY <2>1, FS_Subset
  <2>. QED
    BY <2>2, AtMostOne
<1>2. (\A k \in Blocks : Cardinality(Cached(k)) <= 1) <=> OneBuffer
  <2>1. \A b \in Bufs : buf[b].blockno \in Blocks \cup {NoBlock}
    BY DEF TypeOK, Buffers
  <2>2. (\A k \in Blocks : \A b, c \in Cached(k) : b = c) <=> OneBuffer
    BY <2>1, DiskAssumption DEF OneBuffer, Cached
  <2>. QED
    BY <1>1, <2>2
<1>3. \A b \in Bufs : Cardinality({p \in Procs : cur[p] = b}) + Cardinality(pinned \cap {b})
                        = References(cur, pinned, b)
  BY CardPin DEF References
<1>. QED
  BY <1>2, <1>3 DEF RefsCounted

\* The same after a step.
LEMMA RefsExactNext == TypeOK' /\ OneBuffer' /\ RefsCounted' => RefsExact'
  BY RefsExactIs, PTL

\* SleepersHaveCause without what RequestsAgree says of the sleepers on a buffer.
LockSleepers == \A p \in Procs : pc[p] = "lockAsleep" => lock[cur[p]] # NoProc
DescSleepers == \A p \in Procs : pc[p] \in {"readDesc", "writeDesc"} => Cardinality(free) < 3
Completions  == used # <<>> => irq \/ inIntr

Inv ==
  /\ TypeOK /\ OneBuffer /\ RefsCounted /\ LockSleepers /\ DescSleepers /\ Completions
  /\ LocksAgree /\ RequestsAgree /\ DataAgree

\* The invariant of Disk and the form proved here are the same.
LEMMA IInvIs == IInv <=> Inv
<1>1. RequestsAgree => (SleepersHaveCause <=> LockSleepers /\ DescSleepers /\ Completions)
  <2>1. RequestsAgree => \A p \in Procs : pc[p] \in {"readWait", "writeWait"} =>
          /\ buf[cur[p]].disk
          /\ \E d \in chain[p] : (\E r \in avail : r.head = d) \/ d \in ToSet(used)
    BY DEF RequestsAgree, ChainsAgree, RingsAgree, Waiting
  <2>. QED
    BY <2>1 DEF SleepersHaveCause, LockSleepers, DescSleepers, Completions
<1>. QED
  BY <1>1, RefsExactIs DEF IInv, Inv

\* No buffer is 0, the value of cur for a process without one.
LEMMA ZeroNotBuffer == 0 \notin Bufs
  BY DEF Bufs

\* A process with a buffer has one of the cache's.
LEMMA CurIsBuffer == TypeOK /\ LocksAgree => \A p \in Procs : pc[p] # "idle" => cur[p] \in Bufs
  BY DEF TypeOK, LocksAgree

\* A sleep lock has one holder.
LEMMA HolderAlone ==
  LocksAgree => \A p, q \in Procs : pc[p] \in Holding /\ pc[q] \in Holding /\ cur[p] = cur[q] => p = q
  BY DEF LocksAgree

\* A step that gives one field of one buffer a new value.
LEMMA SetValid ==
  ASSUME buf \in [Bufs -> Buffers], NEW b \in Bufs, NEW v \in BOOLEAN, buf' = [buf EXCEPT ![b].valid = v]
  PROVE  /\ buf' \in [Bufs -> Buffers]
         /\ \A c \in Bufs : /\ buf'[c].blockno = buf[c].blockno /\ buf'[c].disk = buf[c].disk
                            /\ buf'[c].refcnt = buf[c].refcnt /\ buf'[c].data = buf[c].data
                            /\ c # b => buf'[c].valid = buf[c].valid
         /\ buf'[b].valid = v
<1>. DEFINE s == [buf[b] EXCEPT !.valid = v]
<1>1. buf' = [buf EXCEPT ![b] = s]
  OBVIOUS
<1>2. s \in Buffers /\ s.valid = v
  BY DEF Buffers
<1>3. s.blockno = buf[b].blockno /\ s.disk = buf[b].disk /\ s.refcnt = buf[b].refcnt /\ s.data = buf[b].data
  BY DEF Buffers
<1>. HIDE DEF s
<1>. QED
  BY <1>1, <1>2, <1>3

\* b->disk, set by virtio_disk_rw and cleared by virtio_disk_intr, alone.
LEMMA SetDisk ==
  ASSUME buf \in [Bufs -> Buffers], NEW b \in Bufs, NEW v \in BOOLEAN, buf' = [buf EXCEPT ![b].disk = v]
  PROVE  /\ buf' \in [Bufs -> Buffers]
         /\ \A c \in Bufs : /\ buf'[c].blockno = buf[c].blockno /\ buf'[c].valid = buf[c].valid
                            /\ buf'[c].refcnt = buf[c].refcnt /\ buf'[c].data = buf[c].data
                            /\ c # b => buf'[c].disk = buf[c].disk
         /\ buf'[b].disk = v
<1>. DEFINE s == [buf[b] EXCEPT !.disk = v]
<1>1. buf' = [buf EXCEPT ![b] = s]
  OBVIOUS
<1>2. s \in Buffers /\ s.disk = v
  BY DEF Buffers
<1>3. s.blockno = buf[b].blockno /\ s.valid = buf[b].valid /\ s.refcnt = buf[b].refcnt /\ s.data = buf[b].data
  BY DEF Buffers
<1>. HIDE DEF s
<1>. QED
  BY <1>1, <1>2, <1>3

\* b->refcnt, counted by bget, brelse, bpin and bunpin, alone.
LEMMA SetRefcnt ==
  ASSUME buf \in [Bufs -> Buffers], NEW b \in Bufs, NEW v \in 0 .. Cardinality(Procs) + 1, buf' = [buf EXCEPT ![b].refcnt = v]
  PROVE  /\ buf' \in [Bufs -> Buffers]
         /\ \A c \in Bufs : /\ buf'[c].blockno = buf[c].blockno /\ buf'[c].valid = buf[c].valid
                            /\ buf'[c].disk = buf[c].disk /\ buf'[c].data = buf[c].data
                            /\ buf'[c].refcnt = IF c = b THEN v ELSE buf[c].refcnt
<1>. DEFINE s == [buf[b] EXCEPT !.refcnt = v]
<1>1. buf' = [buf EXCEPT ![b] = s]
  OBVIOUS
<1>2. s \in Buffers /\ s.refcnt = v
  BY DEF Buffers
<1>3. s.blockno = buf[b].blockno /\ s.valid = buf[b].valid /\ s.disk = buf[b].disk /\ s.data = buf[b].data
  BY DEF Buffers
<1>. HIDE DEF s
<1>. QED
  BY <1>1, <1>2, <1>3

\* b->data, read by the device or changed by a file system operation, alone.
LEMMA SetData ==
  ASSUME buf \in [Bufs -> Buffers], NEW b \in Bufs, NEW v \in Vals, buf' = [buf EXCEPT ![b].data = v]
  PROVE  /\ buf' \in [Bufs -> Buffers]
         /\ \A c \in Bufs : /\ buf'[c].blockno = buf[c].blockno /\ buf'[c].valid = buf[c].valid
                            /\ buf'[c].disk = buf[c].disk /\ buf'[c].refcnt = buf[c].refcnt
                            /\ buf'[c].data = IF c = b THEN v ELSE buf[c].data
<1>. DEFINE s == [buf[b] EXCEPT !.data = v]
<1>1. buf' = [buf EXCEPT ![b] = s]
  OBVIOUS
<1>2. s \in Buffers /\ s.data = v
  BY DEF Buffers
<1>3. s.blockno = buf[b].blockno /\ s.valid = buf[b].valid /\ s.disk = buf[b].disk /\ s.refcnt = buf[b].refcnt
  BY DEF Buffers
<1>. HIDE DEF s
<1>. QED
  BY <1>1, <1>2, <1>3

\* binit and virtio_disk_init establish it.
LEMMA InitInv == Init => Inv
<1>. SUFFICES ASSUME Init PROVE Inv
  OBVIOUS
<1>1. TypeOK
  <2>1. buf \in [Bufs -> Buffers]
    <3>1. 0 \in 0 .. Cardinality(Procs) + 1
      BY DiskAssumption, FS_CardinalityType
    <3>2. [blockno |-> NoBlock, valid |-> FALSE, disk |-> FALSE, refcnt |-> 0, data |-> Zero] \in Buffers
      BY <3>1, DiskAssumption DEF Buffers
    <3>. QED
      BY <3>2 DEF Init
  <2>2. lru \in [Bufs -> Bufs] /\ ToSet(lru) = Bufs
    <3>1. NBUF \in Nat
      BY DiskAssumption
    <3>2. \A i \in Bufs : NBUF + 1 - i \in Bufs /\ NBUF + 1 - (NBUF + 1 - i) = i
      BY <3>1 DEF Bufs
    <3>3. lru \in [Bufs -> Bufs] /\ \A i \in Bufs : lru[NBUF + 1 - i] = i
      BY <3>2 DEF Init
    <3>4. ToSet(lru) = {lru[i] : i \in Bufs}
      BY <3>3 DEF ToSet
    <3>. QED
      BY <3>2, <3>3, <3>4
  <2>3. free \subseteq Desc
    BY Descriptors DEF Init
  <2>4. avail \subseteq [head : Desc, write : BOOLEAN] /\ used \in Seq(Desc)
    BY DEF Init
  <2>. QED
    BY <2>1, <2>2, <2>3, <2>4, DiskAssumption DEF Init, TypeOK, Holding, InRw
<1>2. OneBuffer
  BY DEF OneBuffer, Init
<1>3. RefsCounted
  <2>1. ASSUME NEW b \in Bufs PROVE References(cur, pinned, b) = 0
    <3>1. b # 0
      BY DiskAssumption DEF Bufs
    <3>2. {p \in Procs : cur[p] = b} = {}
      BY <3>1 DEF Init
    <3>3. b \notin pinned
      BY DEF Init
    <3>. QED
      BY <3>2, <3>3, FS_EmptySet DEF References
  <2>. QED
    BY <2>1 DEF Init, RefsCounted
<1>4. LockSleepers /\ DescSleepers /\ Completions
  BY DEF Init, LockSleepers, DescSleepers, Completions
<1>5. LocksAgree
  BY DiskAssumption DEF Init, LocksAgree, Holding, InRw
<1>6. RequestsAgree
  <2>1. ToSet(used) = {}
    BY DEF Init, ToSet
  <2>2. free \subseteq Desc
    BY <1>1 DEF TypeOK
  <2>. QED
    BY <2>1, <2>2 DEF Init, RequestsAgree, ChainsAgree, RingsAgree, Waiting, Served
<1>7. DataAgree
  BY DEF Init, DataAgree, Unwritten
<1>. QED
  BY <1>1, <1>2, <1>3, <1>4, <1>5, <1>6, <1>7 DEF Inv

\* The parts that a step leaves alone.
LEMMA OneBufferKept ==
  ASSUME Inv, \A b \in Bufs : buf'[b].blockno = buf[b].blockno PROVE OneBuffer'
  BY DEF Inv, OneBuffer

\* No reference is taken or dropped.
LEMMA RefsKept ==
  ASSUME Inv, \A b \in Bufs : buf'[b].refcnt = buf[b].refcnt, UNCHANGED <<cur, pinned>>
  PROVE  RefsCounted'
  BY DEF Inv, RefsCounted

\* No request of virtio_disk_rw is made, served or finished.
LEMMA RequestsKept ==
  ASSUME Inv, UNCHANGED <<chain, free, info, avail, used>>,
         \A q \in Procs : cur'[q] # cur[q] => pc[q] \notin Waiting,
         \A q \in Procs : pc'[q] # pc[q] => {pc[q], pc'[q]} \cap (Waiting \cup Served) = {},
         \A b \in Bufs : buf'[b].disk = buf[b].disk
  PROVE  RequestsAgree'
<1>1. \A q \in Procs : \A w \in Waiting \cup Served : pc'[q] = w <=> pc[q] = w
  OBVIOUS
<1>2. \A q \in Procs : /\ pc'[q] \in Waiting <=> pc[q] \in Waiting
                       /\ pc'[q] \in Waiting \cup Served <=> pc[q] \in Waiting \cup Served
                       /\ pc'[q] = "readWait" <=> pc[q] = "readWait"
                       /\ pc'[q] = "writeWait" <=> pc[q] = "writeWait"
  BY <1>1 DEF Waiting, Served
<1>3. \A q \in Procs : pc[q] \in Waiting => cur'[q] = cur[q] /\ buf'[cur'[q]].disk = buf[cur[q]].disk
  BY CurIsBuffer DEF Inv, Waiting
<1>4. \A q \in Procs : pc[q] = "readWait" \/ pc[q] = "writeWait" => cur'[q] = cur[q]
  BY <1>3 DEF Waiting
<1>5. /\ \A r \in avail' : \E q \in Procs : /\ pc'[q] = IF r.write THEN "writeWait" ELSE "readWait"
                                         /\ r.head \in chain'[q] /\ info'[r.head] = cur'[q]
      /\ \A d \in ToSet(used)' : \E q \in Procs : pc'[q] \in Waiting /\ d \in chain'[q] /\ info'[d] = cur'[q]
  BY <1>2, <1>3, <1>4 DEF Inv, RequestsAgree, ChainsAgree, RingsAgree
<1>6. \A q \in Procs : pc'[q] \in Waiting =>
        /\ buf'[cur'[q]].disk
        /\ \E d \in chain'[q] : /\ info'[d] = cur'[q]
                                /\ (\E r \in avail' : r.head = d) \/ d \in ToSet(used)'
  BY <1>2, <1>3 DEF Inv, RequestsAgree, ChainsAgree, RingsAgree
<1>. QED
  BY <1>2, <1>5, <1>6 DEF Inv, RequestsAgree, ChainsAgree, RingsAgree

\* No buffer and no block gets new contents, and who must still write is unchanged.
LEMMA DataKept ==
  ASSUME Inv, UNCHANGED <<disk, avail, chain>>, pinned \subseteq pinned',
         \A b \in Bufs : /\ buf'[b].blockno = buf[b].blockno /\ buf'[b].valid = buf[b].valid
                         /\ buf'[b].data = buf[b].data,
         \A q \in Procs : /\ Unwritten(q)' <=> Unwritten(q)
                          /\ pc'[q] = "readDone" <=> pc[q] = "readDone"
                          /\ pc'[q] = "readWait" <=> pc[q] = "readWait"
                          /\ Unwritten(q) \/ pc[q] = "readWait" \/ pc[q] = "readDone" => cur'[q] = cur[q]
  PROVE  DataAgree'
<1>1. ASSUME NEW b \in Bufs, buf'[b].valid
      PROVE  /\ buf'[b].blockno # NoBlock
             /\ \/ buf'[b].data = disk'[buf'[b].blockno]
                \/ b \in pinned'
                \/ \E q \in Procs : cur'[q] = b /\ Unwritten(q)'
  <2>1. buf[b].valid
    BY <1>1
  <2>2. /\ buf[b].blockno # NoBlock
        /\ \/ buf[b].data = disk[buf[b].blockno]
           \/ b \in pinned
           \/ \E q \in Procs : cur[q] = b /\ Unwritten(q)
    BY <2>1 DEF Inv, DataAgree
  <2>. QED
    BY <2>2
<1>2. ASSUME NEW q \in Procs,
             pc'[q] = "readDone" \/ (pc'[q] = "readWait" /\ \A r \in avail' : r.head \notin chain'[q])
      PROVE  buf'[cur'[q]].data = disk'[buf'[cur'[q]].blockno]
  <2>1. pc[q] = "readDone" \/ (pc[q] = "readWait" /\ \A r \in avail : r.head \notin chain[q])
    BY <1>2
  <2>2. cur'[q] = cur[q] /\ cur[q] \in Bufs /\ buf[cur[q]].data = disk[buf[cur[q]].blockno]
    BY <2>1, CurIsBuffer DEF Inv, DataAgree
  <2>. QED
    BY <2>2
<1>. QED
  BY <1>1, <1>2 DEF DataAgree

\* acquiresleep takes a free lock or puts its caller to sleep.
LEMMA AcquireSleepInv == ASSUME Inv, NEW p \in Procs, AcquireSleep(p) PROVE Inv'
<1>. USE DEF Inv
<1>1. cur[p] \in Bufs
  BY CurIsBuffer DEF AcquireSleep
<1>2. TypeOK'
  BY <1>1 DEF AcquireSleep, TypeOK, Holding, InRw, driverVars
<1>3. OneBuffer' /\ RefsCounted'
  BY OneBufferKept, RefsKept DEF AcquireSleep
<1>4. LockSleepers'
  BY <1>1, CurIsBuffer, DiskAssumption DEF AcquireSleep, TypeOK, LockSleepers
<1>5. DescSleepers'
  BY DEF AcquireSleep, TypeOK, DescSleepers, driverVars
<1>6. Completions'
  BY DEF AcquireSleep, Completions, driverVars
<1>7. LocksAgree'
  BY <1>1, DiskAssumption DEF AcquireSleep, TypeOK, LocksAgree, Holding, InRw, driverVars
<1>8. RequestsAgree'
  BY RequestsKept DEF AcquireSleep, TypeOK, Waiting, Served, driverVars
<1>9. DataAgree'
  BY <1>1 DEF AcquireSleep, TypeOK, DataAgree, Unwritten, driverVars
<1>. QED
  BY <1>2, <1>3, <1>4, <1>5, <1>6, <1>7, <1>8, <1>9

\* virtio_disk_intr begins and acknowledges the interrupt.
LEMMA IntrEnterInv == ASSUME Inv, IntrEnter PROVE Inv'
<1>. USE DEF Inv
<1>1. TypeOK'
  BY DEF IntrEnter, TypeOK, cacheVars, procVars
<1>2. OneBuffer' /\ RefsCounted'
  BY OneBufferKept, RefsKept DEF IntrEnter, cacheVars, procVars
<1>3. LockSleepers' /\ DescSleepers'
  BY DEF IntrEnter, LockSleepers, DescSleepers, cacheVars, procVars
<1>4. Completions'
  BY DEF IntrEnter, Completions
<1>5. LocksAgree'
  BY DEF IntrEnter, LocksAgree, cacheVars, procVars
<1>6. RequestsAgree'
  BY RequestsKept DEF IntrEnter, cacheVars, procVars
<1>7. DataAgree'
  BY DEF IntrEnter, DataAgree, Unwritten, cacheVars, procVars
<1>. QED
  BY <1>1, <1>2, <1>3, <1>4, <1>5, <1>6, <1>7

\* virtio_disk_intr ends its loop at an empty used ring.
LEMMA IntrLeaveInv == ASSUME Inv, IntrLeave PROVE Inv'
<1>. USE DEF Inv
<1>1. TypeOK'
  BY DEF IntrLeave, TypeOK, cacheVars, procVars
<1>2. OneBuffer' /\ RefsCounted'
  BY OneBufferKept, RefsKept DEF IntrLeave, cacheVars, procVars
<1>3. LockSleepers' /\ DescSleepers'
  BY DEF IntrLeave, LockSleepers, DescSleepers, cacheVars, procVars
<1>4. Completions'
  BY DEF IntrLeave, Completions
<1>5. LocksAgree'
  BY DEF IntrLeave, LocksAgree, cacheVars, procVars
<1>6. RequestsAgree'
  BY RequestsKept DEF IntrLeave, cacheVars, procVars
<1>7. DataAgree'
  BY DEF IntrLeave, DataAgree, Unwritten, cacheVars, procVars
<1>. QED
  BY <1>1, <1>2, <1>3, <1>4, <1>5, <1>6, <1>7

\* A caller of bwrite changes the data of a buffer whose lock it holds.
LEMMA BwriteInv == ASSUME Inv, NEW p \in Procs, NEW v \in Vals, Bwrite(p, v) PROVE Inv'
<1>. USE DEF Inv
<1>1. cur[p] \in Bufs /\ pc[p] = "hold"
  BY CurIsBuffer DEF Bwrite
<1>2. /\ buf' \in [Bufs -> Buffers]
      /\ \A b \in Bufs : /\ buf'[b].blockno = buf[b].blockno /\ buf'[b].valid = buf[b].valid
                         /\ buf'[b].disk = buf[b].disk /\ buf'[b].refcnt = buf[b].refcnt
                         /\ buf'[b].data = IF b = cur[p] THEN v ELSE buf[b].data
  <2>1. buf \in [Bufs -> Buffers] /\ buf' = [buf EXCEPT ![cur[p]].data = v]
    BY DEF Bwrite, TypeOK
  <2>. QED
    BY <1>1, <2>1, SetData
<1>3. TypeOK'
  BY <1>2 DEF Bwrite, TypeOK, Holding, InRw, driverVars
<1>4. OneBuffer' /\ RefsCounted'
  BY <1>2, OneBufferKept, RefsKept DEF Bwrite
<1>5. LockSleepers' /\ DescSleepers'
  BY DEF Bwrite, TypeOK, LockSleepers, DescSleepers, driverVars
<1>6. Completions'
  BY DEF Bwrite, Completions, driverVars
<1>7. LocksAgree'
  BY <1>1, <1>2 DEF Bwrite, TypeOK, LocksAgree, Holding, InRw
<1>8. RequestsAgree'
  BY <1>1, <1>2, RequestsKept DEF Bwrite, TypeOK, Waiting, Served, driverVars
<1>9. DataAgree'
  BY <1>1, <1>2, HolderAlone DEF Bwrite, TypeOK, DataAgree, Unwritten, driverVars, Holding, InRw
<1>. QED
  BY <1>3, <1>4, <1>5, <1>6, <1>7, <1>8, <1>9

\* References counted: their range, and what a bget, a brelse and a pin change.
LEMMA RefsRange == ASSUME NEW c, NEW P, NEW b PROVE References(c, P, b) \in 0 .. Cardinality(Procs) + 1
<1>1. {p \in Procs : c[p] = b} \in SUBSET Procs
  OBVIOUS
<1>2. Cardinality({p \in Procs : c[p] = b}) \in 0 .. Cardinality(Procs)
  BY <1>1, CardRefs
<1>3. Cardinality(Procs) \in Nat
  BY DiskAssumption, FS_CardinalityType
<1>. QED
  BY <1>2, <1>3 DEF References

\* What a process's bget of b, and its brelse, do to the references.
LEMMA RefsAfterTake ==
  ASSUME cur \in [Procs -> Bufs \cup {0}], RefsCounted, NEW p \in Procs, cur[p] = 0, NEW b \in Bufs,
         cur' = [cur EXCEPT ![p] = b]
  PROVE  /\ References(cur', pinned, b) = buf[b].refcnt + 1
         /\ \A c \in Bufs \ {b} : References(cur', pinned, c) = buf[c].refcnt
<1>. DEFINE S(c) == {q \in Procs : cur[q] = c}
            T(c) == {q \in Procs : cur'[q] = c}
            Pin(c) == IF c \in pinned THEN 1 ELSE 0
<1>1. S(b) \in SUBSET Procs /\ T(b) = S(b) \cup {p} /\ p \notin S(b)
  BY ZeroNotBuffer
<1>2. \A c \in Bufs \ {b} : T(c) = S(c)
  BY ZeroNotBuffer
<1>3. \A c : References(cur', pinned, c) = Cardinality(T(c)) + Pin(c)
  BY DEF References
<1>4. \A c \in Bufs : buf[c].refcnt = Cardinality(S(c)) + Pin(c)
  BY DEF RefsCounted, References
<1>5. Pin(b) \in Int
  OBVIOUS
<1>. HIDE DEF S, T, Pin
<1>6. Cardinality(S(b)) \in Int /\ Cardinality(T(b)) = Cardinality(S(b)) + 1
  BY <1>1, CardRefs, CardAdd
<1>7. References(cur', pinned, b) = buf[b].refcnt + 1
  <2>1. References(cur', pinned, b) = Cardinality(T(b)) + Pin(b)
    BY <1>3
  <2>2. buf[b].refcnt = Cardinality(S(b)) + Pin(b)
    BY <1>4
  <2>. QED
    BY <1>5, <1>6, <2>1, <2>2
<1>8. ASSUME NEW c \in Bufs \ {b} PROVE References(cur', pinned, c) = buf[c].refcnt
  <2>1. References(cur', pinned, c) = Cardinality(T(c)) + Pin(c)
    BY <1>3
  <2>2. T(c) = S(c)
    BY <1>2
  <2>3. buf[c].refcnt = Cardinality(S(c)) + Pin(c)
    BY <1>4
  <2>. QED
    BY <2>1, <2>2, <2>3
<1>. QED
  BY <1>7, <1>8

\* brelse drops one reference to b, and to no other buffer.
LEMMA RefsAfterGive ==
  ASSUME cur \in [Procs -> Bufs \cup {0}], RefsCounted, NEW p \in Procs, NEW b \in Bufs, cur[p] = b,
         cur' = [cur EXCEPT ![p] = 0]
  PROVE  /\ References(cur', pinned, b) = buf[b].refcnt - 1
         /\ \A c \in Bufs \ {b} : References(cur', pinned, c) = buf[c].refcnt
<1>. DEFINE S(c) == {q \in Procs : cur[q] = c}
            T(c) == {q \in Procs : cur'[q] = c}
            Pin(c) == IF c \in pinned THEN 1 ELSE 0
<1>1. S(b) \in SUBSET Procs /\ T(b) = S(b) \ {p} /\ p \in S(b)
  BY ZeroNotBuffer
<1>2. \A c \in Bufs \ {b} : T(c) = S(c)
  BY ZeroNotBuffer
<1>3. \A c : References(cur', pinned, c) = Cardinality(T(c)) + Pin(c)
  BY DEF References
<1>4. \A c \in Bufs : buf[c].refcnt = Cardinality(S(c)) + Pin(c)
  BY DEF RefsCounted, References
<1>5. Pin(b) \in Int
  OBVIOUS
<1>. HIDE DEF S, T, Pin
<1>6. Cardinality(S(b)) \in Int /\ Cardinality(T(b)) = Cardinality(S(b)) - 1
  BY <1>1, CardRefs, CardRemove
<1>7. References(cur', pinned, b) = buf[b].refcnt - 1
  <2>1. References(cur', pinned, b) = Cardinality(T(b)) + Pin(b)
    BY <1>3
  <2>2. buf[b].refcnt = Cardinality(S(b)) + Pin(b)
    BY <1>4
  <2>. QED
    BY <1>5, <1>6, <2>1, <2>2
<1>8. ASSUME NEW c \in Bufs \ {b} PROVE References(cur', pinned, c) = buf[c].refcnt
  <2>1. References(cur', pinned, c) = Cardinality(T(c)) + Pin(c)
    BY <1>3
  <2>2. T(c) = S(c)
    BY <1>2
  <2>3. buf[c].refcnt = Cardinality(S(c)) + Pin(c)
    BY <1>4
  <2>. QED
    BY <2>1, <2>2, <2>3
<1>. QED
  BY <1>7, <1>8

\* What pinning and unpinning do to them.
LEMMA RefsPin ==
  ASSUME RefsCounted, NEW P, NEW b \in Bufs
  PROVE  /\ (b \in P <=> b \in pinned) => References(cur, P, b) = buf[b].refcnt
         /\ b \in P /\ b \notin pinned => References(cur, P, b) = buf[b].refcnt + 1
         /\ b \notin P /\ b \in pinned => References(cur, P, b) = buf[b].refcnt - 1
<1>. DEFINE N == Cardinality({q \in Procs : cur[q] = b})
<1>1. N \in Int
  <2>1. {q \in Procs : cur[q] = b} \in SUBSET Procs
    OBVIOUS
  <2>. QED
    BY <2>1, CardRefs
<1>2. References(cur, P, b) = N + (IF b \in P THEN 1 ELSE 0)
  BY DEF References
<1>3. buf[b].refcnt = N + (IF b \in pinned THEN 1 ELSE 0)
  BY DEF RefsCounted, References
<1>. HIDE DEF N
<1>. QED
  BY <1>1, <1>2, <1>3

\* A buffer without references is nobody's: no process has it and it is not pinned.
LEMMA UnusedIs ==
  ASSUME Inv, NEW b \in Unused PROVE b \in Bufs /\ b \notin pinned /\ \A p \in Procs : cur[p] # b
<1>. DEFINE S == {p \in Procs : cur[p] = b}
<1>1. b \in Bufs /\ References(cur, pinned, b) = 0
  BY DEF Inv, RefsCounted, Unused
<1>2. IsFiniteSet(S) /\ Cardinality(S) \in Nat
  <2>1. S \in SUBSET Procs
    OBVIOUS
  <2>. QED
    BY <2>1, CardRefs
<1>3. b \notin pinned /\ Cardinality(S) = 0
  BY <1>1, <1>2 DEF References
<1>4. S = {}
  <2>. HIDE DEF S
  <2>. QED
    BY <1>2, <1>3, FS_EmptySet
<1>. QED
  BY <1>1, <1>3, <1>4

\* bget of a cached block.
LEMMA BgetCachedInv ==
  ASSUME Inv, NEW p \in Procs, pc[p] = "idle", NEW b \in Bufs, buf[b].blockno # NoBlock,
         buf' = [buf EXCEPT ![b].refcnt = @ + 1], cur' = [cur EXCEPT ![p] = b],
         pc' = [pc EXCEPT ![p] = "lock"], UNCHANGED <<lru, lock, pinned, chain, driverVars, disk, panicked>>
  PROVE  Inv'
<1>. USE DEF Inv
<1>1. cur[p] = 0 /\ cur \in [Procs -> Bufs \cup {0}]
  BY DEF LocksAgree, TypeOK
<1>2. /\ References(cur', pinned, b) = buf[b].refcnt + 1
      /\ \A c \in Bufs \ {b} : References(cur', pinned, c) = buf[c].refcnt
  BY <1>1, RefsAfterTake
<1>3. /\ buf' \in [Bufs -> Buffers]
      /\ \A c \in Bufs : /\ buf'[c].blockno = buf[c].blockno /\ buf'[c].valid = buf[c].valid
                         /\ buf'[c].disk = buf[c].disk /\ buf'[c].data = buf[c].data
                         /\ buf'[c].refcnt = IF c = b THEN buf[b].refcnt + 1 ELSE buf[c].refcnt
  <2>1. buf \in [Bufs -> Buffers] /\ buf' = [buf EXCEPT ![b].refcnt = buf[b].refcnt + 1]
    BY DEF TypeOK
  <2>2. buf[b].refcnt + 1 \in 0 .. Cardinality(Procs) + 1
    BY <1>2, RefsRange
  <2>. QED
    BY <2>1, <2>2, SetRefcnt
<1>4. TypeOK'
  BY <1>3 DEF TypeOK, driverVars
<1>5. OneBuffer'
  BY <1>3, OneBufferKept
<1>6. RefsCounted'
  <2>1. \A c \in Bufs : buf'[c].refcnt = References(cur', pinned', c)
    BY <1>2, <1>3
  <2>. QED
    BY <2>1 DEF RefsCounted
<1>7. LockSleepers' /\ DescSleepers'
  BY <1>1 DEF TypeOK, LockSleepers, DescSleepers, driverVars
<1>8. Completions'
  BY DEF Completions, driverVars
<1>9. LocksAgree'
  <2>1. b # 0
    BY DiskAssumption DEF Bufs
  <2>2. \A q \in Procs : pc'[q] = IF q = p THEN "lock" ELSE pc[q]
    BY DEF TypeOK
  <2>3. \A q \in Procs : cur'[q] = IF q = p THEN b ELSE cur[q]
    BY <1>1
  <2>4. lock[b] # p
    BY <1>1, <2>1, DiskAssumption DEF LocksAgree
  <2>5. "lock" \notin Holding /\ "lock" # "idle" /\ "idle" \notin Holding
    BY DEF Holding, InRw
  <2>6. \A q \in Procs : q # p /\ cur[q] # 0 => buf'[cur'[q]].blockno = buf[cur[q]].blockno
                                               /\ buf'[cur'[q]].valid = buf[cur[q]].valid
    BY <1>1, <1>3, <2>3
  <2>7. buf'[cur'[p]].blockno # NoBlock
    BY <1>3, <2>3
  <2>8. \A q \in Procs : pc'[q] \in Holding =>
          (buf'[cur'[q]].valid <=> pc'[q] \notin {"readDesc", "read", "readWait", "readDone"})
    BY <2>2, <2>5, <2>6 DEF LocksAgree
  <2>9. \A q \in Procs : pc'[q] \in Holding <=> cur'[q] # 0 /\ lock'[cur'[q]] = q
    BY <2>1, <2>2, <2>3, <2>4, <2>5 DEF LocksAgree
  <2>10. \A c \in Bufs : lock'[c] # NoProc => cur'[lock'[c]] = c
    BY <1>1, <2>3, ZeroNotBuffer DEF LocksAgree, TypeOK
  <2>. QED
    BY <2>1, <2>2, <2>3, <2>5, <2>6, <2>7, <2>8, <2>9, <2>10 DEF LocksAgree
<1>10. RequestsAgree'
  BY <1>1, <1>3, RequestsKept DEF TypeOK, Waiting, Served, driverVars
<1>11. DataAgree'
  BY <1>1, <1>3 DEF TypeOK, DataAgree, Unwritten, driverVars
<1>. QED
  BY <1>4, <1>5, <1>6, <1>7, <1>8, <1>9, <1>10, <1>11

\* bget of a block that is not cached, in an unused buffer.
LEMMA BgetRecycleInv ==
  ASSUME Inv, NEW p \in Procs, pc[p] = "idle", NEW k \in Blocks, Cached(k) = {}, NEW b \in Unused,
         buf' = Recycle(b, k), cur' = [cur EXCEPT ![p] = b],
         pc' = [pc EXCEPT ![p] = "lock"], UNCHANGED <<lru, lock, pinned, chain, driverVars, disk, panicked>>
  PROVE  Inv'
<1>. USE DEF Inv
<1>1. cur[p] = 0 /\ cur \in [Procs -> Bufs \cup {0}]
  BY DEF LocksAgree, TypeOK
<1>2. b \in Bufs /\ b \notin pinned /\ buf[b].refcnt = 0 /\ \A q \in Procs : cur[q] # b
  BY UnusedIs DEF Unused
<1>3. /\ References(cur', pinned, b) = buf[b].refcnt + 1
      /\ \A c \in Bufs \ {b} : References(cur', pinned, c) = buf[c].refcnt
  BY <1>1, <1>2, RefsAfterTake
<1>4. /\ buf' \in [Bufs -> Buffers]
      /\ buf'[b].blockno = k /\ ~buf'[b].valid
      /\ \A c \in Bufs \ {b} : buf'[c].blockno = buf[c].blockno /\ buf'[c].valid = buf[c].valid
      /\ \A c \in Bufs : /\ buf'[c].disk = buf[c].disk /\ buf'[c].data = buf[c].data
                         /\ buf'[c].refcnt = IF c = b THEN 1 ELSE buf[c].refcnt
  <2>. DEFINE s == [buf[b] EXCEPT !.blockno = k, !.valid = FALSE, !.refcnt = 1]
  <2>1. buf \in [Bufs -> Buffers] /\ buf' = [buf EXCEPT ![b] = s]
    BY <1>2 DEF TypeOK, Recycle
  <2>2. 1 \in 0 .. Cardinality(Procs) + 1
    BY DiskAssumption, FS_CardinalityType
  <2>3. /\ s \in Buffers /\ s.blockno = k /\ s.valid = FALSE /\ s.disk = buf[b].disk
        /\ s.refcnt = 1 /\ s.data = buf[b].data
    <3>1. buf[b] \in Buffers
      BY <1>2, <2>1
    <3>. QED
      BY <2>2, <3>1 DEF Buffers
  <2>. HIDE DEF s
  <2>. QED
    BY <1>2, <2>1, <2>3
<1>5. TypeOK'
  BY <1>2, <1>4 DEF TypeOK, driverVars
<1>6. OneBuffer'
  <2>1. \A c \in Bufs : buf[c].blockno # k
    BY DEF Cached
  <2>. QED
    BY <1>2, <1>4, <2>1 DEF OneBuffer
<1>7. RefsCounted'
  <2>1. \A c \in Bufs : buf'[c].refcnt = References(cur', pinned', c)
    <3>1. buf'[b].refcnt = 1 /\ References(cur', pinned', b) = 1
      BY <1>2, <1>3, <1>4
    <3>2. ASSUME NEW c \in Bufs, c # b PROVE buf'[c].refcnt = References(cur', pinned', c)
      BY <1>3, <1>4, <3>2
    <3>. QED
      BY <3>1, <3>2
  <2>. QED
    BY <2>1 DEF RefsCounted
<1>8. LockSleepers' /\ DescSleepers'
  BY <1>1 DEF TypeOK, LockSleepers, DescSleepers, driverVars
<1>9. Completions'
  BY DEF Completions, driverVars
<1>10. LocksAgree'
  <2>1. b # 0 /\ k # NoBlock
    BY <1>2, DiskAssumption DEF Bufs
  <2>2. \A q \in Procs : pc'[q] = IF q = p THEN "lock" ELSE pc[q]
    BY DEF TypeOK
  <2>3. \A q \in Procs : cur'[q] = IF q = p THEN b ELSE cur[q]
    BY <1>1
  <2>4. lock[b] # p
    BY <1>1, <1>2, <2>1, DiskAssumption DEF LocksAgree
  <2>5. "lock" \notin Holding /\ "lock" # "idle" /\ "idle" \notin Holding
    BY DEF Holding, InRw
  <2>6. \A q \in Procs : q # p /\ cur[q] # 0 => buf'[cur'[q]].blockno = buf[cur[q]].blockno
                                               /\ buf'[cur'[q]].valid = buf[cur[q]].valid
    BY <1>1, <1>2, <1>4, <2>3
  <2>7. buf'[cur'[p]].blockno = k
    BY <1>2, <1>4, <2>3
  <2>8. \A q \in Procs : pc'[q] \in Holding =>
          (buf'[cur'[q]].valid <=> pc'[q] \notin {"readDesc", "read", "readWait", "readDone"})
    BY <2>2, <2>5, <2>6 DEF LocksAgree
  <2>9. \A q \in Procs : pc'[q] \in Holding <=> cur'[q] # 0 /\ lock'[cur'[q]] = q
    BY <2>1, <2>2, <2>3, <2>4, <2>5 DEF LocksAgree
  <2>10. \A c \in Bufs : lock'[c] # NoProc => cur'[lock'[c]] = c
    BY <1>1, <2>3, ZeroNotBuffer DEF LocksAgree, TypeOK
  <2>. QED
    BY <2>1, <2>2, <2>3, <2>5, <2>6, <2>7, <2>8, <2>9, <2>10 DEF LocksAgree
<1>11. RequestsAgree'
  BY <1>1, <1>4, RequestsKept DEF TypeOK, Waiting, Served, driverVars
<1>12. DataAgree'
  <2>1. \A q \in Procs : q # p => pc'[q] = pc[q] /\ cur'[q] = cur[q] /\ (Unwritten(q)' <=> Unwritten(q))
    BY <1>1 DEF TypeOK, Unwritten, driverVars
  <2>2. pc[p] = "idle" /\ pc'[p] = "lock" /\ ~Unwritten(p)
    BY DEF TypeOK, Unwritten
  <2>3. ASSUME NEW c \in Bufs, buf'[c].valid
        PROVE  /\ buf'[c].blockno # NoBlock
               /\ \/ buf'[c].data = disk'[buf'[c].blockno]
                  \/ c \in pinned'
                  \/ \E q \in Procs : cur'[q] = c /\ Unwritten(q)'
    <3>1. c # b
      BY <1>4, <2>3
    <3>2. buf[c].valid /\ buf'[c].blockno = buf[c].blockno /\ buf'[c].data = buf[c].data
      BY <1>4, <2>3, <3>1
    <3>. QED
      BY <2>1, <2>2, <3>2 DEF DataAgree
  <2>4. ASSUME NEW q \in Procs,
               pc'[q] = "readDone" \/ (pc'[q] = "readWait" /\ \A r \in avail' : r.head \notin chain'[q])
        PROVE  buf'[cur'[q]].data = disk'[buf'[cur'[q]].blockno]
    <3>1. q # p
      BY <2>2, <2>4
    <3>2. pc[q] = "readDone" \/ (pc[q] = "readWait" /\ \A r \in avail : r.head \notin chain[q])
      BY <2>1, <2>4, <3>1 DEF driverVars
    <3>3. cur'[q] = cur[q] /\ cur[q] \in Bufs /\ cur[q] # b
      BY <1>2, <2>1, <3>1, <3>2, CurIsBuffer
    <3>4. buf[cur[q]].data = disk[buf[cur[q]].blockno]
      BY <3>2 DEF DataAgree
    <3>. QED
      BY <1>4, <3>3, <3>4
  <2>. QED
    BY <2>3, <2>4 DEF DataAgree
<1>. QED
  BY <1>5, <1>6, <1>7, <1>8, <1>9, <1>10, <1>11, <1>12

\* bget finds the block, or recycles a buffer nobody refers to.
LEMMA BgetInv == ASSUME Inv, NEW p \in Procs, NEW k \in Blocks, Bget(p, k) PROVE Inv'
<1>1. CASE UNCHANGED <<cacheVars, procVars, driverVars, disk>> /\ panicked' = TRUE
  BY <1>1 DEF cacheVars, procVars, driverVars, Inv, TypeOK, OneBuffer, RefsCounted, LockSleepers,
              DescSleepers, Completions, LocksAgree, RequestsAgree, ChainsAgree, RingsAgree, DataAgree, Unwritten
<1>2. ASSUME NEW b \in Cached(k), buf' = [buf EXCEPT ![b].refcnt = @ + 1], cur' = [cur EXCEPT ![p] = b],
             pc' = [pc EXCEPT ![p] = "lock"], UNCHANGED panicked
      PROVE  Inv'
  <2>1. b \in Bufs /\ buf[b].blockno # NoBlock
    BY DiskAssumption DEF Cached
  <2>. QED
    BY <1>2, <2>1, BgetCachedInv DEF Bget
<1>3. CASE /\ Cached(k) = {} /\ Unused # {} /\ buf' = Recycle(LeastRecent, k)
           /\ cur' = [cur EXCEPT ![p] = LeastRecent] /\ pc' = [pc EXCEPT ![p] = "lock"]
           /\ UNCHANGED panicked
  <2>1. LeastRecent \in Unused
    BY <1>3, LeastRecentIs DEF Inv, TypeOK
  <2>. QED
    BY <1>3, <2>1, BgetRecycleInv DEF Bget
<1>. QED
  BY <1>1, <1>2, <1>3 DEF Bget, cacheVars, procVars

\* releasesleep, the first half of brelse, wakes the sleepers on the lock.
LEMMA ReleaseSleepInv == ASSUME Inv, NEW p \in Procs, ReleaseSleep(p) PROVE Inv'
<1>. USE DEF Inv
<1>1. cur[p] \in Bufs /\ pc[p] = "hold" /\ lock[cur[p]] = p
  BY CurIsBuffer DEF ReleaseSleep, LocksAgree, Holding
<1>2. TypeOK'
  BY <1>1 DEF ReleaseSleep, TypeOK, driverVars
<1>3. OneBuffer' /\ RefsCounted'
  BY OneBufferKept, RefsKept DEF ReleaseSleep
<1>4. LockSleepers'
  BY <1>1, CurIsBuffer DEF ReleaseSleep, TypeOK, LockSleepers
<1>5. DescSleepers'
  BY DEF ReleaseSleep, TypeOK, DescSleepers, driverVars
<1>6. Completions'
  BY DEF ReleaseSleep, Completions, driverVars
<1>7. LocksAgree'
  BY <1>1, DiskAssumption, HolderAlone DEF ReleaseSleep, TypeOK, LocksAgree, Holding, InRw
<1>8. RequestsAgree'
  BY <1>1, RequestsKept DEF ReleaseSleep, TypeOK, Waiting, Served, driverVars
<1>9. DataAgree'
  BY <1>1 DEF ReleaseSleep, TypeOK, DataAgree, Unwritten, driverVars
<1>. QED
  BY <1>2, <1>3, <1>4, <1>5, <1>6, <1>7, <1>8, <1>9

\* The second half of brelse drops the reference under bcache.lock.
LEMMA BrelseInv == ASSUME Inv, NEW p \in Procs, Brelse(p) PROVE Inv'
<1>. USE DEF Inv
<1>1. cur[p] \in Bufs /\ pc[p] = "relse" /\ cur \in [Procs -> Bufs \cup {0}] /\ cur' = [cur EXCEPT ![p] = 0]
  BY CurIsBuffer DEF Brelse, TypeOK
<1>2. /\ References(cur', pinned, cur[p]) = buf[cur[p]].refcnt - 1
      /\ \A c \in Bufs \ {cur[p]} : References(cur', pinned, c) = buf[c].refcnt
  BY <1>1, RefsAfterGive
<1>3. /\ buf' \in [Bufs -> Buffers]
      /\ \A c \in Bufs : /\ buf'[c].blockno = buf[c].blockno /\ buf'[c].valid = buf[c].valid
                         /\ buf'[c].disk = buf[c].disk /\ buf'[c].data = buf[c].data
                         /\ buf'[c].refcnt = IF c = cur[p] THEN buf[cur[p]].refcnt - 1 ELSE buf[c].refcnt
  <2>1. buf \in [Bufs -> Buffers] /\ buf' = [buf EXCEPT ![cur[p]].refcnt = buf[cur[p]].refcnt - 1]
    BY DEF TypeOK, Brelse
  <2>2. buf[cur[p]].refcnt - 1 \in 0 .. Cardinality(Procs) + 1
    BY <1>2, RefsRange
  <2>. QED
    BY <1>1, <2>1, <2>2, SetRefcnt
<1>4. lru' \in [Bufs -> Bufs] /\ ToSet(lru)' = Bufs
  BY <1>1, MoveToFrontIs DEF TypeOK, Brelse
<1>5. TypeOK'
  BY <1>1, <1>3, <1>4 DEF TypeOK, Brelse, driverVars
<1>6. OneBuffer'
  BY <1>3, OneBufferKept
<1>7. RefsCounted'
  <2>1. \A c \in Bufs : buf'[c].refcnt = References(cur', pinned', c)
    BY <1>2, <1>3 DEF Brelse
  <2>. QED
    BY <2>1 DEF RefsCounted
<1>8. LockSleepers' /\ DescSleepers'
  BY <1>1 DEF TypeOK, LockSleepers, DescSleepers, Brelse, driverVars
<1>9. Completions'
  BY DEF Completions, Brelse, driverVars
<1>10. LocksAgree'
  <2>1. \A q \in Procs : pc'[q] = IF q = p THEN "idle" ELSE pc[q]
    BY DEF TypeOK, Brelse
  <2>2. \A q \in Procs : cur'[q] = IF q = p THEN 0 ELSE cur[q]
    BY <1>1
  <2>3. \A c \in Bufs : lock[c] # p
    BY <1>1, DiskAssumption DEF LocksAgree, Holding, InRw
  <2>4. "idle" \notin Holding /\ lock' = lock
    BY DEF Holding, InRw, Brelse
  <2>5. \A q \in Procs : q # p /\ cur[q] # 0 => buf'[cur'[q]].blockno = buf[cur[q]].blockno
                                               /\ buf'[cur'[q]].valid = buf[cur[q]].valid
    BY <1>1, <1>3, <2>2
  <2>6. \A q \in Procs : pc'[q] \in Holding =>
          (buf'[cur'[q]].valid <=> pc'[q] \notin {"readDesc", "read", "readWait", "readDone"})
    BY <2>1, <2>4, <2>5 DEF LocksAgree
  <2>7. \A q \in Procs : pc'[q] \in Holding <=> cur'[q] # 0 /\ lock'[cur'[q]] = q
    BY <2>1, <2>2, <2>4 DEF LocksAgree
  <2>8. \A c \in Bufs : lock'[c] # NoProc => cur'[lock'[c]] = c
    BY <1>1, <2>2, <2>3, <2>4 DEF LocksAgree, TypeOK
  <2>. QED
    BY <2>1, <2>2, <2>5, <2>6, <2>7, <2>8 DEF LocksAgree
<1>11. RequestsAgree'
  BY <1>1, <1>3, RequestsKept DEF TypeOK, Waiting, Served, Brelse, driverVars
<1>12. DataAgree'
  <2>1. \A q \in Procs : /\ Unwritten(q)' <=> Unwritten(q)
                         /\ pc'[q] = "readDone" <=> pc[q] = "readDone"
                         /\ pc'[q] = "readWait" <=> pc[q] = "readWait"
                         /\ Unwritten(q) \/ pc[q] = "readWait" \/ pc[q] = "readDone" => cur'[q] = cur[q]
    BY <1>1 DEF TypeOK, Unwritten, Brelse, driverVars
  <2>. QED
    BY <1>3, <2>1, DataKept DEF Brelse, driverVars
<1>. QED
  BY <1>5, <1>6, <1>7, <1>8, <1>9, <1>10, <1>11, <1>12

\* log_write: a buffer is changed and pinned and not written through.
LEMMA ModifyInv == ASSUME Inv, NEW p \in Procs, NEW v \in Vals, Modify(p, v) PROVE Inv'
<1>. USE DEF Inv
<1>. DEFINE n == IF cur[p] \in pinned THEN buf[cur[p]].refcnt ELSE buf[cur[p]].refcnt + 1
<1>1. cur[p] \in Bufs /\ pc[p] = "hold" /\ buf \in [Bufs -> Buffers] /\ pinned' = pinned \cup {cur[p]} /\ cur' = cur
  BY CurIsBuffer DEF Modify, TypeOK, procVars
<1>2. References(cur, pinned', cur[p]) = n /\ \A c \in Bufs \ {cur[p]} : References(cur, pinned', c) = buf[c].refcnt
  <2>1. References(cur, pinned', cur[p]) = n
    BY <1>1, RefsPin
  <2>2. ASSUME NEW c \in Bufs \ {cur[p]} PROVE References(cur, pinned', c) = buf[c].refcnt
    BY <1>1, RefsPin
  <2>. QED
    BY <2>1, <2>2
<1>3. /\ buf' \in [Bufs -> Buffers]
      /\ \A c \in Bufs : /\ buf'[c].blockno = buf[c].blockno /\ buf'[c].valid = buf[c].valid
                         /\ buf'[c].disk = buf[c].disk
                         /\ buf'[c].refcnt = IF c = cur[p] THEN n ELSE buf[c].refcnt
                         /\ buf'[c].data = IF c = cur[p] THEN v ELSE buf[c].data
  <2>. DEFINE s == [buf[cur[p]] EXCEPT !.data = v, !.refcnt = n]
  <2>1. buf' = [buf EXCEPT ![cur[p]] = s]
    BY <1>1 DEF Modify
  <2>2. n \in 0 .. Cardinality(Procs) + 1
    BY <1>2, RefsRange
  <2>. HIDE DEF n
  <2>3. /\ s \in Buffers /\ s.blockno = buf[cur[p]].blockno /\ s.valid = buf[cur[p]].valid
        /\ s.disk = buf[cur[p]].disk /\ s.refcnt = n /\ s.data = v
    <3>1. buf[cur[p]] \in Buffers
      BY <1>1
    <3>. QED
      BY <2>2, <3>1 DEF Buffers
  <2>. HIDE DEF s
  <2>. QED
    BY <1>1, <2>1, <2>3
<1>4. TypeOK'
  BY <1>1, <1>3 DEF Modify, TypeOK, procVars, driverVars
<1>5. OneBuffer'
  BY <1>3, OneBufferKept
<1>6. RefsCounted'
  <2>1. \A c \in Bufs : buf'[c].refcnt = References(cur', pinned', c)
    <3>. HIDE DEF n
    <3>. QED
      BY <1>1, <1>2, <1>3
  <2>. QED
    BY <2>1 DEF RefsCounted
<1>7. LockSleepers' /\ DescSleepers'
  BY DEF LockSleepers, DescSleepers, Modify, procVars, driverVars
<1>8. Completions'
  BY DEF Completions, Modify, driverVars
<1>9. LocksAgree'
  BY <1>1, <1>3, CurIsBuffer DEF TypeOK, LocksAgree, Modify, procVars
<1>10. RequestsAgree'
  BY <1>3, RequestsKept DEF Modify, procVars, driverVars
<1>11. DataAgree'
  <2>1. /\ \A q \in Procs : pc'[q] = pc[q] /\ cur'[q] = cur[q] /\ (Unwritten(q)' <=> Unwritten(q))
        /\ UNCHANGED <<disk, avail, chain>>
    BY DEF Unwritten, Modify, procVars, driverVars
  <2>2. ASSUME NEW b \in Bufs, buf'[b].valid
        PROVE  /\ buf'[b].blockno # NoBlock
               /\ \/ buf'[b].data = disk'[buf'[b].blockno]
                  \/ b \in pinned'
                  \/ \E q \in Procs : cur'[q] = b /\ Unwritten(q)'
    BY <1>1, <1>3, <2>1, <2>2 DEF DataAgree
  <2>3. ASSUME NEW q \in Procs,
               pc'[q] = "readDone" \/ (pc'[q] = "readWait" /\ \A r \in avail' : r.head \notin chain'[q])
        PROVE  buf'[cur'[q]].data = disk'[buf'[cur'[q]].blockno]
    <3>1. cur[q] \in Bufs /\ buf[cur[q]].data = disk[buf[cur[q]].blockno]
      BY <2>1, <2>3, CurIsBuffer DEF DataAgree
    <3>2. pc[q] \in Holding /\ pc[p] \in Holding /\ q # p
      BY <1>1, <2>1, <2>3 DEF Holding, InRw
    <3>3. cur[q] # cur[p]
      BY <3>2, HolderAlone
    <3>. QED
      BY <1>3, <2>1, <3>1, <3>3
  <2>. QED
    BY <2>2, <2>3 DEF DataAgree
<1>. QED
  BY <1>4, <1>5, <1>6, <1>7, <1>8, <1>9, <1>10, <1>11

\* bunpin after the block was installed.
LEMMA BunpinInv == ASSUME Inv, NEW p \in Procs, Bunpin(p) PROVE Inv'
<1>. USE DEF Inv
<1>1. /\ cur[p] \in Bufs /\ pc[p] = "hold" /\ buf \in [Bufs -> Buffers] /\ cur' = cur
      /\ cur[p] \in pinned /\ pinned' = pinned \ {cur[p]}
  BY CurIsBuffer DEF Bunpin, TypeOK, procVars
<1>2. /\ References(cur, pinned', cur[p]) = buf[cur[p]].refcnt - 1
      /\ \A c \in Bufs \ {cur[p]} : References(cur, pinned', c) = buf[c].refcnt
  <2>1. References(cur, pinned', cur[p]) = buf[cur[p]].refcnt - 1
    BY <1>1, RefsPin
  <2>2. ASSUME NEW c \in Bufs \ {cur[p]} PROVE References(cur, pinned', c) = buf[c].refcnt
    BY <1>1, RefsPin
  <2>. QED
    BY <2>1, <2>2
<1>3. /\ buf' \in [Bufs -> Buffers]
      /\ \A c \in Bufs : /\ buf'[c].blockno = buf[c].blockno /\ buf'[c].valid = buf[c].valid
                         /\ buf'[c].disk = buf[c].disk /\ buf'[c].data = buf[c].data
                         /\ buf'[c].refcnt = IF c = cur[p] THEN buf[cur[p]].refcnt - 1 ELSE buf[c].refcnt
  <2>1. buf' = [buf EXCEPT ![cur[p]].refcnt = buf[cur[p]].refcnt - 1]
    BY DEF Bunpin
  <2>2. buf[cur[p]].refcnt - 1 \in 0 .. Cardinality(Procs) + 1
    BY <1>2, RefsRange
  <2>. QED
    BY <1>1, <2>1, <2>2, SetRefcnt
<1>4. TypeOK'
  BY <1>1, <1>3 DEF Bunpin, TypeOK, procVars, driverVars
<1>5. OneBuffer'
  BY <1>3, OneBufferKept
<1>6. RefsCounted'
  <2>1. \A c \in Bufs : buf'[c].refcnt = References(cur', pinned', c)
    BY <1>1, <1>2, <1>3
  <2>. QED
    BY <2>1 DEF RefsCounted
<1>7. LockSleepers' /\ DescSleepers'
  BY DEF LockSleepers, DescSleepers, Bunpin, procVars, driverVars
<1>8. Completions'
  BY DEF Completions, Bunpin, driverVars
<1>9. LocksAgree'
  BY <1>1, <1>3, CurIsBuffer DEF TypeOK, LocksAgree, Bunpin, procVars
<1>10. RequestsAgree'
  BY <1>3, RequestsKept DEF Bunpin, procVars, driverVars
<1>11. DataAgree'
  BY <1>1, <1>3, CurIsBuffer DEF TypeOK, DataAgree, Unwritten, Bunpin, procVars, driverVars
<1>. QED
  BY <1>4, <1>5, <1>6, <1>7, <1>8, <1>9, <1>10, <1>11

\* The process of a request: the one that waits and whose chain the head is in.
LEMMA RequestOwner ==
  ASSUME Inv, NEW d, (\E r \in avail : r.head = d) \/ d \in ToSet(used)
  PROVE  \E q \in Procs : /\ pc[q] \in Waiting /\ d \in chain[q] /\ info[d] = cur[q] /\ cur[q] \in Bufs
                          /\ \A o \in Procs : d \in chain[o] => o = q
                          /\ \A e \in chain[q] : info[e] # 0 => e = d
<1>1. PICK q \in Procs : pc[q] \in Waiting /\ d \in chain[q] /\ info[d] = cur[q]
  BY DEF Inv, RequestsAgree, RingsAgree, Waiting
<1>2. cur[q] \in Bufs
  BY <1>1, CurIsBuffer DEF Inv, Waiting
<1>. QED
  BY <1>1, <1>2, ZeroNotBuffer DEF Inv, RequestsAgree, ChainsAgree

\* alloc3_desc finds fewer than three descriptors and its caller sleeps.
LEMMA Alloc3FailsInv ==
  ASSUME Inv, NEW p \in Procs, VirtioDiskRw(p), Alloc3Fails(p) PROVE Inv'
<1>. USE DEF Inv
<1>1. /\ pc[p] \in {"read", "write"} /\ Cardinality(free) < 3 /\ cur' = cur /\ lock' = lock /\ used' = used
      /\ UNCHANGED <<buf, chain, free, info, avail, pinned, disk>>
  BY DEF VirtioDiskRw, Alloc3Fails
<1>2. /\ pc' \in [Procs -> {"idle", "lock", "lockAsleep", "relse"} \cup Holding]
      /\ \A q \in Procs : \/ pc'[q] = pc[q]
                          \/ pc[q] \in {"readDesc", "read"} /\ pc'[q] \in {"readDesc", "read"}
                          \/ pc[q] \in {"writeDesc", "write"} /\ pc'[q] \in {"writeDesc", "write"}
  <2>1. WakeDesc \in [Procs -> {"idle", "lock", "lockAsleep", "relse"} \cup Holding]
    BY DEF WakeDesc, TypeOK, Holding, InRw
  <2>2. \A q \in Procs : \/ WakeDesc[q] = pc[q]
                         \/ pc[q] = "readDesc" /\ WakeDesc[q] = "read"
                         \/ pc[q] = "writeDesc" /\ WakeDesc[q] = "write"
    BY DEF WakeDesc
  <2>. HIDE DEF WakeDesc
  <2>3. pc \in [Procs -> {"idle", "lock", "lockAsleep", "relse"} \cup Holding]
    BY DEF TypeOK
  <2>. QED
    BY <1>1, <2>1, <2>2, <2>3 DEF Alloc3Fails, Holding, InRw
<1>3. TypeOK'
  BY <1>1, <1>2 DEF TypeOK, VirtioDiskRw
<1>4. OneBuffer' /\ RefsCounted'
  BY <1>1, OneBufferKept, RefsKept
<1>5. LockSleepers'
  BY <1>1, <1>2 DEF LockSleepers
<1>6. DescSleepers'
  BY <1>1 DEF DescSleepers
<1>7. Completions'
  BY DEF Completions, VirtioDiskRw
<1>8. LocksAgree'
  BY <1>1, <1>2 DEF LocksAgree, Holding, InRw
<1>9. RequestsAgree'
  BY <1>1, <1>2, RequestsKept DEF Waiting, Served
<1>10. DataAgree'
  BY <1>1, <1>2, DataKept DEF Unwritten
<1>. QED
  BY <1>3, <1>4, <1>5, <1>6, <1>7, <1>8, <1>9, <1>10

\* virtio_disk_rw fills a chain of three descriptors and hands it to the device.
LEMMA SubmitInv == ASSUME Inv, NEW p \in Procs, VirtioDiskRw(p), Submit(p) PROVE Inv'
<1>. USE DEF Inv
<1>1. PICK h \in Lowest3 :
        /\ chain' = [chain EXCEPT ![p] = Lowest3]
        /\ buf' = [buf EXCEPT ![cur[p]].disk = TRUE]
        /\ info' = [info EXCEPT ![h] = cur[p]]
        /\ avail' = avail \cup {[head |-> h, write |-> pc[p] = "write"]}
  <2>1. (CHOOSE d \in Lowest3 : \A e \in Lowest3 : d <= e) \in Lowest3
    BY Lowest3Is DEF Submit, TypeOK
  <2>. QED
    BY <2>1 DEF Submit
<1>. DEFINE L == Lowest3
            new == [head |-> h, write |-> pc[p] = "write"]
<1>2. /\ L \subseteq free /\ h \in L /\ free' = free \ L /\ h \in Desc
      /\ pc[p] \in {"read", "write"} /\ cur[p] \in Bufs /\ Cardinality(free) >= 3
      /\ pc' = [pc EXCEPT ![p] = IF pc[p] = "read" THEN "readWait" ELSE "writeWait"]
      /\ UNCHANGED <<lru, lock, pinned, cur, used, irq, inIntr, disk, panicked>>
  BY Lowest3Is, CurIsBuffer DEF Submit, VirtioDiskRw, TypeOK
<1>3. /\ chain' = [chain EXCEPT ![p] = L] /\ avail' = avail \cup {new}
      /\ new \in [head : Desc, write : BOOLEAN]
      /\ new.head = h /\ (new.write <=> pc[p] = "write")
  BY <1>1, <1>2
<1>. HIDE DEF L, new
<1>4. /\ buf' \in [Bufs -> Buffers]
      /\ \A b \in Bufs : /\ buf'[b].blockno = buf[b].blockno /\ buf'[b].valid = buf[b].valid
                         /\ buf'[b].refcnt = buf[b].refcnt /\ buf'[b].data = buf[b].data
                         /\ b # cur[p] => buf'[b].disk = buf[b].disk
      /\ buf'[cur[p]].disk
  BY <1>1, <1>2, SetDisk DEF TypeOK
<1>5. TypeOK'
  <2>1. chain' \in [Procs -> SUBSET Desc] /\ free' \subseteq Desc
    BY <1>2, <1>3 DEF TypeOK
  <2>2. info' \in [Desc -> Bufs \cup {0}]
    BY <1>1, <1>2 DEF TypeOK
  <2>3. pc' \in [Procs -> {"idle", "lock", "lockAsleep", "relse"} \cup Holding]
    BY <1>2 DEF TypeOK, Holding, InRw
  <2>4. avail' \subseteq [head : Desc, write : BOOLEAN]
    BY <1>3 DEF TypeOK
  <2>. QED
    BY <1>2, <1>4, <2>1, <2>2, <2>3, <2>4 DEF TypeOK
<1>6. OneBuffer' /\ RefsCounted'
  BY <1>2, <1>4, OneBufferKept, RefsKept
<1>7. LockSleepers'
  BY <1>2 DEF LockSleepers, TypeOK
<1>8. DescSleepers'
  <2>1. Cardinality(free) \in Nat
    BY Descriptors, FS_Subset, FS_CardinalityType DEF TypeOK
  <2>2. \A q \in Procs : pc[q] \notin {"readDesc", "writeDesc"}
    BY <1>2, <2>1 DEF DescSleepers
  <2>. QED
    BY <1>2, <2>2 DEF DescSleepers, TypeOK
<1>9. Completions'
  BY <1>2 DEF Completions
<1>10. LocksAgree'
  <2>1. /\ pc[p] \in Holding /\ pc'[p] \in Holding /\ pc'[p] # "idle" /\ pc[p] # "idle"
        /\ \A q \in Procs : q # p => pc'[q] = pc[q]
        /\ pc'[p] \in {"readDesc", "read", "readWait", "readDone"}
             <=> pc[p] \in {"readDesc", "read", "readWait", "readDone"}
    BY <1>2 DEF TypeOK, Holding, InRw
  <2>2. \A q \in Procs : pc[q] # "idle" => /\ buf'[cur[q]].valid = buf[cur[q]].valid
                                           /\ buf'[cur[q]].blockno = buf[cur[q]].blockno
    BY <1>4, CurIsBuffer
  <2>3. cur' = cur /\ lock' = lock
    BY <1>2
  <2>4. \A q \in Procs : pc'[q] \in Holding =>
          (buf'[cur'[q]].valid <=> pc'[q] \notin {"readDesc", "read", "readWait", "readDone"})
    <3>1. \A q \in Procs : pc[q] \in Holding => pc[q] # "idle"
      BY DEF Holding, InRw
    <3>. QED
      BY <2>1, <2>2, <2>3, <3>1 DEF LocksAgree
  <2>5. \A q \in Procs : cur'[q] # 0 => buf'[cur'[q]].blockno # NoBlock
    BY <2>2, <2>3 DEF LocksAgree
  <2>. QED
    BY <2>1, <2>3, <2>4, <2>5 DEF LocksAgree
<1>11. /\ pc[p] \notin Waiting \cup Served /\ pc'[p] \in Waiting
       /\ \A q \in Procs \ {p} : pc'[q] = pc[q] /\ chain'[q] = chain[q]
       /\ \A q \in Procs : cur'[q] = cur[q] /\ h \notin chain[q]
       /\ chain[p] = {} /\ chain'[p] = L
       /\ info'[h] = cur[p] /\ \A d \in Desc \ {h} : info'[d] = info[d]
       /\ pc'[p] = IF new.write THEN "writeWait" ELSE "readWait"
  BY <1>1, <1>2, <1>3 DEF RequestsAgree, ChainsAgree, Waiting, Served, TypeOK
<1>12. ChainsAgree'
  <2>1. chain \in [Procs -> SUBSET Desc] /\ free \subseteq Desc
    BY DEF TypeOK
  <2>2. \A q \in Procs : chain'[q] \cap free' = {}
    BY <1>2, <1>11 DEF RequestsAgree, ChainsAgree
  <2>3. \A q, o \in Procs : q # o => chain'[q] \cap chain'[o] = {}
    BY <1>2, <1>11 DEF RequestsAgree, ChainsAgree
  <2>4. \A q \in Procs : pc'[q] \notin Waiting \cup Served => chain'[q] = {}
    BY <1>11 DEF RequestsAgree, ChainsAgree
  <2>5. \A d \in free' : info'[d] = 0
    BY <1>2, <1>11, <2>1 DEF RequestsAgree, ChainsAgree
  <2>6. ASSUME NEW q \in Procs, NEW d \in chain'[q], NEW e \in chain'[q], info'[d] # 0, info'[e] # 0
        PROVE  d = e
    <3>1. CASE q = p
      BY <1>2, <1>11, <2>1, <2>6, <3>1 DEF RequestsAgree, ChainsAgree
    <3>2. CASE q # p
      BY <1>11, <2>1, <2>6, <3>2 DEF RequestsAgree, ChainsAgree
    <3>. QED
      BY <3>1, <3>2
  <2>. QED
    BY <2>2, <2>3, <2>4, <2>5, <2>6 DEF ChainsAgree
<1>13. RingsAgree'
  <2>1. ASSUME NEW d, (\E r \in avail : r.head = d) \/ d \in ToSet(used)
        PROVE  d \in Desc \ {h} /\ \A q \in Procs : d \in chain[q] => q # p
    BY <1>11, <2>1, RequestOwner DEF TypeOK
  <2>2. \A r \in avail' : \E q \in Procs : /\ pc'[q] = IF r.write THEN "writeWait" ELSE "readWait"
                                           /\ r.head \in chain'[q] /\ info'[r.head] = cur'[q]
    BY <1>2, <1>3, <1>11, <2>1 DEF RequestsAgree, RingsAgree
  <2>3. \A d \in ToSet(used)' : \E q \in Procs : pc'[q] \in Waiting /\ d \in chain'[q] /\ info'[d] = cur'[q]
    BY <1>2, <1>11, <2>1 DEF RequestsAgree, RingsAgree
  <2>4. \A r, t \in avail' : r.head = t.head => r = t
    BY <1>3, <2>1 DEF RequestsAgree, RingsAgree
  <2>5. \A r \in avail' : r.head \notin ToSet(used)'
    BY <1>2, <1>3, <2>1 DEF RequestsAgree, RingsAgree
  <2>6. \A i, j \in 1 .. Len(used') : used'[i] = used'[j] => i = j
    BY <1>2 DEF RequestsAgree, RingsAgree
  <2>7. ASSUME NEW q \in Procs, pc'[q] \in Waiting
        PROVE  /\ buf'[cur'[q]].disk
               /\ \E d \in chain'[q] : /\ info'[d] = cur'[q]
                                       /\ (\E r \in avail' : r.head = d) \/ d \in ToSet(used)'
    <3>1. CASE q = p
      BY <1>2, <1>3, <1>4, <1>11, <3>1
    <3>2. CASE q # p
      <4>1. pc[q] \in Waiting /\ cur[q] \in Bufs /\ buf[cur[q]].disk
        BY <1>11, <2>7, <3>2, CurIsBuffer DEF RequestsAgree, RingsAgree, Waiting
      <4>2. PICK d \in chain[q] : info[d] = cur[q] /\ ((\E r \in avail : r.head = d) \/ d \in ToSet(used))
        BY <4>1 DEF RequestsAgree, RingsAgree
      <4>3. info'[d] = cur'[q] /\ d \in chain'[q]
        BY <1>11, <2>1, <3>2, <4>2
      <4>4. (\E r \in avail' : r.head = d) \/ d \in ToSet(used)'
        BY <1>2, <1>3, <4>2
      <4>5. buf'[cur'[q]].disk
        BY <1>4, <1>11, <4>1
      <4>. QED
        BY <4>3, <4>4, <4>5
    <3>. QED
      BY <3>1, <3>2
  <2>. QED
    BY <2>2, <2>3, <2>4, <2>5, <2>6, <2>7 DEF RingsAgree
<1>14. DataAgree'
  <2>1. \A q \in Procs \ {p} : (Unwritten(q)' <=> Unwritten(q))
    BY <1>3, <1>11 DEF Unwritten
  <2>2. Unwritten(p) => Unwritten(p)'
    BY <1>2, <1>3, <1>11 DEF Unwritten
  <2>3. ASSUME NEW b \in Bufs, buf'[b].valid
        PROVE  /\ buf'[b].blockno # NoBlock
               /\ \/ buf'[b].data = disk'[buf'[b].blockno]
                  \/ b \in pinned'
                  \/ \E q \in Procs : cur'[q] = b /\ Unwritten(q)'
    <3>1. buf[b].valid
      BY <1>4, <2>3
    <3>. QED
      BY <1>2, <1>4, <2>1, <2>2, <3>1 DEF DataAgree
  <2>4. ASSUME NEW q \in Procs,
               pc'[q] = "readDone" \/ (pc'[q] = "readWait" /\ \A r \in avail' : r.head \notin chain'[q])
        PROVE  buf'[cur'[q]].data = disk'[buf'[cur'[q]].blockno]
    <3>1. q # p
      BY <1>2, <1>3, <1>11, <2>4 DEF TypeOK
    <3>2. pc[q] = "readDone" \/ (pc[q] = "readWait" /\ \A r \in avail : r.head \notin chain[q])
      BY <1>3, <1>11, <2>4, <3>1
    <3>3. cur[q] \in Bufs /\ buf[cur[q]].data = disk[buf[cur[q]].blockno]
      BY <3>2, CurIsBuffer DEF DataAgree
    <3>. QED
      BY <1>2, <1>4, <3>3
  <2>. QED
    BY <2>3, <2>4 DEF DataAgree
<1>. QED
  BY <1>5, <1>6, <1>7, <1>8, <1>9, <1>10, <1>12, <1>13, <1>14 DEF RequestsAgree

\* virtio_disk_rw wakes up, frees its chain and returns.
LEMMA VirtioDiskDoneInv == ASSUME Inv, NEW p \in Procs, VirtioDiskDone(p) PROVE Inv'
<1>. USE DEF Inv
<1>1. /\ pc[p] \in {"readDone", "writeDone"} /\ cur[p] \in Bufs /\ pc[p] \in Holding
      /\ UNCHANGED <<lru, lock, pinned, cur, avail, used, irq, inIntr, disk, panicked>>
      /\ free' = free \cup chain[p] /\ chain \in [Procs -> SUBSET Desc]
  BY CurIsBuffer DEF VirtioDiskDone, TypeOK, Holding, InRw
<1>2. /\ \A q \in Procs : chain'[q] = IF q = p THEN {} ELSE chain[q]
      /\ \A d \in chain[p] : info'[d] = 0
      /\ \A d \in Desc \ chain[p] : info'[d] = info[d]
  BY <1>1 DEF VirtioDiskDone, TypeOK
<1>3. /\ buf' \in [Bufs -> Buffers]
      /\ \A b \in Bufs : /\ buf'[b].blockno = buf[b].blockno /\ buf'[b].disk = buf[b].disk
                         /\ buf'[b].refcnt = buf[b].refcnt /\ buf'[b].data = buf[b].data
                         /\ b # cur[p] => buf'[b].valid = buf[b].valid
      /\ buf'[cur[p]].valid
  <2>1. buf \in [Bufs -> Buffers] /\ buf' = [buf EXCEPT ![cur[p]].valid = TRUE]
    BY DEF VirtioDiskDone, TypeOK
  <2>. QED
    BY <1>1, <2>1, SetValid
<1>4. /\ pc' \in [Procs -> {"idle", "lock", "lockAsleep", "relse"} \cup Holding] /\ pc'[p] = "hold"
      /\ \A q \in Procs \ {p} : \/ pc'[q] = pc[q] /\ pc[q] \notin {"readDesc", "writeDesc"}
                                \/ pc[q] = "readDesc" /\ pc'[q] = "read"
                                \/ pc[q] = "writeDesc" /\ pc'[q] = "write"
  <2>1. WakeDesc \in [Procs -> {"idle", "lock", "lockAsleep", "relse"} \cup Holding]
    BY DEF WakeDesc, TypeOK, Holding, InRw
  <2>2. \A q \in Procs : \/ WakeDesc[q] = pc[q] /\ pc[q] \notin {"readDesc", "writeDesc"}
                         \/ pc[q] = "readDesc" /\ WakeDesc[q] = "read"
                         \/ pc[q] = "writeDesc" /\ WakeDesc[q] = "write"
    BY DEF WakeDesc
  <2>. HIDE DEF WakeDesc
  <2>. QED
    BY <2>1, <2>2 DEF VirtioDiskDone, Holding
<1>5. TypeOK'
  <2>1. chain' \in [Procs -> SUBSET Desc] /\ free' \subseteq Desc
    BY <1>1 DEF TypeOK, VirtioDiskDone
  <2>2. info' \in [Desc -> Bufs \cup {0}]
    BY <1>1 DEF TypeOK, VirtioDiskDone
  <2>. QED
    BY <1>1, <1>3, <1>4, <2>1, <2>2 DEF TypeOK
<1>6. OneBuffer' /\ RefsCounted'
  BY <1>1, <1>3, OneBufferKept, RefsKept
<1>7. LockSleepers'
  BY <1>1, <1>4 DEF LockSleepers, TypeOK
<1>8. DescSleepers'
  BY <1>4 DEF DescSleepers
<1>9. Completions'
  BY <1>1 DEF Completions
<1>10. LocksAgree'
  <2>1. /\ \A q \in Procs : pc'[q] \in Holding <=> pc[q] \in Holding
        /\ \A q \in Procs : pc'[q] = "idle" <=> pc[q] = "idle"
        /\ \A q \in Procs \ {p} : pc'[q] \in {"readDesc", "read", "readWait", "readDone"}
                                    <=> pc[q] \in {"readDesc", "read", "readWait", "readDone"}
        /\ \A q \in Procs : pc[q] \in Holding => pc[q] # "idle"
    BY <1>1, <1>4 DEF Holding, InRw
  <2>2. cur' = cur /\ lock' = lock
    BY <1>1
  <2>3. \A q \in Procs : pc'[q] \in Holding =>
          (buf'[cur'[q]].valid <=> pc'[q] \notin {"readDesc", "read", "readWait", "readDone"})
    <3>1. buf'[cur'[p]].valid /\ pc'[p] \notin {"readDesc", "read", "readWait", "readDone"}
      BY <1>3, <1>4, <2>2
    <3>2. ASSUME NEW q \in Procs \ {p}, pc[q] \in Holding
          PROVE  buf'[cur'[q]].valid = buf[cur[q]].valid
      <4>1. cur[q] # cur[p] /\ cur[q] \in Bufs
        BY <1>1, <2>1, <3>2, HolderAlone, CurIsBuffer
      <4>. QED
        BY <1>3, <2>2, <4>1
    <3>. QED
      BY <2>1, <3>1, <3>2 DEF LocksAgree
  <2>4. \A q \in Procs : cur'[q] # 0 => buf'[cur'[q]].blockno # NoBlock
    BY <1>3, <2>2, CurIsBuffer DEF LocksAgree
  <2>. QED
    BY <2>1, <2>2, <2>3, <2>4 DEF LocksAgree
<1>11. /\ pc'[p] \notin Waiting \cup Served /\ pc[p] \notin Waiting
       /\ \A q \in Procs \ {p} : /\ pc'[q] \in Waiting <=> pc[q] \in Waiting
                                 /\ pc'[q] \in Waiting \cup Served <=> pc[q] \in Waiting \cup Served
                                 /\ pc'[q] = "readWait" <=> pc[q] = "readWait"
                                 /\ pc'[q] = "writeWait" <=> pc[q] = "writeWait"
                                 /\ pc'[q] = "readDone" <=> pc[q] = "readDone"
                                 /\ pc'[q] \in {"write", "writeDesc"} <=> pc[q] \in {"write", "writeDesc"}
                                 /\ chain[q] \cap chain[p] = {}
  BY <1>1, <1>4 DEF Waiting, Served, RequestsAgree, ChainsAgree
<1>12. ChainsAgree'
  <2>1. \A q \in Procs : chain'[q] \cap free' = {}
    BY <1>1, <1>2, <1>11 DEF RequestsAgree, ChainsAgree
  <2>2. \A q, o \in Procs : q # o => chain'[q] \cap chain'[o] = {}
    BY <1>2 DEF RequestsAgree, ChainsAgree
  <2>3. \A q \in Procs : pc'[q] \notin Waiting \cup Served => chain'[q] = {}
    BY <1>2, <1>11 DEF RequestsAgree, ChainsAgree
  <2>4. \A d \in free' : info'[d] = 0
    BY <1>1, <1>2 DEF RequestsAgree, ChainsAgree, TypeOK
  <2>5. \A q \in Procs : \A d, e \in chain'[q] : info'[d] # 0 /\ info'[e] # 0 => d = e
    BY <1>1, <1>2, <1>11 DEF RequestsAgree, ChainsAgree
  <2>. QED
    BY <2>1, <2>2, <2>3, <2>4, <2>5 DEF ChainsAgree
<1>13. RingsAgree'
  <2>1. ASSUME NEW d, (\E r \in avail : r.head = d) \/ d \in ToSet(used)
        PROVE  d \in Desc \ chain[p] /\ \A q \in Procs : d \in chain[q] => q # p
    BY <1>1, <1>11, <2>1, RequestOwner
  <2>2. \A r \in avail' : \E q \in Procs : /\ pc'[q] = IF r.write THEN "writeWait" ELSE "readWait"
                                           /\ r.head \in chain'[q] /\ info'[r.head] = cur'[q]
    <3>1. ASSUME NEW r \in avail
          PROVE \E q \in Procs : /\ pc'[q] = IF r.write THEN "writeWait" ELSE "readWait"
                                 /\ r.head \in chain'[q] /\ info'[r.head] = cur'[q]
      <4>1. PICK q \in Procs : /\ pc[q] = IF r.write THEN "writeWait" ELSE "readWait"
                               /\ r.head \in chain[q] /\ info[r.head] = cur[q]
        BY DEF RequestsAgree, RingsAgree
      <4>2. q # p /\ r.head \in Desc \ chain[p]
        BY <2>1, <4>1
      <4>. QED
        BY <1>1, <1>2, <1>11, <4>1, <4>2
    <3>. QED
      BY <1>1, <3>1
  <2>3. \A d \in ToSet(used)' : \E q \in Procs : pc'[q] \in Waiting /\ d \in chain'[q] /\ info'[d] = cur'[q]
    BY <1>1, <1>2, <1>11, <2>1 DEF RequestsAgree, RingsAgree
  <2>4. ASSUME NEW q \in Procs, pc'[q] \in Waiting
        PROVE  /\ buf'[cur'[q]].disk
               /\ \E d \in chain'[q] : /\ info'[d] = cur'[q]
                                       /\ (\E r \in avail' : r.head = d) \/ d \in ToSet(used)'
    <3>1. pc[q] \in Waiting /\ cur[q] \in Bufs /\ buf[cur[q]].disk /\ q # p
      BY <1>11, <2>4, CurIsBuffer DEF RequestsAgree, RingsAgree, Waiting
    <3>2. PICK d \in chain[q] : info[d] = cur[q] /\ ((\E r \in avail : r.head = d) \/ d \in ToSet(used))
      BY <3>1 DEF RequestsAgree, RingsAgree
    <3>3. info'[d] = cur'[q] /\ d \in chain'[q]
      BY <1>1, <1>2, <2>1, <3>1, <3>2
    <3>4. (\E r \in avail' : r.head = d) \/ d \in ToSet(used)'
      BY <1>1, <3>2
    <3>. QED
      BY <1>1, <1>3, <3>1, <3>3, <3>4
  <2>. QED
    BY <1>1, <2>2, <2>3, <2>4 DEF RequestsAgree, RingsAgree
<1>14. DataAgree'
  <2>1. \A q \in Procs \ {p} : Unwritten(q)' <=> Unwritten(q)
    BY <1>1, <1>2, <1>11 DEF Unwritten
  <2>2. ~Unwritten(p)
    BY <1>1 DEF Unwritten
  <2>3. ASSUME NEW b \in Bufs, buf'[b].valid
        PROVE  /\ buf'[b].blockno # NoBlock
               /\ \/ buf'[b].data = disk'[buf'[b].blockno]
                  \/ b \in pinned'
                  \/ \E q \in Procs : cur'[q] = b /\ Unwritten(q)'
    <3>1. CASE buf[b].valid
      BY <1>1, <1>3, <2>1, <2>2, <3>1 DEF DataAgree
    <3>2. CASE ~buf[b].valid
      <4>1. b = cur[p]
        BY <1>3, <2>3, <3>2
      <4>2. pc[p] = "readDone"
        BY <1>1, <3>2, <4>1 DEF LocksAgree
      <4>3. buf[b].data = disk[buf[b].blockno] /\ buf[b].blockno # NoBlock
        BY <1>1, <4>1, <4>2, ZeroNotBuffer DEF DataAgree, LocksAgree
      <4>. QED
        BY <1>1, <1>3, <4>3
    <3>. QED
      BY <3>1, <3>2
  <2>4. ASSUME NEW q \in Procs,
               pc'[q] = "readDone" \/ (pc'[q] = "readWait" /\ \A r \in avail' : r.head \notin chain'[q])
        PROVE  buf'[cur'[q]].data = disk'[buf'[cur'[q]].blockno]
    <3>1. q # p
      BY <1>4, <2>4
    <3>2. pc[q] = "readDone" \/ (pc[q] = "readWait" /\ \A r \in avail : r.head \notin chain[q])
      BY <1>1, <1>2, <1>11, <2>4, <3>1
    <3>3. cur[q] \in Bufs /\ buf[cur[q]].data = disk[buf[cur[q]].blockno]
      BY <3>2, CurIsBuffer DEF DataAgree
    <3>. QED
      BY <1>1, <1>3, <3>3
  <2>. QED
    BY <2>3, <2>4 DEF DataAgree
<1>. QED
  BY <1>5, <1>6, <1>7, <1>8, <1>9, <1>10, <1>12, <1>13, <1>14 DEF RequestsAgree

\* One turn of virtio_disk_intr: b->disk = 0 and wakeup(b).
LEMMA IntrTurnInv == ASSUME Inv, IntrTurn PROVE Inv'
<1>. USE DEF Inv
<1>. DEFINE h == Head(used)
<1>1. /\ used \in Seq(Desc) /\ Tail(used) \in Seq(Desc) /\ h \in ToSet(used)
      /\ used' = Tail(used) /\ ToSet(used') = ToSet(used) \ {h}
      /\ \A i, j \in 1 .. Len(used') : used'[i] = used'[j] => i = j
  <2>1. /\ used \in Seq(Desc) /\ used # <<>> /\ used' = Tail(used)
        /\ \A i, j \in 1 .. Len(used) : used[i] = used[j] => i = j
    BY DEF IntrTurn, TypeOK, RequestsAgree, RingsAgree
  <2>. QED
    BY <2>1, UsedTail
<1>. HIDE DEF h
<1>2. PICK p \in Procs : /\ pc[p] \in Waiting /\ h \in chain[p] /\ info[h] = cur[p] /\ cur[p] \in Bufs
                         /\ \A o \in Procs : h \in chain[o] => o = p
                         /\ \A e \in chain[p] : info[e] # 0 => e = h
  BY <1>1, RequestOwner
<1>3. /\ UNCHANGED <<lru, lock, pinned, cur, chain, free, info, avail, irq, inIntr, disk, panicked>>
      /\ inIntr
  BY DEF IntrTurn
<1>4. /\ buf' \in [Bufs -> Buffers]
      /\ \A b \in Bufs : /\ buf'[b].blockno = buf[b].blockno /\ buf'[b].valid = buf[b].valid
                         /\ buf'[b].refcnt = buf[b].refcnt /\ buf'[b].data = buf[b].data
                         /\ b # cur[p] => buf'[b].disk = buf[b].disk
  <2>1. buf \in [Bufs -> Buffers] /\ buf' = [buf EXCEPT ![cur[p]].disk = FALSE]
    BY <1>2 DEF IntrTurn, TypeOK, h
  <2>. QED
    BY <1>2, <2>1, SetDisk
<1>5. /\ pc' \in [Procs -> {"idle", "lock", "lockAsleep", "relse"} \cup Holding]
      /\ pc'[p] = IF pc[p] = "readWait" THEN "readDone" ELSE "writeDone"
      /\ \A q \in Procs \ {p} : pc'[q] = pc[q]
      /\ pc[p] \in {"readWait", "writeWait"}
  <2>1. \A q \in Procs : pc'[q] = CASE cur[q] = cur[p] /\ pc[q] = "readWait"  -> "readDone"
                                    [] cur[q] = cur[p] /\ pc[q] = "writeWait" -> "writeDone"
                                    [] OTHER -> pc[q]
    BY <1>2 DEF IntrTurn, h
  <2>2. \A q \in Procs \ {p} : pc[q] \in {"readWait", "writeWait"} => cur[q] # cur[p]
    BY <1>2, HolderAlone DEF Holding, InRw, Waiting
  <2>3. pc[p] \in {"readWait", "writeWait"}
    BY <1>2 DEF Waiting
  <2>4. \A q \in Procs \ {p} : pc'[q] = pc[q]
    BY <2>1, <2>2
  <2>5. pc'[p] = IF pc[p] = "readWait" THEN "readDone" ELSE "writeDone"
    BY <2>1, <2>3
  <2>6. pc' = [q \in Procs |-> pc'[q]]
    BY DEF IntrTurn
  <2>7. \A q \in Procs : pc'[q] \in {"idle", "lock", "lockAsleep", "relse"} \cup Holding
    BY <2>4, <2>5 DEF TypeOK, Holding, InRw
  <2>. QED
    BY <2>3, <2>4, <2>5, <2>6, <2>7
<1>6. TypeOK'
  BY <1>1, <1>3, <1>4, <1>5 DEF TypeOK
<1>7. OneBuffer' /\ RefsCounted'
  BY <1>3, <1>4, OneBufferKept, RefsKept
<1>8. LockSleepers' /\ DescSleepers'
  BY <1>3, <1>5 DEF LockSleepers, DescSleepers
<1>9. Completions'
  BY <1>3 DEF Completions
<1>10. LocksAgree'
  <2>1. /\ \A q \in Procs : /\ pc'[q] \in Holding <=> pc[q] \in Holding
                            /\ pc'[q] = "idle" <=> pc[q] = "idle"
                            /\ pc[q] \in Holding => pc[q] # "idle"
                            /\ pc'[q] \in {"readDesc", "read", "readWait", "readDone"}
                                 <=> pc[q] \in {"readDesc", "read", "readWait", "readDone"}
    BY <1>5 DEF Holding, InRw
  <2>2. \A q \in Procs : pc[q] # "idle" => /\ buf'[cur[q]].valid = buf[cur[q]].valid
                                           /\ buf'[cur[q]].blockno = buf[cur[q]].blockno
    BY <1>4, CurIsBuffer
  <2>3. cur' = cur /\ lock' = lock
    BY <1>3
  <2>4. \A q \in Procs : pc'[q] \in Holding =>
          (buf'[cur'[q]].valid <=> pc'[q] \notin {"readDesc", "read", "readWait", "readDone"})
    BY <2>1, <2>2, <2>3 DEF LocksAgree
  <2>5. \A q \in Procs : cur'[q] # 0 => buf'[cur'[q]].blockno # NoBlock
    BY <2>2, <2>3 DEF LocksAgree
  <2>. QED
    BY <2>1, <2>3, <2>4, <2>5 DEF LocksAgree
<1>11. /\ pc'[p] \in Served /\ pc'[p] \notin Waiting
       /\ \A r \in avail : r.head \notin chain[p]
  <2>1. ASSUME NEW r \in avail, r.head \in chain[p] PROVE FALSE
    <3>1. PICK q \in Procs : r.head \in chain[q] /\ info[r.head] = cur[q] /\ cur[q] \in Bufs
                             /\ \A o \in Procs : r.head \in chain[o] => o = q
      BY <2>1, RequestOwner
    <3>2. r.head = h
      BY <1>2, <2>1, <3>1, ZeroNotBuffer
    <3>. QED
      BY <1>1, <3>2 DEF RequestsAgree, RingsAgree
  <2>. QED
    BY <1>5, <2>1 DEF Waiting, Served
<1>12. ChainsAgree'
  <2>1. \A q \in Procs : pc'[q] \notin Waiting \cup Served => chain'[q] = {}
    BY <1>3, <1>5, <1>11 DEF RequestsAgree, ChainsAgree
  <2>. QED
    BY <1>3, <2>1 DEF RequestsAgree, ChainsAgree
<1>13. RingsAgree'
  <2>1. ASSUME NEW r \in avail
        PROVE \E q \in Procs : /\ pc'[q] = IF r.write THEN "writeWait" ELSE "readWait"
                               /\ r.head \in chain'[q] /\ info'[r.head] = cur'[q]
    <3>1. PICK q \in Procs : /\ pc[q] = IF r.write THEN "writeWait" ELSE "readWait"
                             /\ r.head \in chain[q] /\ info[r.head] = cur[q]
      BY DEF RequestsAgree, RingsAgree
    <3>2. q # p
      BY <1>11, <3>1
    <3>. QED
      BY <1>3, <1>5, <3>1, <3>2
  <2>2. ASSUME NEW d \in ToSet(used')
        PROVE \E q \in Procs : pc'[q] \in Waiting /\ d \in chain'[q] /\ info'[d] = cur'[q]
    <3>1. d \in ToSet(used) /\ d # h
      BY <1>1
    <3>2. PICK q \in Procs : pc[q] \in Waiting /\ d \in chain[q] /\ info[d] = cur[q] /\ cur[q] \in Bufs
      BY <3>1, RequestOwner
    <3>3. q # p
      BY <1>2, <3>1, <3>2, ZeroNotBuffer
    <3>. QED
      BY <1>3, <1>5, <3>2, <3>3
  <2>3. ASSUME NEW q \in Procs, pc'[q] \in Waiting
        PROVE  /\ buf'[cur'[q]].disk
               /\ \E d \in chain'[q] : /\ info'[d] = cur'[q]
                                       /\ (\E r \in avail' : r.head = d) \/ d \in ToSet(used')
    <3>1. pc[q] \in Waiting /\ cur[q] \in Bufs /\ buf[cur[q]].disk /\ q # p
      BY <1>5, <1>11, <2>3, CurIsBuffer DEF RequestsAgree, RingsAgree, Waiting
    <3>2. PICK d \in chain[q] : info[d] = cur[q] /\ ((\E r \in avail : r.head = d) \/ d \in ToSet(used))
      BY <3>1 DEF RequestsAgree, RingsAgree
    <3>3. d # h
      BY <1>2, <3>1, <3>2
    <3>4. cur[q] # cur[p]
      BY <1>2, <3>1, HolderAlone DEF Holding, InRw, Waiting
    <3>5. buf'[cur'[q]].disk
      BY <1>3, <1>4, <3>1, <3>4
    <3>6. (\E r \in avail' : r.head = d) \/ d \in ToSet(used')
      BY <1>1, <1>3, <3>2, <3>3
    <3>. QED
      BY <1>3, <3>2, <3>5, <3>6
  <2>4. \A r \in avail' : r.head \notin ToSet(used')
    BY <1>1, <1>3 DEF RequestsAgree, RingsAgree
  <2>5. \A r, t \in avail' : r.head = t.head => r = t
    BY <1>3 DEF RequestsAgree, RingsAgree
  <2>6. \A r \in avail' : \E q \in Procs : /\ pc'[q] = IF r.write THEN "writeWait" ELSE "readWait"
                                           /\ r.head \in chain'[q] /\ info'[r.head] = cur'[q]
    BY <1>3, <2>1
  <2>. QED
    BY <1>1, <2>2, <2>3, <2>4, <2>5, <2>6 DEF RingsAgree
<1>14. DataAgree'
  <2>1. \A q \in Procs : Unwritten(q)' <=> Unwritten(q)
    BY <1>3, <1>5, <1>11 DEF Unwritten
  <2>2. ASSUME NEW b \in Bufs, buf'[b].valid
        PROVE  /\ buf'[b].blockno # NoBlock
               /\ \/ buf'[b].data = disk'[buf'[b].blockno]
                  \/ b \in pinned'
                  \/ \E q \in Procs : cur'[q] = b /\ Unwritten(q)'
    <3>1. buf[b].valid
      BY <1>4, <2>2
    <3>. QED
      BY <1>3, <1>4, <2>1, <3>1 DEF DataAgree
  <2>3. ASSUME NEW q \in Procs,
               pc'[q] = "readDone" \/ (pc'[q] = "readWait" /\ \A r \in avail' : r.head \notin chain'[q])
        PROVE  buf'[cur'[q]].data = disk'[buf'[cur'[q]].blockno]
    <3>1. pc[q] = "readDone" \/ (pc[q] = "readWait" /\ \A r \in avail : r.head \notin chain[q])
      BY <1>3, <1>5, <1>11, <2>3
    <3>2. cur[q] \in Bufs /\ buf[cur[q]].data = disk[buf[cur[q]].blockno]
      BY <3>1, CurIsBuffer DEF DataAgree
    <3>. QED
      BY <1>3, <1>4, <3>2
  <2>. QED
    BY <2>2, <2>3 DEF DataAgree
<1>. QED
  BY <1>6, <1>7, <1>8, <1>9, <1>10, <1>12, <1>13, <1>14 DEF RequestsAgree

\* The device serves a request, in any order.
LEMMA DeviceServesInv == ASSUME Inv, NEW r \in avail, DeviceServes(r) PROVE Inv'
<1>. USE DEF Inv
<1>. DEFINE h == r.head
<1>1. PICK p \in Procs : /\ pc[p] = IF r.write THEN "writeWait" ELSE "readWait"
                         /\ h \in chain[p] /\ info[h] = cur[p] /\ cur[p] \in Bufs
                         /\ \A o \in Procs : h \in chain[o] => o = p
  <2>1. PICK p \in Procs : /\ pc[p] = IF r.write THEN "writeWait" ELSE "readWait"
                           /\ h \in chain[p] /\ info[h] = cur[p]
    BY DEF RequestsAgree, RingsAgree
  <2>2. cur[p] \in Bufs /\ \A o \in Procs : h \in chain[o] => o = p
    BY <2>1, RequestOwner
  <2>. QED
    BY <2>1, <2>2
<1>2. /\ UNCHANGED <<lru, lock, pinned, pc, cur, chain, free, info, inIntr, panicked>>
      /\ avail' = avail \ {r} /\ used' = Append(used, h) /\ irq' = TRUE /\ h \in Desc
  BY DEF DeviceServes, procVars, TypeOK
<1>3. used' \in Seq(Desc) /\ ToSet(used') = ToSet(used) \cup {h}
  <2>1. used \in Seq(Desc)
    BY DEF TypeOK
  <2>. QED
    BY <1>2, <2>1, UsedAppend
<1>. HIDE DEF h
<1>4. pc[p] \in Waiting /\ pc[p] \in Holding
  BY <1>1 DEF Waiting, Holding, InRw
<1>5. /\ buf' \in [Bufs -> Buffers] /\ disk' \in [Blocks -> Vals] /\ buf[cur[p]].blockno \in Blocks
      /\ \A b \in Bufs : /\ buf'[b].blockno = buf[b].blockno /\ buf'[b].valid = buf[b].valid
                         /\ buf'[b].refcnt = buf[b].refcnt /\ buf'[b].disk = buf[b].disk
                         /\ b # cur[p] => buf'[b].data = buf[b].data
      /\ \A k \in Blocks : k # buf[cur[p]].blockno => disk'[k] = disk[k]
      /\ buf'[cur[p]].data = disk'[buf[cur[p]].blockno]
      /\ r.write => buf' = buf
      /\ ~r.write => disk' = disk
  <2>1. buf \in [Bufs -> Buffers] /\ disk \in [Blocks -> Vals]
    BY DEF TypeOK
  <2>2. buf[cur[p]].blockno \in Blocks /\ buf[cur[p]].data \in Vals
    <3>1. buf[cur[p]] \in Buffers /\ buf[cur[p]].blockno # NoBlock
      BY <1>1, <2>1, ZeroNotBuffer DEF LocksAgree
    <3>. QED
      BY <3>1 DEF Buffers
  <2>3. CASE r.write
    <3>1. disk' = [disk EXCEPT ![buf[cur[p]].blockno] = buf[cur[p]].data] /\ buf' = buf
      BY <1>1, <2>3 DEF DeviceServes, h
    <3>. QED
      BY <2>1, <2>2, <2>3, <3>1
  <2>4. CASE ~r.write
    <3>1. buf' = [buf EXCEPT ![cur[p]].data = disk[buf[cur[p]].blockno]] /\ disk' = disk
      BY <1>1, <2>4 DEF DeviceServes, h
    <3>2. PICK v \in Vals : v = disk[buf[cur[p]].blockno]
      BY <2>1, <2>2
    <3>4. buf' = [buf EXCEPT ![cur[p]].data = v]
      BY <3>1, <3>2
    <3>3. /\ buf' \in [Bufs -> Buffers] /\ buf'[cur[p]].data = disk[buf[cur[p]].blockno]
          /\ \A b \in Bufs : /\ buf'[b].blockno = buf[b].blockno /\ buf'[b].valid = buf[b].valid
                             /\ buf'[b].refcnt = buf[b].refcnt /\ buf'[b].disk = buf[b].disk
                             /\ b # cur[p] => buf'[b].data = buf[b].data
      <4>1. /\ buf' \in [Bufs -> Buffers]
            /\ \A b \in Bufs : /\ buf'[b].blockno = buf[b].blockno /\ buf'[b].valid = buf[b].valid
                               /\ buf'[b].disk = buf[b].disk /\ buf'[b].refcnt = buf[b].refcnt
                               /\ buf'[b].data = IF b = cur[p] THEN v ELSE buf[b].data
        <5>1. cur[p] \in Bufs /\ buf \in [Bufs -> Buffers]
          BY <1>1, <2>1
        <5>. QED
          BY <3>4, <5>1, SetData
      <4>. QED
        BY <1>1, <3>2, <4>1
    <3>. QED
      BY <2>1, <2>2, <2>4, <3>1, <3>3
  <2>. QED
    BY <2>3, <2>4
<1>6. TypeOK'
  BY <1>2, <1>3, <1>5 DEF TypeOK
<1>7. OneBuffer' /\ RefsCounted'
  BY <1>2, <1>5, OneBufferKept, RefsKept
<1>8. LockSleepers' /\ DescSleepers'
  BY <1>2 DEF LockSleepers, DescSleepers
<1>9. Completions'
  BY <1>2 DEF Completions
<1>10. LocksAgree'
  <2>1. \A q \in Procs : pc[q] # "idle" => /\ buf'[cur[q]].valid = buf[cur[q]].valid
                                           /\ buf'[cur[q]].blockno = buf[cur[q]].blockno
    BY <1>5, CurIsBuffer
  <2>2. \A q \in Procs : pc[q] \in Holding => pc[q] # "idle"
    BY DEF Holding, InRw
  <2>3. \A q \in Procs : pc'[q] \in Holding =>
          (buf'[cur'[q]].valid <=> pc'[q] \notin {"readDesc", "read", "readWait", "readDone"})
    BY <1>2, <2>1, <2>2 DEF LocksAgree
  <2>4. \A q \in Procs : cur'[q] # 0 => buf'[cur'[q]].blockno # NoBlock
    BY <1>2, <2>1 DEF LocksAgree
  <2>. QED
    BY <1>2, <2>3, <2>4 DEF LocksAgree
<1>11. ChainsAgree'
  BY <1>2 DEF RequestsAgree, ChainsAgree
<1>12. RingsAgree'
  <2>1. \A t \in avail' : t \in avail /\ t # r /\ t.head # h
    BY <1>2 DEF RequestsAgree, RingsAgree, h
  <2>2. \A t \in avail' : \E q \in Procs : /\ pc'[q] = IF t.write THEN "writeWait" ELSE "readWait"
                                           /\ t.head \in chain'[q] /\ info'[t.head] = cur'[q]
    BY <1>2, <2>1 DEF RequestsAgree, RingsAgree
  <2>3. \A d \in ToSet(used') : \E q \in Procs : pc'[q] \in Waiting /\ d \in chain'[q] /\ info'[d] = cur'[q]
    BY <1>1, <1>2, <1>3, <1>4 DEF RequestsAgree, RingsAgree
  <2>4. \A t, u \in avail' : t.head = u.head => t = u
    BY <2>1 DEF RequestsAgree, RingsAgree
  <2>5. \A t \in avail' : t.head \notin ToSet(used')
    BY <1>3, <2>1 DEF RequestsAgree, RingsAgree
  <2>6. \A i, j \in 1 .. Len(used') : used'[i] = used'[j] => i = j
    <3>1. used \in Seq(Desc) /\ h \notin ToSet(used) /\ \A i, j \in 1 .. Len(used) : used[i] = used[j] => i = j
      BY DEF TypeOK, RequestsAgree, RingsAgree, h
    <3>2. \A i \in 1 .. Len(used) : used[i] # h
      BY <3>1, UsedSet
    <3>3. /\ Len(used') = Len(used) + 1 /\ used'[Len(used) + 1] = h /\ Len(used) \in Nat
          /\ \A i \in 1 .. Len(used) : used'[i] = used[i]
      BY <1>2, <3>1
    <3>. QED
      BY <3>1, <3>2, <3>3
  <2>7. ASSUME NEW q \in Procs, pc'[q] \in Waiting
        PROVE  /\ buf'[cur'[q]].disk
               /\ \E d \in chain'[q] : /\ info'[d] = cur'[q]
                                       /\ (\E t \in avail' : t.head = d) \/ d \in ToSet(used')
    <3>1. pc[q] \in Waiting /\ cur[q] \in Bufs /\ buf[cur[q]].disk
      BY <1>2, <2>7, CurIsBuffer DEF RequestsAgree, RingsAgree, Waiting
    <3>2. PICK d \in chain[q] : info[d] = cur[q] /\ ((\E t \in avail : t.head = d) \/ d \in ToSet(used))
      BY <3>1 DEF RequestsAgree, RingsAgree
    <3>3. (\E t \in avail' : t.head = d) \/ d \in ToSet(used')
      BY <1>2, <1>3, <3>2 DEF h
    <3>. QED
      BY <1>2, <1>5, <3>1, <3>2, <3>3
  <2>. QED
    BY <2>2, <2>3, <2>4, <2>5, <2>6, <2>7 DEF RingsAgree
<1>13. DataAgree'
  <2>1. \A q \in Procs \ {p} : Unwritten(q)' <=> Unwritten(q)
    BY <1>1, <1>2 DEF Unwritten, h
  <2>2. ASSUME NEW b \in Bufs, b # cur[p] PROVE disk'[buf[b].blockno] = disk[buf[b].blockno] \/ buf[b].blockno = NoBlock
    <3>1. buf[b].blockno \in Blocks \/ buf[b].blockno = NoBlock
      BY DEF TypeOK, Buffers
    <3>2. buf[b].blockno = NoBlock \/ buf[b].blockno # buf[cur[p]].blockno
      BY <1>1, <2>2 DEF OneBuffer
    <3>. QED
      BY <1>5, <3>1, <3>2
  <2>3. ASSUME NEW b \in Bufs, buf'[b].valid
        PROVE  /\ buf'[b].blockno # NoBlock
               /\ \/ buf'[b].data = disk'[buf'[b].blockno]
                  \/ b \in pinned'
                  \/ \E q \in Procs : cur'[q] = b /\ Unwritten(q)'
    <3>1. buf[b].valid
      BY <1>5, <2>3
    <3>2. CASE b = cur[p]
      BY <1>5, <3>1, <3>2 DEF DataAgree
    <3>3. CASE b # cur[p]
      <4>1. buf[b].blockno # NoBlock /\ disk'[buf[b].blockno] = disk[buf[b].blockno]
        BY <2>2, <3>1, <3>3 DEF DataAgree
      <4>2. buf[b].data = disk[buf[b].blockno] \/ b \in pinned \/ \E q \in Procs : cur[q] = b /\ Unwritten(q)
        BY <3>1 DEF DataAgree
      <4>3. buf'[b].data = buf[b].data /\ buf'[b].blockno = buf[b].blockno
        BY <1>5, <3>3
      <4>. QED
        BY <1>2, <2>1, <3>3, <4>1, <4>2, <4>3
    <3>. QED
      BY <3>2, <3>3
  <2>4. ASSUME NEW q \in Procs,
               pc'[q] = "readDone" \/ (pc'[q] = "readWait" /\ \A t \in avail' : t.head \notin chain'[q])
        PROVE  buf'[cur'[q]].data = disk'[buf'[cur'[q]].blockno]
    <3>1. CASE q = p
      BY <1>1, <1>2, <1>5, <3>1
    <3>2. CASE q # p
      <4>1. pc[q] = "readDone" \/ (pc[q] = "readWait" /\ \A t \in avail : t.head \notin chain[q])
        BY <1>1, <1>2, <2>4, <3>2 DEF h
      <4>2. cur[q] \in Bufs /\ buf[cur[q]].data = disk[buf[cur[q]].blockno] /\ pc[q] \in Holding
        BY <4>1, CurIsBuffer DEF DataAgree, Holding, InRw
      <4>3. cur[q] # cur[p] /\ buf[cur[q]].blockno # NoBlock
        BY <1>4, <3>2, <4>2, HolderAlone, ZeroNotBuffer DEF LocksAgree
      <4>4. disk'[buf[cur[q]].blockno] = disk[buf[cur[q]].blockno]
        BY <2>2, <4>2, <4>3
      <4>. QED
        BY <1>2, <1>5, <4>2, <4>3, <4>4
    <3>. QED
      BY <3>1, <3>2
  <2>. QED
    BY <2>3, <2>4 DEF DataAgree
<1>. QED
  BY <1>6, <1>7, <1>8, <1>9, <1>10, <1>11, <1>12, <1>13 DEF RequestsAgree

\* Every step keeps the invariant.
LEMMA NextInv == Inv /\ [Next]_vars => Inv'
<1>. SUFFICES ASSUME Inv, [Next]_vars PROVE Inv'
  OBVIOUS
<1>1. CASE UNCHANGED vars
  BY <1>1 DEF vars, cacheVars, procVars, driverVars, Inv, TypeOK, OneBuffer, RefsCounted, LockSleepers,
              DescSleepers, Completions, LocksAgree, RequestsAgree, ChainsAgree, RingsAgree, DataAgree, Unwritten
<1>2. ASSUME NEW p \in Procs, NEW k \in Blocks, Bget(p, k) PROVE Inv'
  BY <1>2, BgetInv
<1>3. ASSUME NEW p \in Procs, NEW v \in Vals, Modify(p, v) \/ Bwrite(p, v) PROVE Inv'
  BY <1>3, ModifyInv, BwriteInv
<1>4. ASSUME NEW p \in Procs, VirtioDiskRw(p) PROVE Inv'
  BY <1>4, Alloc3FailsInv, SubmitInv DEF VirtioDiskRw
<1>5. ASSUME NEW p \in Procs, AcquireSleep(p) \/ VirtioDiskDone(p) \/ Bunpin(p) \/ ReleaseSleep(p) \/ Brelse(p)
      PROVE  Inv'
  BY <1>5, AcquireSleepInv, VirtioDiskDoneInv, BunpinInv, ReleaseSleepInv, BrelseInv
<1>6. ASSUME NEW r \in avail, DeviceServes(r) PROVE Inv'
  BY <1>6, DeviceServesInv
<1>7. CASE IntrEnter \/ IntrTurn \/ IntrLeave
  BY <1>7, IntrEnterInv, IntrTurnInv, IntrLeaveInv
<1>8. CASE Halted
  BY <1>1, <1>8 DEF Halted
<1>. QED
  BY <1>1, <1>2, <1>3, <1>4, <1>5, <1>6, <1>7, <1>8 DEF Next

\* The inductive invariant of the buffer cache and the driver holds throughout.
THEOREM IInvHolds == Spec => []IInv
<1>1. Spec => []Inv
  BY InitInv, NextInv, PTL DEF Spec
<1>. QED
  BY <1>1, IInvIs, PTL

\* No block is cached twice, and a buffer is referenced exactly by the processes
\* between its bget and its brelse and by the log's pin (b->refcnt in bget, brelse, bpin).
THEOREM ReferencesExact == Spec => []RefsExact
  BY IInvHolds, PTL DEF IInv

\* Nobody sleeps on a sleep lock that is free, for descriptors when there are three,
\* or for a completion that no interrupt will report (acquiresleep, virtio_disk_rw,
\* virtio_disk_intr).
THEOREM SleepersAlwaysHaveCause == Spec => []SleepersHaveCause
  BY IInvHolds, PTL DEF IInv

-----------------------------------------------------------------------------
(* The cache over the disk behaves as one copy of every block *)

\* Content without its CHOOSE: a cached and valid block is in its buffer, the others
\* are on disk.
ContentFacts == \A k \in Blocks :
  /\ \A b \in Bufs : buf[b].blockno = k => /\ buf[b].valid => Content[k] = buf[b].data
                                           /\ ~buf[b].valid => Content[k] = disk[k]
  /\ (\A b \in Bufs : buf[b].blockno # k) => Content[k] = disk[k]

\* The block store's contents are what a reader of the cache would get.
LEMMA ContentIs == Inv => ContentFacts
<1>. SUFFICES ASSUME Inv, NEW k \in Blocks
              PROVE  /\ \A b \in Bufs : buf[b].blockno = k => /\ buf[b].valid => Content[k] = buf[b].data
                                                              /\ ~buf[b].valid => Content[k] = disk[k]
                     /\ (\A b \in Bufs : buf[b].blockno # k) => Content[k] = disk[k]
  BY DEF ContentFacts
<1>1. Content[k] = IF \E b \in Bufs : buf[b].blockno = k /\ buf[b].valid
                     THEN buf[CHOOSE b \in Bufs : buf[b].blockno = k].data
                     ELSE disk[k]
  BY DEF Content, ContentOf
<1>2. ASSUME NEW b \in Bufs, buf[b].blockno = k
      PROVE  /\ buf[b].valid => Content[k] = buf[b].data
             /\ ~buf[b].valid => Content[k] = disk[k]
  <2>1. \A c \in Bufs : buf[c].blockno = k => c = b
    BY <1>2, DiskAssumption DEF Inv, OneBuffer
  <2>2. (CHOOSE c \in Bufs : buf[c].blockno = k) = b
    BY <1>2, <2>1
  <2>. QED
    BY <1>1, <1>2, <2>1, <2>2
<1>. QED
  BY <1>1, <1>2

\* The same after a step.
LEMMA ContentNext == Inv' => ContentFacts'
  BY ContentIs, PTL

\* Contents are equal when they agree on every block.
LEMMA ContentEqual ==
  ASSUME \A k \in Blocks : Content'[k] = Content[k] PROVE Content' = Content
<1>1. Content = [k \in Blocks |-> Content[k]]
  BY DEF Content, ContentOf
<1>2. Content' = [k \in Blocks |-> Content'[k]]
  BY DEF Content, ContentOf
<1>. QED
  BY <1>1, <1>2

\* A step that changes the contents of one block.
LEMMA ContentPut ==
  ASSUME NEW k \in Blocks, NEW v, Content'[k] = v, \A j \in Blocks \ {k} : Content'[j] = Content[j]
  PROVE  Content' = [Content EXCEPT ![k] = v]
<1>1. Content = [j \in Blocks |-> Content[j]]
  BY DEF Content, ContentOf
<1>2. Content' = [j \in Blocks |-> Content'[j]]
  BY DEF Content, ContentOf
<1>. QED
  BY <1>1, <1>2

\* Steps that leave the buffers' blocks and contents and the disk alone.
LEMMA ContentKept ==
  ASSUME Inv, Inv', disk' = disk,
         \A b \in Bufs : /\ buf'[b].blockno = buf[b].blockno /\ buf'[b].valid = buf[b].valid
                         /\ buf'[b].data = buf[b].data
  PROVE  Content' = Content
<1>1. ASSUME NEW k \in Blocks PROVE Content'[k] = Content[k]
  <2>1. CASE \E b \in Bufs : buf[b].blockno = k
    <3>1. PICK b \in Bufs : buf[b].blockno = k
      BY <2>1
    <3>2. CASE buf[b].valid
      BY <3>1, <3>2, ContentIs, ContentNext DEF ContentFacts
    <3>3. CASE ~buf[b].valid
      BY <3>1, <3>3, ContentIs, ContentNext DEF ContentFacts
    <3>. QED
      BY <3>2, <3>3
  <2>2. CASE \A b \in Bufs : buf[b].blockno # k
    BY <2>2, ContentIs, ContentNext DEF ContentFacts
  <2>. QED
    BY <2>1, <2>2
<1>. QED
  BY <1>1, ContentEqual

\* Who has a block, without the CHOOSE, when a process takes it and gives it back.
LEMMA OwnerTake ==
  ASSUME NEW H, NEW p \in Procs, NEW k \in Blocks, \A q \in Procs : <<q, k>> \notin H
  PROVE  /\ OwnerOf(H)[k] = NoProc
         /\ OwnerOf(H \cup {<<p, k>>}) = [OwnerOf(H) EXCEPT ![k] = p]
<1>1. OwnerOf(H)[k] = NoProc
  BY DEF OwnerOf
<1>2. OwnerOf(H \cup {<<p, k>>})[k] = p
  BY DEF OwnerOf
<1>3. \A j \in Blocks \ {k} : OwnerOf(H \cup {<<p, k>>})[j] = OwnerOf(H)[j]
  <2>1. \A j \in Blocks \ {k} : \A q \in Procs : <<q, j>> \in H \cup {<<p, k>>} <=> <<q, j>> \in H
    OBVIOUS
  <2>. QED
    BY <2>1 DEF OwnerOf
<1>4. OwnerOf(H) = [j \in Blocks |-> OwnerOf(H)[j]]
      /\ OwnerOf(H \cup {<<p, k>>}) = [j \in Blocks |-> OwnerOf(H \cup {<<p, k>>})[j]]
  BY DEF OwnerOf
<1>. QED
  BY <1>1, <1>2, <1>3, <1>4

\* The owner of a block is the one process that holds its buffer's lock.
LEMMA OwnerIs ==
  ASSUME NEW H, NEW p \in Procs, NEW k \in Blocks, <<p, k>> \in H, \A q \in Procs : <<q, k>> \in H => q = p
  PROVE  OwnerOf(H)[k] = p
  BY DEF OwnerOf

\* releasesleep makes a block free.
LEMMA OwnerGive ==
  ASSUME NEW H, NEW p \in Procs, NEW k \in Blocks, <<p, k>> \in H, \A q \in Procs : <<q, k>> \in H => q = p
  PROVE  OwnerOf(H \ {<<p, k>>}) = [OwnerOf(H) EXCEPT ![k] = NoProc]
<1>1. OwnerOf(H \ {<<p, k>>})[k] = NoProc
  BY DEF OwnerOf
<1>2. \A j \in Blocks \ {k} : OwnerOf(H \ {<<p, k>>})[j] = OwnerOf(H)[j]
  <2>1. \A j \in Blocks \ {k} : \A q \in Procs : <<q, j>> \in H \ {<<p, k>>} <=> <<q, j>> \in H
    OBVIOUS
  <2>. QED
    BY <2>1 DEF OwnerOf
<1>3. OwnerOf(H) = [j \in Blocks |-> OwnerOf(H)[j]]
      /\ OwnerOf(H \ {<<p, k>>}) = [j \in Blocks |-> OwnerOf(H \ {<<p, k>>})[j]]
  BY DEF OwnerOf
<1>. QED
  BY <1>1, <1>2, <1>3

\* Who holds what, as pairs of a process and a block.
LEMMA HeldIs ==
  /\ Held \subseteq Procs \X Blocks
  /\ \A q \in Procs, k \in Blocks :
       <<q, k>> \in Held <=> pc[q] \in Holding /\ cur[q] \in Bufs /\ buf[cur[q]].blockno = k
  BY DEF Held, Cached

\* The same after a step.
LEMMA HeldNext ==
  /\ Held' \subseteq Procs \X Blocks
  /\ \A q \in Procs, k \in Blocks :
       <<q, k>> \in Held' <=> pc'[q] \in Holding /\ cur'[q] \in Bufs /\ buf'[cur'[q]].blockno = k
  BY DEF Held, Cached

\* Nobody gets or gives up a sleep lock.
LEMMA HeldKept ==
  ASSUME \A q \in Procs : pc'[q] \in Holding <=> pc[q] \in Holding,
         \A q \in Procs : pc[q] \in Holding => cur'[q] = cur[q] /\ buf'[cur[q]].blockno = buf[cur[q]].blockno
  PROVE  Held' = Held
<1>1. ASSUME NEW q \in Procs, NEW k \in Blocks PROVE <<q, k>> \in Held' <=> <<q, k>> \in Held
  BY HeldIs, HeldNext
<1>. QED
  BY <1>1, HeldIs, HeldNext

\* A block has one holder.
LEMMA HeldAlone ==
  ASSUME Inv, NEW k \in Blocks, NEW p \in Procs, <<p, k>> \in Held, NEW q \in Procs, <<q, k>> \in Held PROVE q = p
<1>1. /\ pc[p] \in Holding /\ cur[p] \in Bufs /\ buf[cur[p]].blockno = k
      /\ pc[q] \in Holding /\ cur[q] \in Bufs /\ buf[cur[q]].blockno = k
  BY HeldIs
<1>2. cur[p] = cur[q]
  BY <1>1, DiskAssumption DEF Inv, OneBuffer
<1>. QED
  BY <1>1, <1>2, HolderAlone DEF Inv

\* A recycled buffer was unpinned and nobody's: what it held is on disk.
LEMMA RecycleStutters ==
  ASSUME Inv, Inv', NEW b \in Unused, NEW k \in Blocks, Cached(k) = {}, buf' = Recycle(b, k), disk' = disk
  PROVE  Content' = Content
<1>1. b \in Bufs /\ b \notin pinned /\ \A q \in Procs : cur[q] # b
  BY UnusedIs
<1>2. /\ buf'[b].blockno = k /\ ~buf'[b].valid
      /\ \A c \in Bufs \ {b} : buf'[c] = buf[c]
  <2>. DEFINE s == [buf[b] EXCEPT !.blockno = k, !.valid = FALSE, !.refcnt = 1]
  <2>1. buf \in [Bufs -> Buffers] /\ buf' = [buf EXCEPT ![b] = s]
    BY <1>1 DEF Inv, TypeOK, Recycle
  <2>2. s.blockno = k /\ ~s.valid
    <3>1. buf[b] \in Buffers
      BY <1>1, <2>1
    <3>. QED
      BY <3>1 DEF Buffers
  <2>. HIDE DEF s
  <2>. QED
    BY <1>1, <2>1, <2>2
<1>3. buf[b].valid => buf[b].data = disk[buf[b].blockno]
  BY <1>1 DEF Inv, DataAgree
<1>4. ASSUME NEW j \in Blocks PROVE Content'[j] = Content[j]
  <2>1. CASE j = k
    <3>1. \A c \in Bufs : buf[c].blockno # k
      BY DEF Cached
    <3>2. Content[k] = disk[k]
      BY <3>1, ContentIs DEF ContentFacts
    <3>3. Content'[k] = disk'[k]
      BY <1>1, <1>2, ContentNext DEF ContentFacts
    <3>. QED
      BY <2>1, <3>2, <3>3
  <2>2. CASE j # k /\ buf[b].blockno = j
    <3>1. Content[j] = disk[j]
      BY <1>1, <1>3, <2>2, ContentIs DEF ContentFacts
    <3>2. \A c \in Bufs : buf'[c].blockno # j
      BY <1>1, <1>2, <2>2, DiskAssumption DEF Inv, OneBuffer
    <3>3. Content'[j] = disk'[j]
      BY <3>2, ContentNext DEF ContentFacts
    <3>. QED
      BY <3>1, <3>3
  <2>3. CASE j # k /\ buf[b].blockno # j /\ \E c \in Bufs : buf[c].blockno = j
    <3>1. PICK c \in Bufs : buf[c].blockno = j
      BY <2>3
    <3>2. buf'[c] = buf[c]
      BY <1>2, <2>3, <3>1
    <3>3. CASE buf[c].valid
      BY <3>1, <3>2, <3>3, ContentIs, ContentNext DEF ContentFacts
    <3>4. CASE ~buf[c].valid
      BY <3>1, <3>2, <3>4, ContentIs, ContentNext DEF ContentFacts
    <3>. QED
      BY <3>3, <3>4
  <2>4. CASE j # k /\ \A c \in Bufs : buf[c].blockno # j
    <3>1. \A c \in Bufs : buf'[c].blockno # j
      BY <1>2, <2>4
    <3>. QED
      BY <2>4, <3>1, ContentIs, ContentNext DEF ContentFacts
  <2>. QED
    BY <2>1, <2>2, <2>3, <2>4
<1>. QED
  BY <1>4, ContentEqual

\* bget changes no contents: a recycled buffer was clean, or its block is on disk.
LEMMA BgetStutters ==
  ASSUME Inv, Inv', NEW p \in Procs, NEW k \in Blocks, Bget(p, k) PROVE Content' = Content /\ Held' = Held
<1>1. pc[p] = "idle" /\ cur[p] = 0 /\ lock' = lock /\ disk' = disk /\ cur \in [Procs -> Bufs \cup {0}]
  BY DEF Bget, Inv, LocksAgree, TypeOK
<1>2. CASE UNCHANGED <<buf, cur, pc>>
  <2>1. Content' = Content
    BY <1>1, <1>2, ContentKept
  <2>2. Held' = Held
    BY <1>2 DEF Held, Cached
  <2>. QED
    BY <2>1, <2>2
<1>3. ASSUME NEW b \in Cached(k), buf' = [buf EXCEPT ![b].refcnt = @ + 1], cur' = [cur EXCEPT ![p] = b],
             pc' = [pc EXCEPT ![p] = "lock"]
      PROVE  Content' = Content /\ Held' = Held
  <2>1. \A c \in Bufs : /\ buf'[c].blockno = buf[c].blockno /\ buf'[c].valid = buf[c].valid
                        /\ buf'[c].data = buf[c].data
    <3>1. b \in Bufs /\ buf \in [Bufs -> Buffers]
      BY DEF Cached, Inv, TypeOK
    <3>. DEFINE s == [buf[b] EXCEPT !.refcnt = @ + 1]
    <3>2. buf' = [buf EXCEPT ![b] = s]
      BY <1>3
    <3>3. s.blockno = buf[b].blockno /\ s.valid = buf[b].valid /\ s.data = buf[b].data
      BY <3>1 DEF Buffers
    <3>. HIDE DEF s
    <3>. QED
      BY <3>1, <3>2, <3>3
  <2>2. Content' = Content
    BY <1>1, <2>1, ContentKept
  <2>3. /\ \A q \in Procs : pc'[q] \in Holding <=> pc[q] \in Holding
        /\ \A q \in Procs : pc[q] \in Holding => cur'[q] = cur[q] /\ cur[q] \in Bufs
    BY <1>1, <1>3, CurIsBuffer DEF Holding, InRw, Inv, TypeOK
  <2>. QED
    BY <2>1, <2>2, <2>3, HeldKept
<1>4. CASE /\ Cached(k) = {} /\ Unused # {} /\ buf' = Recycle(LeastRecent, k)
           /\ cur' = [cur EXCEPT ![p] = LeastRecent] /\ pc' = [pc EXCEPT ![p] = "lock"]
  <2>1. LeastRecent \in Unused
    BY <1>4, LeastRecentIs DEF Inv, TypeOK
  <2>2. Content' = Content
    BY <1>1, <1>4, <2>1, RecycleStutters
  <2>3. LeastRecent \in Bufs /\ \A q \in Procs : cur[q] # LeastRecent
    BY <2>1, UnusedIs
  <2>4. \A c \in Bufs : c # LeastRecent => buf'[c] = buf[c]
    BY <1>4 DEF Recycle, Inv, TypeOK
  <2>5. /\ \A q \in Procs : pc'[q] \in Holding <=> pc[q] \in Holding
        /\ \A q \in Procs : pc[q] \in Holding => cur'[q] = cur[q] /\ cur[q] \in Bufs
    BY <1>1, <1>4, CurIsBuffer DEF Holding, InRw, Inv, TypeOK
  <2>. QED
    BY <2>2, <2>3, <2>4, <2>5, HeldKept
<1>. QED
  BY <1>2, <1>3, <1>4 DEF Bget

\* acquiresleep on a free lock takes the block; on a held one it changes nothing.
LEMMA AcquireSleepRefines ==
  ASSUME Inv, Inv', NEW p \in Procs, AcquireSleep(p)
  PROVE  Content' = Content /\ (Held' = Held \/ \E k \in Blocks : Abstract!Take(p, k))
<1>1. /\ pc[p] = "lock" /\ cur[p] \in Bufs /\ buf' = buf /\ disk' = disk /\ cur' = cur
      /\ buf[cur[p]].blockno \in Blocks
  <2>1. pc[p] = "lock" /\ cur[p] \in Bufs /\ buf' = buf /\ disk' = disk /\ cur' = cur
    BY CurIsBuffer DEF AcquireSleep, Inv
  <2>2. buf[cur[p]] \in Buffers /\ buf[cur[p]].blockno # NoBlock
    BY <2>1, ZeroNotBuffer DEF Inv, TypeOK, LocksAgree
  <2>. QED
    BY <2>1, <2>2 DEF Buffers
<1>2. Content' = Content
  BY <1>1, ContentKept
<1>3. CASE lock[cur[p]] # NoProc
  <2>1. \A q \in Procs : pc'[q] \in Holding <=> pc[q] \in Holding
    BY <1>1, <1>3 DEF AcquireSleep, Holding, InRw, Inv, TypeOK
  <2>. QED
    BY <1>1, <1>2, <2>1, HeldKept
<1>4. CASE lock[cur[p]] = NoProc
  <2>. DEFINE k == buf[cur[p]].blockno
  <2>1. \A q \in Procs : pc'[q] \in Holding <=> pc[q] \in Holding \/ q = p
    BY <1>1, <1>4 DEF AcquireSleep, Holding, InRw, Inv, TypeOK
  <2>2. \A q \in Procs : <<q, k>> \notin Held
    <3>1. ASSUME NEW q \in Procs, pc[q] \in Holding, cur[q] \in Bufs, buf[cur[q]].blockno = k PROVE FALSE
      <4>1. cur[q] = cur[p]
        BY <1>1, <3>1, DiskAssumption DEF Inv, OneBuffer
      <4>2. lock[cur[q]] = q
        BY <3>1 DEF Inv, LocksAgree
      <4>. QED
        BY <1>4, <4>1, <4>2, DiskAssumption
    <3>. QED
      BY <1>1, <3>1, HeldIs
  <2>3. Held' = Held \cup {<<p, k>>}
    <3>1. ASSUME NEW q \in Procs, NEW j \in Blocks PROVE <<q, j>> \in Held' <=> <<q, j>> \in Held \/ (q = p /\ j = k)
      BY <1>1, <2>1, HeldIs, HeldNext
    <3>2. <<p, k>> \in Procs \X Blocks
      BY <1>1
    <3>. HIDE DEF k
    <3>. QED
      BY <3>1, <3>2, HeldIs, HeldNext
  <2>4. k \in Blocks
    BY <1>1
  <2>. HIDE DEF k
  <2>5. Owner[k] = NoProc /\ Owner' = [Owner EXCEPT ![k] = p]
    BY <2>2, <2>3, <2>4, OwnerTake DEF Owner
  <2>. QED
    BY <1>2, <2>4, <2>5 DEF Abstract!Take
<1>. QED
  BY <1>3, <1>4

\* releasesleep gives the block back.
LEMMA ReleaseSleepRefines ==
  ASSUME Inv, Inv', NEW p \in Procs, ReleaseSleep(p) PROVE \E k \in Blocks : Abstract!Give(p, k)
<1>1. /\ pc[p] = "hold" /\ cur[p] \in Bufs /\ buf' = buf /\ disk' = disk /\ cur' = cur
      /\ buf[cur[p]].blockno \in Blocks
  <2>1. pc[p] = "hold" /\ cur[p] \in Bufs /\ buf' = buf /\ disk' = disk /\ cur' = cur
    BY CurIsBuffer DEF ReleaseSleep, Inv
  <2>2. buf[cur[p]] \in Buffers /\ buf[cur[p]].blockno # NoBlock
    BY <2>1, ZeroNotBuffer DEF Inv, TypeOK, LocksAgree
  <2>. QED
    BY <2>1, <2>2 DEF Buffers
<1>2. Content' = Content
  BY <1>1, ContentKept
<1>. DEFINE k == buf[cur[p]].blockno
<1>3. \A q \in Procs : pc'[q] \in Holding <=> pc[q] \in Holding /\ q # p
  BY <1>1 DEF ReleaseSleep, Holding, InRw, Inv, TypeOK
<1>4. <<p, k>> \in Held
  BY <1>1, HeldIs DEF Holding
<1>5. Held' = Held \ {<<p, k>>}
  <2>1. ASSUME NEW q \in Procs, NEW j \in Blocks PROVE <<q, j>> \in Held' <=> <<q, j>> \in Held /\ ~(q = p /\ j = k)
    BY <1>1, <1>3, HeldIs, HeldNext
  <2>. HIDE DEF k
  <2>. QED
    BY <2>1, HeldIs, HeldNext
<1>6. k \in Blocks /\ \A q \in Procs : <<q, k>> \in Held => q = p
  BY <1>1, <1>4, HeldAlone
<1>. HIDE DEF k
<1>7. Owner[k] = p /\ Owner' = [Owner EXCEPT ![k] = NoProc]
  BY <1>4, <1>5, <1>6, OwnerIs, OwnerGive DEF Owner
<1>. QED
  BY <1>2, <1>6, <1>7 DEF Abstract!Give

\* A write to the contents of a held buffer is a write to its block.
LEMMA WriteRefines ==
  ASSUME Inv, Inv', NEW p \in Procs, NEW v \in Vals, pc[p] = "hold", disk' = disk, cur' = cur,
         \A q \in Procs : pc'[q] \in Holding <=> pc[q] \in Holding,
         \A c \in Bufs : /\ buf'[c].blockno = buf[c].blockno /\ buf'[c].valid = buf[c].valid
                         /\ c # cur[p] => buf'[c].data = buf[c].data,
         buf'[cur[p]].data = v
  PROVE  \E k \in Blocks : Abstract!Put(p, k, v)
<1>. DEFINE k == buf[cur[p]].blockno
<1>1. cur[p] \in Bufs /\ k \in Blocks /\ buf[cur[p]].valid
  <2>1. cur[p] \in Bufs
    BY CurIsBuffer DEF Inv
  <2>2. buf[cur[p]] \in Buffers /\ buf[cur[p]].blockno # NoBlock /\ buf[cur[p]].valid
    BY <2>1, ZeroNotBuffer DEF Inv, TypeOK, LocksAgree, Holding
  <2>. QED
    BY <2>1, <2>2 DEF Buffers
<1>2. Content'[k] = v
  BY <1>1, ContentNext DEF ContentFacts
<1>3. ASSUME NEW j \in Blocks, j # k PROVE Content'[j] = Content[j]
  <2>1. CASE \E c \in Bufs : buf[c].blockno = j
    <3>1. PICK c \in Bufs : buf[c].blockno = j
      BY <2>1
    <3>2. buf'[c].data = buf[c].data
      BY <1>3, <3>1
    <3>3. CASE buf[c].valid
      BY <3>1, <3>2, <3>3, ContentIs, ContentNext DEF ContentFacts
    <3>4. CASE ~buf[c].valid
      BY <3>1, <3>2, <3>4, ContentIs, ContentNext DEF ContentFacts
    <3>. QED
      BY <3>3, <3>4
  <2>2. CASE \A c \in Bufs : buf[c].blockno # j
    BY <2>2, ContentIs, ContentNext DEF ContentFacts
  <2>. QED
    BY <2>1, <2>2
<1>4. Held' = Held
  BY CurIsBuffer, HeldKept DEF Inv, Holding, InRw
<1>5. <<p, k>> \in Held
  BY <1>1, HeldIs DEF Holding
<1>6. \A q \in Procs : <<q, k>> \in Held => q = p
  BY <1>1, <1>5, HeldAlone
<1>. HIDE DEF k
<1>7. Content' = [Content EXCEPT ![k] = v]
  BY <1>1, <1>2, <1>3, ContentPut
<1>8. Owner[k] = p /\ Owner' = Owner
  BY <1>1, <1>4, <1>5, <1>6, OwnerIs DEF Owner
<1>. QED
  BY <1>1, <1>7, <1>8 DEF Abstract!Put

\* log_write's change of a buffer and bwrite's are writes to the block.
LEMMA ModifyRefines ==
  ASSUME Inv, Inv', NEW p \in Procs, NEW v \in Vals, Modify(p, v) \/ Bwrite(p, v)
  PROVE  \E k \in Blocks : Abstract!Put(p, k, v)
<1>1. cur[p] \in Bufs /\ pc[p] = "hold" /\ buf \in [Bufs -> Buffers] /\ disk' = disk /\ cur' = cur
  BY CurIsBuffer DEF Modify, Bwrite, Inv, TypeOK, procVars
<1>2. \A q \in Procs : pc'[q] \in Holding <=> pc[q] \in Holding
  BY <1>1 DEF Modify, Bwrite, Inv, TypeOK, Holding, InRw, procVars
<1>3. PICK n : buf' = [buf EXCEPT ![cur[p]] = [buf[cur[p]] EXCEPT !.data = v, !.refcnt = n]]
  <2>1. CASE Modify(p, v)
    BY <1>1, <2>1 DEF Modify
  <2>2. CASE Bwrite(p, v)
    <3>1. buf[cur[p]] \in Buffers
      BY <1>1
    <3>2. [buf[cur[p]] EXCEPT !.data = v] = [buf[cur[p]] EXCEPT !.data = v, !.refcnt = buf[cur[p]].refcnt]
      BY <3>1 DEF Buffers
    <3>. QED
      BY <1>1, <2>2, <3>2 DEF Bwrite
  <2>. QED
    BY <2>1, <2>2
<1>4. /\ \A c \in Bufs : /\ buf'[c].blockno = buf[c].blockno /\ buf'[c].valid = buf[c].valid
                         /\ c # cur[p] => buf'[c].data = buf[c].data
      /\ buf'[cur[p]].data = v
  <2>. DEFINE s == [buf[cur[p]] EXCEPT !.data = v, !.refcnt = n]
  <2>1. s.blockno = buf[cur[p]].blockno /\ s.valid = buf[cur[p]].valid /\ s.data = v
    <3>1. buf[cur[p]] \in Buffers
      BY <1>1
    <3>. QED
      BY <3>1 DEF Buffers
  <2>2. buf' = [buf EXCEPT ![cur[p]] = s]
    BY <1>3
  <2>. HIDE DEF s
  <2>. QED
    BY <1>1, <2>1, <2>2
<1>. QED
  BY <1>1, <1>2, <1>4, WriteRefines

\* The device moves data between a disk block and its buffer: nothing a process could
\* see. A buffer that is written is valid, one that is read is not.
LEMMA DeviceServesStutters ==
  ASSUME Inv, Inv', NEW r \in avail, DeviceServes(r) PROVE Content' = Content /\ Held' = Held
<1>1. PICK p \in Procs : /\ pc[p] = IF r.write THEN "writeWait" ELSE "readWait"
                         /\ info[r.head] = cur[p]
  BY DEF Inv, RequestsAgree, RingsAgree
<1>2. /\ cur[p] \in Bufs /\ pc[p] \in Holding /\ pc' = pc /\ cur' = cur
      /\ buf \in [Bufs -> Buffers] /\ disk \in [Blocks -> Vals]
  BY <1>1, CurIsBuffer DEF Inv, TypeOK, Holding, InRw, DeviceServes, procVars
<1>3. buf[cur[p]].blockno \in Blocks /\ (r.write => buf[cur[p]].valid) /\ (~r.write => ~buf[cur[p]].valid)
  <2>1. buf[cur[p]] \in Buffers /\ buf[cur[p]].blockno # NoBlock
    BY <1>2, ZeroNotBuffer DEF Inv, LocksAgree
  <2>2. (r.write => buf[cur[p]].valid) /\ (~r.write => ~buf[cur[p]].valid)
    BY <1>1, <1>2 DEF Inv, LocksAgree
  <2>. QED
    BY <2>1, <2>2 DEF Buffers
<1>4. CASE r.write
  <2>1. disk' = [disk EXCEPT ![buf[cur[p]].blockno] = buf[cur[p]].data] /\ buf' = buf
    BY <1>1, <1>4 DEF DeviceServes
  <2>2. ASSUME NEW k \in Blocks PROVE Content'[k] = Content[k]
    <3>1. CASE k = buf[cur[p]].blockno
      BY <1>2, <1>3, <1>4, <2>1, <3>1, ContentIs, ContentNext DEF ContentFacts
    <3>2. CASE k # buf[cur[p]].blockno
      <4>1. disk'[k] = disk[k]
        BY <1>2, <2>1, <3>2
      <4>2. CASE \E b \in Bufs : buf[b].blockno = k
        <5>1. PICK b \in Bufs : buf[b].blockno = k
          BY <4>2
        <5>2. CASE buf[b].valid
          BY <2>1, <5>1, <5>2, ContentIs, ContentNext DEF ContentFacts
        <5>3. CASE ~buf[b].valid
          BY <2>1, <4>1, <5>1, <5>3, ContentIs, ContentNext DEF ContentFacts
        <5>. QED
          BY <5>2, <5>3
      <4>3. CASE \A b \in Bufs : buf[b].blockno # k
        BY <2>1, <4>1, <4>3, ContentIs, ContentNext DEF ContentFacts
      <4>. QED
        BY <4>2, <4>3
    <3>. QED
      BY <3>1, <3>2
  <2>3. Content' = Content
    BY <2>2, ContentEqual
  <2>4. Held' = Held
    BY <1>2, <2>1, HeldKept
  <2>. QED
    BY <2>3, <2>4
<1>5. CASE ~r.write
  <2>1. buf' = [buf EXCEPT ![cur[p]].data = disk[buf[cur[p]].blockno]] /\ disk' = disk
    BY <1>1, <1>5 DEF DeviceServes
  <2>2. PICK v \in Vals : buf' = [buf EXCEPT ![cur[p]].data = v]
    BY <1>2, <1>3, <2>1
  <2>3. \A b \in Bufs : /\ buf'[b].blockno = buf[b].blockno /\ buf'[b].valid = buf[b].valid
                        /\ buf'[b].disk = buf[b].disk /\ buf'[b].refcnt = buf[b].refcnt
                        /\ buf'[b].data = IF b = cur[p] THEN v ELSE buf[b].data
    BY <1>2, <2>2, SetData
  <2>4. ASSUME NEW k \in Blocks PROVE Content'[k] = Content[k]
    <3>1. CASE \E b \in Bufs : buf[b].blockno = k
      <4>1. PICK b \in Bufs : buf[b].blockno = k
        BY <3>1
      <4>2. CASE buf[b].valid
        <5>1. buf'[b].data = buf[b].data /\ buf'[b].valid /\ buf'[b].blockno = k
          BY <1>3, <1>5, <2>3, <4>1, <4>2
        <5>. QED
          BY <4>1, <4>2, <5>1, ContentIs, ContentNext DEF ContentFacts
      <4>3. CASE ~buf[b].valid
        BY <2>1, <2>3, <4>1, <4>3, ContentIs, ContentNext DEF ContentFacts
      <4>. QED
        BY <4>2, <4>3
    <3>2. CASE \A b \in Bufs : buf[b].blockno # k
      BY <2>1, <2>3, <3>2, ContentIs, ContentNext DEF ContentFacts
    <3>. QED
      BY <3>1, <3>2
  <2>5. Content' = Content
    BY <2>4, ContentEqual
  <2>6. Held' = Held
    BY <1>2, <2>3, CurIsBuffer, HeldKept DEF Inv, Holding, InRw
  <2>. QED
    BY <2>5, <2>6
<1>. QED
  BY <1>4, <1>5

\* virtio_disk_rw's return makes valid what the device has read.
LEMMA VirtioDiskDoneStutters ==
  ASSUME Inv, Inv', NEW p \in Procs, VirtioDiskDone(p) PROVE Content' = Content /\ Held' = Held
<1>1. /\ pc[p] \in {"readDone", "writeDone"} /\ cur[p] \in Bufs /\ pc[p] \in Holding /\ disk' = disk /\ cur' = cur
      /\ buf \in [Bufs -> Buffers] /\ buf' = [buf EXCEPT ![cur[p]].valid = TRUE]
  BY CurIsBuffer DEF VirtioDiskDone, Inv, TypeOK, Holding, InRw
<1>2. /\ \A b \in Bufs : /\ buf'[b].blockno = buf[b].blockno /\ buf'[b].data = buf[b].data
                         /\ b # cur[p] => buf'[b].valid = buf[b].valid
      /\ buf'[cur[p]].valid
  BY <1>1, SetValid
<1>3. ~buf[cur[p]].valid => buf[cur[p]].data = disk[buf[cur[p]].blockno]
  <2>1. ~buf[cur[p]].valid => pc[p] = "readDone"
    BY <1>1 DEF Inv, LocksAgree
  <2>. QED
    BY <2>1 DEF Inv, DataAgree
<1>4. ASSUME NEW k \in Blocks PROVE Content'[k] = Content[k]
  <2>1. CASE \E b \in Bufs : buf[b].blockno = k
    <3>1. PICK b \in Bufs : buf[b].blockno = k
      BY <2>1
    <3>2. CASE buf[b].valid
      BY <1>2, <3>1, <3>2, ContentIs, ContentNext DEF ContentFacts
    <3>3. CASE ~buf[b].valid /\ b # cur[p]
      BY <1>1, <1>2, <3>1, <3>3, ContentIs, ContentNext DEF ContentFacts
    <3>4. CASE ~buf[b].valid /\ b = cur[p]
      BY <1>1, <1>2, <1>3, <3>1, <3>4, ContentIs, ContentNext DEF ContentFacts
    <3>. QED
      BY <3>2, <3>3, <3>4
  <2>2. CASE \A b \in Bufs : buf[b].blockno # k
    BY <1>1, <1>2, <2>2, ContentIs, ContentNext DEF ContentFacts
  <2>. QED
    BY <2>1, <2>2
<1>5. \A q \in Procs : pc'[q] \in Holding <=> pc[q] \in Holding
  <2>1. \A q \in Procs : WakeDesc[q] \in Holding <=> pc[q] \in Holding
    BY DEF WakeDesc, Holding, InRw
  <2>2. pc' = [WakeDesc EXCEPT ![p] = "hold"] /\ "hold" \in Holding
    BY DEF VirtioDiskDone, Holding
  <2>3. DOMAIN WakeDesc = Procs
    BY DEF WakeDesc
  <2>4. \A q \in Procs : pc'[q] = IF q = p THEN "hold" ELSE WakeDesc[q]
    BY <2>2 DEF WakeDesc
  <2>. QED
    BY <1>1, <2>1, <2>2, <2>4
<1>6. Held' = Held
  <2>1. \A q \in Procs : pc[q] \in Holding => cur[q] \in Bufs
    BY CurIsBuffer DEF Inv, Holding, InRw
  <2>. QED
    BY <1>1, <1>2, <1>5, <2>1, HeldKept
<1>. QED
  BY <1>4, <1>6, ContentEqual

\* Waiting for descriptors, a request's way to the device and its completion, the
\* pin's removal and the end of brelse change neither contents nor holders.
LEMMA VirtioDiskRwStutters ==
  ASSUME Inv, Inv', NEW p \in Procs, VirtioDiskRw(p) PROVE Content' = Content /\ Held' = Held
<1>1. /\ pc[p] \in {"read", "write"} /\ cur[p] \in Bufs /\ disk' = disk /\ cur' = cur /\ buf \in [Bufs -> Buffers]
  BY CurIsBuffer DEF VirtioDiskRw, Inv, TypeOK
<1>2. \A b \in Bufs : /\ buf'[b].blockno = buf[b].blockno /\ buf'[b].valid = buf[b].valid
                      /\ buf'[b].data = buf[b].data
  <2>1. CASE Alloc3Fails(p)
    BY <2>1 DEF Alloc3Fails
  <2>2. CASE Submit(p)
    <3>1. buf' = [buf EXCEPT ![cur[p]].disk = TRUE]
      BY <2>2 DEF Submit
    <3>. QED
      BY <1>1, <3>1, SetDisk
  <2>. QED
    BY <2>1, <2>2 DEF VirtioDiskRw
<1>3. \A q \in Procs : pc'[q] \in Holding <=> pc[q] \in Holding
  <2>1. CASE Alloc3Fails(p)
    <3>1. \A q \in Procs : WakeDesc[q] \in Holding <=> pc[q] \in Holding
      BY DEF WakeDesc, Holding, InRw
    <3>2. DOMAIN WakeDesc = Procs /\ DOMAIN pc = Procs
      BY DEF WakeDesc, Inv, TypeOK
    <3>3. {"readDesc", "writeDesc", "read", "write"} \subseteq Holding
      BY DEF Holding, InRw
    <3>. HIDE DEF WakeDesc, Holding
    <3>. QED
      BY <1>1, <2>1, <3>1, <3>2, <3>3 DEF Alloc3Fails
  <2>2. CASE Submit(p)
    BY <1>1, <2>2 DEF Submit, Holding, InRw, Inv, TypeOK
  <2>. QED
    BY <2>1, <2>2 DEF VirtioDiskRw
<1>4. \A q \in Procs : pc[q] \in Holding => cur[q] \in Bufs
  BY CurIsBuffer DEF Inv, Holding, InRw
<1>. QED
  BY <1>1, <1>2, <1>3, <1>4, ContentKept, HeldKept

\* A turn of the interrupt handler changes neither contents nor holders.
LEMMA IntrTurnStutters == ASSUME Inv, Inv', IntrTurn PROVE Content' = Content /\ Held' = Held
<1>. DEFINE h == Head(used)
<1>1. info[h] \in Bufs /\ buf \in [Bufs -> Buffers] /\ disk' = disk /\ cur' = cur
  <2>1. /\ used \in Seq(Desc) /\ used # <<>>
        /\ \A i, j \in 1 .. Len(used) : used[i] = used[j] => i = j
    BY DEF IntrTurn, Inv, TypeOK, RequestsAgree, RingsAgree
  <2>2. h \in ToSet(used)
    BY <2>1, UsedTail
  <2>. HIDE DEF h
  <2>3. info[h] \in Bufs
    BY <2>2, RequestOwner
  <2>. QED
    BY <2>3 DEF IntrTurn, Inv, TypeOK
<1>2. buf' = [buf EXCEPT ![info[h]].disk = FALSE]
  BY DEF IntrTurn
<1>. HIDE DEF h
<1>3. \A b \in Bufs : /\ buf'[b].blockno = buf[b].blockno /\ buf'[b].valid = buf[b].valid
                      /\ buf'[b].data = buf[b].data
  BY <1>1, <1>2, SetDisk
<1>4. \A q \in Procs : pc'[q] \in Holding <=> pc[q] \in Holding
  BY DEF IntrTurn, Holding, InRw
<1>5. \A q \in Procs : pc[q] \in Holding => cur[q] \in Bufs
  BY CurIsBuffer DEF Inv, Holding, InRw
<1>. QED
  BY <1>1, <1>3, <1>4, <1>5, ContentKept, HeldKept

\* bunpin changes neither contents nor holders.
LEMMA BunpinStutters == ASSUME Inv, Inv', NEW p \in Procs, Bunpin(p) PROVE Content' = Content /\ Held' = Held
<1>1. cur[p] \in Bufs /\ buf \in [Bufs -> Buffers] /\ disk' = disk /\ cur' = cur /\ pc' = pc
  BY CurIsBuffer DEF Bunpin, Inv, TypeOK, procVars
<1>2. \A b \in Bufs : /\ buf'[b].blockno = buf[b].blockno /\ buf'[b].valid = buf[b].valid
                      /\ buf'[b].data = buf[b].data
  <2>. DEFINE s == [buf[cur[p]] EXCEPT !.refcnt = @ - 1]
  <2>1. buf' = [buf EXCEPT ![cur[p]] = s]
    BY DEF Bunpin
  <2>2. s.blockno = buf[cur[p]].blockno /\ s.valid = buf[cur[p]].valid /\ s.data = buf[cur[p]].data
    BY <1>1 DEF Buffers
  <2>. HIDE DEF s
  <2>. QED
    BY <1>1, <2>1, <2>2
<1>3. \A q \in Procs : pc[q] \in Holding => cur[q] \in Bufs
  BY CurIsBuffer DEF Inv, Holding, InRw
<1>. QED
  BY <1>1, <1>2, <1>3, ContentKept, HeldKept

\* Dropping a reference changes neither contents nor holders.
LEMMA BrelseStutters == ASSUME Inv, Inv', NEW p \in Procs, Brelse(p) PROVE Content' = Content /\ Held' = Held
<1>1. cur[p] \in Bufs /\ buf \in [Bufs -> Buffers] /\ disk' = disk /\ pc[p] = "relse"
  BY CurIsBuffer DEF Brelse, Inv, TypeOK
<1>2. \A b \in Bufs : /\ buf'[b].blockno = buf[b].blockno /\ buf'[b].valid = buf[b].valid
                      /\ buf'[b].data = buf[b].data
  <2>. DEFINE s == [buf[cur[p]] EXCEPT !.refcnt = @ - 1]
  <2>1. buf' = [buf EXCEPT ![cur[p]] = s]
    BY DEF Brelse
  <2>2. s.blockno = buf[cur[p]].blockno /\ s.valid = buf[cur[p]].valid /\ s.data = buf[cur[p]].data
    BY <1>1 DEF Buffers
  <2>. HIDE DEF s
  <2>. QED
    BY <1>1, <2>1, <2>2
<1>3. \A q \in Procs : /\ pc'[q] \in Holding <=> pc[q] \in Holding
                       /\ pc[q] \in Holding => cur'[q] = cur[q] /\ cur[q] \in Bufs
  BY <1>1, CurIsBuffer DEF Brelse, Inv, TypeOK, Holding, InRw
<1>. QED
  BY <1>1, <1>2, <1>3, ContentKept, HeldKept

\* Every step is a step of the one-copy store or changes nothing of it.
LEMMA NextRefines ==
  ASSUME Inv, Inv', [Next]_vars PROVE Abstract!ANext \/ (Content' = Content /\ Owner' = Owner)
<1>. DEFINE Goal == Abstract!ANext \/ (Content' = Content /\ Owner' = Owner)
<1>1. Held' = Held => Owner' = Owner
  BY DEF Owner
<1>2. CASE UNCHANGED vars
  BY <1>1, <1>2 DEF vars, cacheVars, procVars, Content, Held, Cached
<1>3. ASSUME NEW p \in Procs, NEW k \in Blocks, Bget(p, k) PROVE Goal
  BY <1>1, <1>3, BgetStutters
<1>4. ASSUME NEW p \in Procs, NEW v \in Vals, Modify(p, v) \/ Bwrite(p, v) PROVE Goal
  BY <1>4, ModifyRefines DEF Abstract!ANext
<1>5. ASSUME NEW p \in Procs, VirtioDiskRw(p) \/ VirtioDiskDone(p) \/ Bunpin(p) \/ Brelse(p) PROVE Goal
  BY <1>1, <1>5, VirtioDiskRwStutters, VirtioDiskDoneStutters, BunpinStutters, BrelseStutters
<1>6. ASSUME NEW p \in Procs, AcquireSleep(p) PROVE Goal
  BY <1>1, <1>6, AcquireSleepRefines DEF Abstract!ANext
<1>7. ASSUME NEW p \in Procs, ReleaseSleep(p) PROVE Goal
  BY <1>7, ReleaseSleepRefines DEF Abstract!ANext
<1>8. ASSUME NEW r \in avail, DeviceServes(r) PROVE Goal
  BY <1>1, <1>8, DeviceServesStutters
<1>9. CASE IntrTurn
  BY <1>1, <1>9, IntrTurnStutters
<1>10. CASE IntrEnter \/ IntrLeave
  BY <1>1, <1>10 DEF IntrEnter, IntrLeave, cacheVars, procVars, Content, Held, Cached
<1>11. CASE Halted
  BY <1>2, <1>11 DEF Halted
<1>. QED
  BY <1>2, <1>3, <1>4, <1>5, <1>6, <1>7, <1>8, <1>9, <1>10, <1>11 DEF Next

\* The cache over the disk implements one copy of every block: who gets a buffer
\* has the block alone and finds what was last written to it, whichever buffers were
\* recycled since and in whatever order the device served its requests.
THEOREM OneCopy == Spec => ImplementsBlockStore
<1>1. Init => Abstract!AInit
  <2>. SUFFICES ASSUME Init PROVE Abstract!AInit
    OBVIOUS
  <2>1. Owner = [k \in Blocks |-> NoProc]
    <3>1. Held = {}
      BY DEF Init, Held, Holding, InRw
    <3>. QED
      BY <3>1 DEF Owner, OwnerOf
  <2>2. Content = [k \in Blocks |-> Zero]
    <3>1. \A b \in Bufs : ~buf[b].valid
      BY DEF Init
    <3>2. \A k \in Blocks : disk[k] = Zero
      BY DEF Init
    <3>. QED
      BY <3>1, <3>2 DEF Content, ContentOf
  <2>. QED
    BY <2>1, <2>2, DiskAssumption DEF Abstract!AInit
<1>2. Inv /\ Inv' /\ [Next]_vars => [Abstract!ANext]_(Abstract!avars)
  BY NextRefines DEF Abstract!avars
<1>3. Spec => []Inv
  BY InitInv, NextInv, PTL DEF Spec
<1>. QED
  BY <1>1, <1>2, <1>3, PTL DEF Spec, ImplementsBlockStore, Abstract!ASpec
=============================================================================
