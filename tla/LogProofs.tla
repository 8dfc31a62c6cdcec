----------------------------- MODULE LogProofs ------------------------------
(***************************************************************************)
(* Proofs about the write-ahead log: begin_op's reservation is enough, so  *)
(* log_write never runs out of room, and log and disk implement the atomic *)
(* disk, crashes at every step of a commit and of recovery included, for   *)
(* every set of processes, blocks and contents and every size of the log.  *)
(***************************************************************************)
EXTENDS Log, FiniteSetTheorems, TLAPS

-----------------------------------------------------------------------------
(* The operators of the model *)

\* A block appended to the log is logged, and nothing else changes.
LEMMA LoggedAppend ==
  ASSUME NEW s \in Seq(Blocks), NEW b \in Blocks
  PROVE  Logged(Append(s, b)) = Logged(s) \cup {b}
  BY DEF Logged

\* A log without blocks holds none.
LEMMA LoggedEmpty == Logged(<<>>) = {}
  BY DEF Logged

\* A block that was not logged may be appended to a log without repetitions.
LEMMA DistinctAppend ==
  ASSUME NEW s \in Seq(Blocks), NEW b \in Blocks, Distinct(s), b \notin Logged(s)
  PROVE  Distinct(Append(s, b))
  BY DEF Distinct, Logged

\* What recovery comes back to, without the CHOOSE: the logged copy of a logged
\* block, the home copy of the others.
LEMMA RecoveredIs ==
  ASSUME NEW h \in Seq(Blocks), Distinct(h), NEW d, NEW home \in [Blocks -> Vals],
         NEW r \in [Blocks -> Vals],
         \A i \in 1 .. Len(h) : r[h[i]] = d[i],
         \A b \in Blocks \ Logged(h) : r[b] = home[b]
  PROVE  RecoveredFrom(h, d, home) = r
<1>1. ASSUME NEW b \in Logged(h) PROVE d[CHOOSE i \in 1 .. Len(h) : h[i] = b] = r[b]
  <2>1. PICK i \in 1 .. Len(h) : h[i] = b
    BY <1>1 DEF Logged
  <2>2. (CHOOSE j \in 1 .. Len(h) : h[j] = b) \in 1 .. Len(h)
        /\ h[CHOOSE j \in 1 .. Len(h) : h[j] = b] = b
    BY <2>1
  <2>. QED
    BY <2>2
<1>. QED
  BY <1>1 DEF RecoveredFrom

\* Without a committed transaction recovery leaves the disk alone.
LEMMA RecoveredEmpty ==
  ASSUME NEW d, NEW home \in [Blocks -> Vals]
  PROVE  RecoveredFrom(<<>>, d, home) = home
  BY LoggedEmpty DEF RecoveredFrom

\* Installing a block that is logged does not change what recovery comes to.
LEMMA RecoveredInstall ==
  ASSUME NEW h, NEW d, NEW home, NEW home2, \A b \in Blocks \ Logged(h) : home2[b] = home[b]
  PROVE  RecoveredFrom(h, d, home2) = RecoveredFrom(h, d, home)
  BY DEF RecoveredFrom

\* The room set aside for a finite set of calls is finite, and at most
\* MAXOPBLOCKS for each of them.
LEMMA RoomBound ==
  ASSUME NEW ops, IsFiniteSet(ops), NEW w
  PROVE  /\ IsFiniteSet(Room(ops, w)) /\ Cardinality(Room(ops, w)) \in Nat
         /\ Cardinality(Room(ops, w)) <= Cardinality(ops) * MAXOPBLOCKS
<1>1. MAXOPBLOCKS \in Nat \ {0}
  BY LogAssumption
<1>2. IsFiniteSet(1 .. MAXOPBLOCKS) /\ Cardinality(1 .. MAXOPBLOCKS) = MAXOPBLOCKS
  BY <1>1, FS_Interval
<1>3. IsFiniteSet(ops \X (1 .. MAXOPBLOCKS))
      /\ Cardinality(ops \X (1 .. MAXOPBLOCKS)) = Cardinality(ops) * MAXOPBLOCKS
  BY <1>2, FS_Product
<1>4. Room(ops, w) \in SUBSET (ops \X (1 .. MAXOPBLOCKS))
  BY DEF Room
<1>. QED
  BY <1>3, <1>4, FS_Subset, FS_CardinalityType

\* A call that ends gives its room back, the others keep theirs.
LEMMA RoomShrinks ==
  ASSUME NEW ops, IsFiniteSet(ops), NEW w, NEW ops2 \in SUBSET ops, NEW w2,
         \A p \in ops2 : w2[p] = w[p]
  PROVE  Cardinality(Room(ops2, w2)) <= Cardinality(Room(ops, w))
<1>1. Room(ops2, w2) \in SUBSET Room(ops, w)
  BY DEF Room
<1>. QED
  BY <1>1, RoomBound, FS_Subset

\* A call that writes one more block uses up one block of its room.
LEMMA RoomUsed ==
  ASSUME NEW ops, IsFiniteSet(ops), NEW w \in [Procs -> SUBSET Blocks], NEW p \in ops, ops \subseteq Procs,
         IsFiniteSet(w[p]), Cardinality(w[p]) < MAXOPBLOCKS, NEW b \in Blocks, b \notin w[p]
  PROVE  Cardinality(Room(ops, [w EXCEPT ![p] = @ \cup {b}])) = Cardinality(Room(ops, w)) - 1
<1>. DEFINE c == Cardinality(w[p])
            w2 == [w EXCEPT ![p] = @ \cup {b}]
<1>1. c \in Nat /\ Cardinality(w2[p]) = c + 1
  BY FS_AddElement, FS_CardinalityType
<1>2. <<p, c + 1>> \in Room(ops, w)
  BY <1>1, LogAssumption DEF Room
<1>3. Room(ops, w2) = Room(ops, w) \ {<<p, c + 1>>}
  <2>1. ASSUME NEW q \in ops, NEW i \in 1 .. MAXOPBLOCKS
        PROVE  i > Cardinality(w2[q]) <=> i > Cardinality(w[q]) /\ <<q, i>> # <<p, c + 1>>
    <3>1. CASE q = p
      BY <1>1, <3>1
    <3>2. CASE q # p
      BY <3>2
    <3>. QED
      BY <3>1, <3>2
  <2>2. ASSUME NEW t \in ops \X (1 .. MAXOPBLOCKS)
        PROVE  t \in Room(ops, w2) <=> t \in Room(ops, w) /\ t # <<p, c + 1>>
    <3>1. t = <<t[1], t[2]>> /\ t[1] \in ops /\ t[2] \in 1 .. MAXOPBLOCKS
      OBVIOUS
    <3>2. t \in Room(ops, w2) <=> t[2] > Cardinality(w2[t[1]])
      BY DEF Room
    <3>3. t \in Room(ops, w) <=> t[2] > Cardinality(w[t[1]])
      BY DEF Room
    <3>. QED
      BY <2>1, <3>1, <3>2, <3>3
  <2>3. Room(ops, w2) \subseteq ops \X (1 .. MAXOPBLOCKS) /\ Room(ops, w) \subseteq ops \X (1 .. MAXOPBLOCKS)
    BY DEF Room
  <2>. QED
    BY <2>2, <2>3
<1>4. IsFiniteSet(Room(ops, w))
  BY RoomBound
<1>5. ASSUME NEW S, IsFiniteSet(S), NEW x \in S PROVE Cardinality(S \ {x}) = Cardinality(S) - 1
  BY <1>5, FS_RemoveElement
<1>. HIDE DEF c, w2
<1>6. Cardinality(Room(ops, w2)) = Cardinality(Room(ops, w)) - 1
  BY <1>2, <1>3, <1>4, <1>5
<1>. QED
  BY <1>6 DEF w2

-----------------------------------------------------------------------------
(* The inductive invariant *)

\* A fresh file system, mounted, satisfies the invariant.
LEMMA InitIInv == Init => IInv
<1>. SUFFICES ASSUME Init PROVE IInv
  OBVIOUS
<1>1. NoPanic
  <2>1. LOGBLOCKS \in Nat \ {0} /\ Zero \in Vals
    BY LogAssumption
  <2>2. disk \in [Blocks -> Vals] /\ logData \in [1 .. LOGBLOCKS -> Vals] /\ cache = disk
    BY <2>1 DEF Init
  <2>3. lh \in Seq(Blocks) /\ logHead \in Seq(Blocks) /\ Len(lh) <= LOGBLOCKS /\ Len(logHead) <= LOGBLOCKS
    BY <2>1 DEF Init
  <2>4. pc \in [Procs -> {"idle", "asleep", "awake", "op", "commit"}] /\ wrote \in [Procs -> SUBSET Blocks]
    BY DEF Init
  <2>5. tail \in 1 .. LOGBLOCKS + 1 /\ outstanding \in Nat /\ pinned \in SUBSET Blocks
    BY <2>1 DEF Init
  <2>. QED
    BY <2>2, <2>3, <2>4, <2>5 DEF Init, NoPanic, TypeOK, Stages
<1>2. InOp = {} /\ Reserved = {}
  BY DEF Init, InOp, Reserved, Room
<1>3. RoomReserved
  BY <1>2, LogAssumption, FS_EmptySet DEF Init, RoomReserved
<1>4. LogAgrees
  BY DEF Init, LogAgrees, Distinct, Logged
<1>. QED
  BY <1>1, <1>3, <1>4 DEF IInv

\* A step that leaves log.lh and the calls in progress alone, or clears log.lh
\* while there are none, keeps the reservation.
LEMMA RoomKept ==
  ASSUME IInv, wrote' = wrote, outstanding' = outstanding,
         \A p \in Procs : pc'[p] = "op" <=> pc[p] = "op",
         lh' = lh \/ (lh' = <<>> /\ InOp = {}) \/ (lh' \in Seq(Blocks) /\ Len(lh') <= LOGBLOCKS /\ InOp = {}),
         committing' <=> stage' \in {"write_log", "write_head", "install", "clear", "done"},
         stage' # "up" => InOp = {}
  PROVE  RoomReserved'
<1>1. InOp' = InOp
  BY DEF InOp
<1>2. Reserved' = Reserved
  BY <1>1 DEF Reserved, Room
<1>3. Len(lh') + Cardinality(Reserved) <= LOGBLOCKS
  <2>1. CASE lh' = lh
    BY <2>1 DEF IInv, RoomReserved
  <2>2. CASE lh' # lh
    <3>1. Reserved = {}
      BY <2>2 DEF Reserved, Room
    <3>. QED
      BY <2>2, <3>1, FS_EmptySet, LogAssumption
  <2>. QED
    BY <2>1, <2>2
<1>4. \A p \in Procs : wrote'[p] \subseteq (IF pc'[p] = "op" THEN Logged(lh') ELSE {})
  BY DEF IInv, RoomReserved, InOp
<1>. QED
  BY <1>1, <1>2, <1>3, <1>4 DEF IInv, RoomReserved

\* begin_op, which waits or reserves room for one more call, keeps the invariant.
LEMMA BeginOpIInv == ASSUME IInv, NEW p \in Procs, BeginOp(p) PROVE IInv'
<1>. USE DEF IInv, NoPanic
<1>1. TypeOK'
  BY DEF BeginOp, TypeOK, diskVars
<1>2. LogAgrees'
  BY DEF BeginOp, LogAgrees, diskVars
<1>3. RoomReserved'
  <2>1. CASE MustWait
    <3>1. pc' = [pc EXCEPT ![p] = "asleep"]
      BY <2>1 DEF BeginOp, TypeOK
    <3>2. \A q \in Procs : pc'[q] = "op" <=> pc[q] = "op"
      BY <3>1 DEF BeginOp, TypeOK
    <3>. QED
      BY <2>1, <3>1, <3>2, RoomKept DEF BeginOp, RoomReserved
  <2>2. CASE ~MustWait
    <3>1. InOp' = InOp \cup {p} /\ p \notin InOp
      BY <2>2 DEF BeginOp, InOp, TypeOK
    <3>2. IsFiniteSet(InOp') /\ Cardinality(InOp') = outstanding'
      BY <2>2, <3>1, FS_AddElement DEF BeginOp, RoomReserved
    <3>3. Cardinality(Reserved') <= (outstanding + 1) * MAXOPBLOCKS /\ Cardinality(Reserved') \in Nat
      BY <2>2, <3>2, RoomBound DEF BeginOp, Reserved
    <3>4. Len(lh) + (outstanding + 1) * MAXOPBLOCKS <= LOGBLOCKS
      BY <2>2, LogAssumption DEF MustWait, TypeOK
    <3>5. Len(lh') + Cardinality(Reserved') <= LOGBLOCKS
      BY <3>3, <3>4, LogAssumption DEF BeginOp, TypeOK
    <3>6. stage = "up"
      BY <2>2 DEF BeginOp, MustWait, Running, RoomReserved, TypeOK, Stages
    <3>7. \A q \in Procs : wrote'[q] \subseteq (IF pc'[q] = "op" THEN Logged(lh') ELSE {})
      BY <2>2 DEF BeginOp, RoomReserved, TypeOK
    <3>. QED
      BY <2>2, <3>2, <3>5, <3>6, <3>7 DEF BeginOp, RoomReserved
  <2>. QED
    BY <2>1, <2>2
<1>. QED
  BY <1>1, <1>2, <1>3 DEF BeginOp

\* log_write finds room for its block, absorbed or appended.
LEMMA LogWriteIInv ==
  ASSUME OpBlocks < MAXOPBLOCKS, IInv, NEW p \in Procs, NEW b \in Blocks, NEW v \in Vals,
         LogWrite(p, b, v)
  PROVE  IInv'
<1>. USE DEF IInv, NoPanic
<1>1. p \in InOp /\ stage = "up" /\ InOp \subseteq Procs /\ InOp' = InOp
  BY DEF LogWrite, InOp, RoomReserved
<1>2. Cardinality(Reserved) \in Nat /\ Cardinality(Reserved) > 0 /\ IsFiniteSet(Reserved)
  <2>1. <<p, MAXOPBLOCKS>> \in Reserved
    <3>1. Cardinality(wrote[p]) \in Nat /\ Cardinality(wrote[p]) <= OpBlocks
      BY FS_CardinalityType DEF RoomReserved
    <3>. QED
      BY <1>1, <3>1, LogAssumption DEF Reserved, Room
  <2>2. IsFiniteSet(Reserved) /\ Cardinality(Reserved) \in Nat
    BY RoomBound DEF Reserved, RoomReserved
  <2>. QED
    BY <2>1, <2>2, FS_EmptySet
<1>3. Len(lh) < LOGBLOCKS
  BY <1>2, LogAssumption DEF RoomReserved, TypeOK
<1>4. /\ lh' = IF b \in Logged(lh) THEN lh ELSE Append(lh, b)
      /\ pinned' = pinned \cup {b} /\ panicked' = panicked
  BY <1>3, LogAssumption DEF LogWrite, TypeOK
<1>5. Logged(lh') = Logged(lh) \cup {b}
  BY <1>4, LoggedAppend DEF TypeOK
<1>6. TypeOK'
  <2>1. lh' \in Seq(Blocks) /\ Len(lh') <= LOGBLOCKS
    BY <1>3, <1>4, LogAssumption DEF TypeOK
  <2>. QED
    BY <1>4, <2>1 DEF LogWrite, TypeOK, diskVars
<1>7. RoomReserved'
  <2>1. IsFiniteSet(wrote[p]) /\ Cardinality(wrote[p]) \in Nat /\ Cardinality(wrote[p]) <= OpBlocks
    BY FS_CardinalityType DEF RoomReserved
  <2>2. IsFiniteSet(wrote[p] \cup {b}) /\ Cardinality(wrote[p] \cup {b}) <= OpBlocks
    <3>1. CASE b \in wrote[p]
      <4>1. wrote[p] \cup {b} = wrote[p]
        BY <3>1
      <4>. QED
        BY <2>1, <4>1
    <3>2. CASE b \notin wrote[p]
      <4>1. Cardinality(wrote[p]) < OpBlocks
        BY <3>2 DEF LogWrite
      <4>2. IsFiniteSet(wrote[p] \cup {b}) /\ Cardinality(wrote[p] \cup {b}) = Cardinality(wrote[p]) + 1
        BY <2>1, <3>2, FS_AddElement
      <4>. QED
        BY <2>1, <4>1, <4>2, LogAssumption
    <3>. QED
      BY <3>1, <3>2
  <2>3. \A q \in Procs : /\ IsFiniteSet(wrote'[q]) /\ Cardinality(wrote'[q]) <= OpBlocks
                         /\ wrote'[q] \subseteq (IF pc'[q] = "op" THEN Logged(lh') ELSE {})
    BY <1>5, <2>2 DEF LogWrite, RoomReserved, TypeOK
  <2>4. Len(lh') + Cardinality(Reserved') <= LOGBLOCKS
    <3>1. CASE b \in wrote[p]
      <4>1. wrote' = wrote /\ b \in Logged(lh)
        BY <3>1 DEF LogWrite, TypeOK, RoomReserved
      <4>2. Reserved' = Reserved
        BY <1>1, <4>1 DEF Reserved, Room
      <4>. QED
        BY <1>4, <4>1, <4>2 DEF RoomReserved
    <3>2. CASE b \notin wrote[p]
      <4>1. Cardinality(Reserved') = Cardinality(Reserved) - 1
        <5>1. Cardinality(wrote[p]) < MAXOPBLOCKS
          BY <2>1, LogAssumption
        <5>2. Cardinality(Room(InOp, [wrote EXCEPT ![p] = @ \cup {b}])) = Cardinality(Room(InOp, wrote)) - 1
          BY <1>1, <2>1, <3>2, <5>1, RoomUsed DEF RoomReserved, TypeOK
        <5>. QED
          BY <1>1, <5>2 DEF LogWrite, Reserved
      <4>2. Len(lh') <= Len(lh) + 1 /\ Len(lh') \in Nat /\ Len(lh) \in Nat
        BY <1>4 DEF TypeOK
      <4>3. Len(lh) + Cardinality(Reserved) <= LOGBLOCKS
        BY DEF RoomReserved
      <4>. QED
        BY <1>2, <4>1, <4>2, <4>3, LogAssumption
    <3>. QED
      BY <3>1, <3>2
  <2>. QED
    BY <1>1, <2>3, <2>4 DEF LogWrite, RoomReserved
<1>8. LogAgrees'
  <2>1. Distinct(lh')
    BY <1>4, DistinctAppend DEF LogAgrees, TypeOK
  <2>2. \A i \in 1 .. Len(lh') : lh'[i] \in pinned'
    BY <1>1, <1>4 DEF LogAgrees, TypeOK
  <2>3. \A c \in Blocks \ Logged(lh') : cache'[c] = disk'[c]
    BY <1>5 DEF LogWrite, LogAgrees, TypeOK, diskVars
  <2>. QED
    BY <1>1, <2>1, <2>2, <2>3 DEF LogWrite, LogAgrees, diskVars
<1>. QED
  BY <1>4, <1>6, <1>7, <1>8

\* end_op gives the room of its call back, and the last one out starts a commit.
LEMMA EndOpIInv == ASSUME IInv, NEW p \in Procs, EndOp(p) PROVE IInv'
<1>. USE DEF IInv, NoPanic
<1>1. /\ p \in InOp /\ stage = "up" /\ ~committing /\ panicked' = FALSE
      /\ InOp' = InOp \ {p} /\ InOp \subseteq Procs
  BY DEF EndOp, InOp, RoomReserved, Woken, TypeOK
<1>2. outstanding \in Nat /\ outstanding > 0
  BY <1>1, FS_EmptySet DEF RoomReserved, TypeOK
<1>3. IsFiniteSet(InOp') /\ Cardinality(InOp') = outstanding'
  BY <1>1, FS_RemoveElement DEF RoomReserved, EndOp
<1>4. TypeOK'
  <2>1. outstanding' \in Nat
    BY <1>2 DEF EndOp
  <2>2. pc' \in [Procs -> {"idle", "asleep", "awake", "op", "commit"}]
    BY DEF EndOp, TypeOK, Woken
  <2>. QED
    BY <1>1, <2>1, <2>2 DEF EndOp, TypeOK, Stages, diskVars
<1>5. RoomReserved'
  <2>1. Cardinality(Reserved') <= Cardinality(Reserved)
    BY <1>1, RoomShrinks DEF EndOp, Reserved, RoomReserved, TypeOK, InOp
  <2>2. Cardinality(Reserved) \in Nat /\ Cardinality(Reserved') \in Nat
    BY <1>3, RoomBound DEF Reserved, RoomReserved
  <2>3. Len(lh') + Cardinality(Reserved') <= LOGBLOCKS
    BY <2>1, <2>2, LogAssumption DEF EndOp, RoomReserved, TypeOK
  <2>4. \A q \in Procs : /\ IsFiniteSet(wrote'[q]) /\ Cardinality(wrote'[q]) <= OpBlocks
                         /\ wrote'[q] \subseteq (IF pc'[q] = "op" THEN Logged(lh') ELSE {})
    <3>1. wrote'[p] = {} /\ \A q \in Procs \ {p} : wrote'[q] = wrote[q]
      BY DEF EndOp, TypeOK
    <3>2. \A q \in Procs \ {p} : pc'[q] = "op" <=> pc[q] = "op"
      BY DEF EndOp, TypeOK, Woken
    <3>. QED
      BY <3>1, <3>2, FS_EmptySet, LogAssumption DEF EndOp, RoomReserved
  <2>5. committing' <=> stage' \in {"write_log", "write_head", "install", "clear", "done"}
    BY <1>1 DEF EndOp
  <2>6. stage' # "up" => InOp' = {}
    BY <1>1, <1>2, <1>3, FS_EmptySet DEF EndOp
  <2>. QED
    BY <1>3, <2>3, <2>4, <2>5, <2>6 DEF RoomReserved
<1>6. LogAgrees'
  <2>1. CASE stage' = "up"
    BY <1>1, <2>1 DEF EndOp, LogAgrees, diskVars
  <2>2. CASE stage' = "done"
    BY <1>1, <2>2 DEF EndOp, LogAgrees, diskVars
  <2>3. CASE stage' = "write_log"
    <3>1. Len(lh) \in Nat \ {0}
      BY <1>1, <2>3 DEF EndOp, TypeOK
    <3>. QED
      BY <1>1, <2>3, <3>1 DEF EndOp, LogAgrees, diskVars
  <2>. QED
    BY <1>1, <2>1, <2>2, <2>3 DEF EndOp
<1>. QED
  BY <1>1, <1>4, <1>5, <1>6

\* The loops over log.lh end at its length.
LEMMA AdvanceTyped ==
  ASSUME IInv, stage \in {"write_log", "install", "reinstall"}, NEW next \in Stages, Advance(next)
  PROVE  /\ tail \in 1 .. Len(lh) /\ Len(lh) <= LOGBLOCKS /\ Len(lh) \in Nat
         /\ lh[tail] \in Blocks
         /\ \/ tail = Len(lh) /\ stage' = next /\ tail' = 1
            \/ tail # Len(lh) /\ stage' = stage /\ tail' = tail + 1 /\ tail' \in 1 .. Len(lh)
         /\ stage' \in Stages /\ tail' \in 1 .. LOGBLOCKS + 1
  BY LogAssumption DEF Advance, IInv, LogAgrees, NoPanic, TypeOK

\* write_log copies the pinned buffer, as the calls left it.
LEMMA WriteLogIInv == ASSUME IInv, WriteLog PROVE IInv'
<1>. USE DEF IInv, NoPanic
<1>1. /\ tail \in 1 .. Len(lh) /\ Len(lh) <= LOGBLOCKS /\ Len(lh) \in Nat /\ lh[tail] \in Blocks
      /\ \/ tail = Len(lh) /\ stage' = "write_head" /\ tail' = 1
         \/ tail # Len(lh) /\ stage' = "write_log" /\ tail' = tail + 1 /\ tail' \in 1 .. Len(lh)
      /\ stage' \in Stages /\ tail' \in 1 .. LOGBLOCKS + 1
  BY AdvanceTyped DEF WriteLog, Stages
<1>2. logData' = [logData EXCEPT ![tail] = cache[lh[tail]]] /\ tail \in 1 .. LOGBLOCKS
  <2>1. lh[tail] \in pinned
    BY <1>1 DEF WriteLog, LogAgrees
  <2>2. Bread(lh[tail]) = {cache[lh[tail]]}
    BY <2>1 DEF Bread
  <2>3. logData' = [logData EXCEPT ![tail] = cache[lh[tail]]]
    BY <2>2 DEF WriteLog
  <2>4. tail \in 1 .. LOGBLOCKS
    BY <1>1, LogAssumption
  <2>. QED
    BY <2>3, <2>4
<1>3. TypeOK'
  BY <1>1, <1>2 DEF WriteLog, TypeOK, memVars
<1>4. RoomReserved'
  BY <1>1, RoomKept DEF WriteLog, memVars, RoomReserved
<1>5. \A i \in 1 .. Len(lh) : (i < tail' \/ stage' = "write_head") => logData'[i] = cache[lh[i]]
  BY <1>1, <1>2 DEF WriteLog, LogAgrees, TypeOK
<1>6. LogAgrees'
  BY <1>1, <1>5 DEF WriteLog, LogAgrees, memVars
<1>. QED
  BY <1>3, <1>4, <1>6 DEF WriteLog

\* write_head makes the logged copies the ones recovery takes.
LEMMA WriteHeadIInv == ASSUME IInv, WriteHead PROVE IInv'
<1>. USE DEF IInv, NoPanic
<1>1. TypeOK'
  BY DEF WriteHead, TypeOK, Stages, memVars
<1>2. RoomReserved'
  BY RoomKept DEF WriteHead, RoomReserved, memVars
<1>3. Len(lh) \in Nat \ {0}
  BY DEF WriteHead, TypeOK, LogAgrees
<1>4. LogAgrees'
  BY <1>3 DEF WriteHead, LogAgrees, memVars
<1>. QED
  BY <1>1, <1>2, <1>4 DEF WriteHead

\* install_trans brings one block home, in a commit and in recovery.
LEMMA InstallIInv == ASSUME IInv, Install PROVE IInv'
<1>. USE DEF IInv, NoPanic
<1>. DEFINE next == IF stage = "install" THEN "clear" ELSE "reclear"
<1>1. /\ tail \in 1 .. Len(lh) /\ Len(lh) <= LOGBLOCKS /\ Len(lh) \in Nat /\ lh[tail] \in Blocks
      /\ \/ tail = Len(lh) /\ stage' = next /\ tail' = 1
         \/ tail # Len(lh) /\ stage' = stage /\ tail' = tail + 1 /\ tail' \in 1 .. Len(lh)
      /\ stage' \in Stages /\ tail' \in 1 .. LOGBLOCKS + 1
  BY AdvanceTyped DEF Install, Stages
<1>2. tail \in 1 .. LOGBLOCKS /\ logData[tail] \in Vals
  BY <1>1, LogAssumption DEF TypeOK
<1>3. TypeOK'
  BY <1>1, <1>2 DEF Install, TypeOK
<1>4. RoomReserved'
  <2>1. committing' <=> stage' \in {"write_log", "write_head", "install", "clear", "done"}
    BY <1>1 DEF Install, RoomReserved
  <2>. QED
    BY <1>1, <2>1, RoomKept DEF Install, RoomReserved
<1>5. \A b \in Blocks : /\ b # lh[tail] => disk'[b] = disk[b] /\ cache'[b] = cache[b]
                        /\ disk'[lh[tail]] = logData[tail] /\ cache'[lh[tail]] = logData[tail]
  BY <1>1 DEF Install, TypeOK
<1>6. \A i \in 1 .. Len(lh) : lh[i] \in Blocks /\ (i # tail => lh[i] # lh[tail])
  BY <1>1 DEF LogAgrees, Distinct, TypeOK
<1>7. CASE stage = "install"
  <2>1. cache' = cache
    BY <1>1, <1>7 DEF Install, LogAgrees, TypeOK
  <2>2. \A i \in 1 .. Len(lh) : i < tail' \/ stage' = "clear" => disk'[lh[i]] = logData[i]
    BY <1>1, <1>5, <1>6, <1>7 DEF LogAgrees
  <2>3. \A i \in 1 .. Len(lh) : stage' = "install" /\ i >= tail' => lh[i] \in pinned'
    BY <1>1, <1>6, <1>7 DEF Install, LogAgrees
  <2>4. \A b \in Blocks \ Logged(lh) : cache'[b] = disk'[b]
    BY <1>1, <1>5 DEF LogAgrees, Logged
  <2>5. LogAgrees'
    BY <1>1, <1>7, <2>1, <2>2, <2>3, <2>4 DEF Install, LogAgrees
  <2>. QED
    BY <1>3, <1>4, <2>5 DEF Install
<1>8. CASE stage = "reinstall"
  <2>1. cache' = disk'
    BY <1>8 DEF Install, LogAgrees
  <2>2. \A i \in 1 .. Len(lh) : i < tail' \/ stage' = "reclear" => disk'[lh[i]] = logData[i]
    BY <1>1, <1>5, <1>6, <1>8 DEF LogAgrees
  <2>3. LogAgrees'
    BY <1>1, <1>8, <2>1, <2>2 DEF Install, LogAgrees
  <2>. QED
    BY <1>3, <1>4, <2>3 DEF Install
<1>. QED
  BY <1>7, <1>8 DEF Install

\* Clearing the header forgets a transaction that is home.
LEMMA ClearHeadIInv == ASSUME IInv, ClearHead PROVE IInv'
<1>. USE DEF IInv, NoPanic
<1>1. TypeOK'
  BY LogAssumption DEF ClearHead, TypeOK, Stages
<1>2. RoomReserved'
  <2>1. committing' <=> stage' \in {"write_log", "write_head", "install", "clear", "done"}
    BY DEF ClearHead, RoomReserved
  <2>. QED
    BY <2>1, RoomKept DEF ClearHead, RoomReserved
<1>3. \A b \in Blocks : cache[b] = disk[b]
  <2>1. ASSUME NEW b \in Logged(lh) PROVE cache[b] = disk[b]
    BY DEF ClearHead, LogAgrees, Logged
  <2>. QED
    BY <2>1 DEF LogAgrees
<1>4. LogAgrees'
  BY <1>3, LoggedEmpty DEF ClearHead, LogAgrees, Distinct
<1>. QED
  BY <1>1, <1>2, <1>4 DEF ClearHead

\* After a crash recovery finds the header as it is on disk.
LEMMA ReadHeadIInv == ASSUME IInv, ReadHead PROVE IInv'
<1>. USE DEF IInv, NoPanic
<1>1. TypeOK'
  BY DEF ReadHead, TypeOK, Stages, diskVars
<1>2. RoomReserved'
  <2>1. committing' <=> stage' \in {"write_log", "write_head", "install", "clear", "done"}
    BY DEF ReadHead, RoomReserved
  <2>. QED
    BY <2>1, RoomKept DEF ReadHead, RoomReserved, TypeOK
<1>3. logHead # <<>> => Len(logHead) \in Nat \ {0}
  BY DEF TypeOK
<1>4. LogAgrees'
  BY <1>3 DEF ReadHead, LogAgrees, diskVars
<1>. QED
  BY <1>1, <1>2, <1>4 DEF ReadHead

\* The end of a commit lets new calls in.
LEMMA CommitDoneIInv == ASSUME IInv, NEW p \in Procs, CommitDone(p) PROVE IInv'
<1>. USE DEF IInv, NoPanic
<1>1. TypeOK'
  BY DEF CommitDone, TypeOK, Stages, Woken, diskVars
<1>2. RoomReserved'
  <2>1. \A q \in Procs : pc'[q] = "op" <=> pc[q] = "op"
    BY DEF CommitDone, Woken, TypeOK
  <2>. QED
    BY <2>1, RoomKept DEF CommitDone, RoomReserved
<1>3. LogAgrees'
  BY DEF CommitDone, LogAgrees, diskVars
<1>. QED
  BY <1>1, <1>2, <1>3 DEF CommitDone

\* A crash loses the memory and nothing else.
LEMMA CrashIInv == ASSUME IInv, Crash PROVE IInv'
<1>. USE DEF IInv, NoPanic
<1>1. TypeOK'
  <2>1. tail' \in 1 .. LOGBLOCKS + 1 /\ lh' \in Seq(Blocks) /\ Len(lh') <= LOGBLOCKS
    BY LogAssumption DEF Crash
  <2>2. pc' \in [Procs -> {"idle", "asleep", "awake", "op", "commit"}] /\ wrote' \in [Procs -> SUBSET Blocks]
    BY DEF Crash
  <2>3. cache' \in [Blocks -> Vals] /\ outstanding' \in Nat
    BY DEF Crash, TypeOK
  <2>. QED
    BY <2>1, <2>2, <2>3 DEF Crash, TypeOK, Stages, diskVars
<1>2. InOp' = {} /\ Reserved' = {}
  BY DEF Crash, InOp, Reserved, Room
<1>3. RoomReserved'
  BY <1>2, FS_EmptySet, LogAssumption DEF Crash, RoomReserved
<1>4. LogAgrees'
  BY LoggedEmpty DEF Crash, LogAgrees, Distinct, diskVars
<1>. QED
  BY <1>1, <1>3, <1>4 DEF Crash

\* Every step of the system calls, the commit, the crash and the recovery keeps
\* the invariant, if a call writes fewer blocks than it reserves.
LEMMA NextIInv == ASSUME OpBlocks < MAXOPBLOCKS, IInv, [Next]_vars PROVE IInv'
<1>1. CASE UNCHANGED vars
  <2>1. InOp' = InOp /\ Reserved' = Reserved
    BY <1>1 DEF vars, runVars, InOp, Reserved, Room
  <2>. QED
    BY <1>1, <2>1 DEF vars, runVars, memVars, diskVars, IInv, NoPanic, TypeOK, RoomReserved, LogAgrees
<1>. QED
  BY <1>1, BeginOpIInv, EndOpIInv, LogWriteIInv, WriteLogIInv, WriteHeadIInv, InstallIInv,
     ClearHeadIInv, ReadHeadIInv, CommitDoneIInv, CrashIInv DEF Next, CommitStep

\* The inductive invariant of the log holds throughout.
THEOREM IInvHolds == ASSUME OpBlocks < MAXOPBLOCKS PROVE Spec => []IInv
<1>1. IInv /\ [Next]_vars => IInv'
  BY NextIInv
<1>. QED
  BY InitIInv, <1>1, PTL DEF Spec

\* begin_op reserves enough: no overlap of system calls that write fewer than
\* MAXOPBLOCKS blocks each, however they rewrite logged blocks, makes log_write
\* or end_op panic.
THEOREM NeverPanics == ASSUME OpBlocks < MAXOPBLOCKS PROVE Spec => []NoPanic
<1>1. IInv => NoPanic
  BY DEF IInv
<1>. QED
  BY <1>1, IInvHolds, PTL

-----------------------------------------------------------------------------
(* The refinement *)

\* Outside of recovery the calls work on the cache.
LEMMA MemIs ==
  ASSUME IInv
  PROVE  Mem = IF stage \in {"read_head", "reinstall", "reclear"} THEN Recovered ELSE cache
  BY DEF Mem, Running, IInv, NoPanic

\* Before the header is written a crash comes back to the disk.
LEMMA RecoveredBefore == ASSUME IInv, logHead = <<>> PROVE Recovered = disk
  BY RecoveredEmpty DEF Recovered, IInv, NoPanic, TypeOK

\* From the header write until it is cleared a crash comes back to the cache.
LEMMA RecoveredAfter == ASSUME IInv, stage \in {"install", "clear", "reclear"} PROVE Recovered = cache
<1>. USE DEF IInv, NoPanic
<1>1. logHead = lh /\ lh \in Seq(Blocks) /\ Distinct(lh) /\ cache \in [Blocks -> Vals] /\ disk \in [Blocks -> Vals]
  BY DEF LogAgrees, TypeOK
<1>2. \A i \in 1 .. Len(lh) : cache[lh[i]] = logData[i]
  BY DEF LogAgrees
<1>3. \A b \in Blocks \ Logged(lh) : cache[b] = disk[b]
  BY DEF LogAgrees
<1>. QED
  BY <1>1, <1>2, <1>3, RecoveredIs DEF Recovered

\* Every step is a step of the atomic disk or changes nothing the calls or a
\* crash could see.
LEMMA NextRefines ==
  ASSUME IInv, IInv', [Next]_vars
  PROVE  Abstract!ANext \/ UNCHANGED <<Mem, Recovered, InOp>>
<1>. DEFINE Goal == Abstract!ANext \/ UNCHANGED <<Mem, Recovered, InOp>>
<1>0. Mem' = IF stage' \in {"read_head", "reinstall", "reclear"} THEN Recovered' ELSE cache'
  BY DEF Mem, Running, IInv, NoPanic
<1>1. ASSUME NEW p \in Procs, BeginOp(p) PROVE Goal
  <2>1. Recovered' = Recovered /\ Mem' = Mem
    BY <1>0, <1>1, MemIs DEF BeginOp, Recovered, diskVars
  <2>2. CASE MustWait
    <3>1. InOp' = InOp
      BY <1>1, <2>2 DEF BeginOp, InOp, IInv, NoPanic, TypeOK
    <3>. QED
      BY <2>1, <3>1
  <2>3. CASE ~MustWait
    <3>1. InOp' = InOp \cup {p} /\ p \notin InOp
      BY <1>1, <2>3 DEF BeginOp, InOp, IInv, NoPanic, TypeOK
    <3>2. Abstract!Begin(p)
      BY <2>1, <3>1 DEF Abstract!Begin
    <3>. QED
      BY <3>2 DEF Abstract!ANext
  <2>. QED
    BY <2>2, <2>3
<1>2. ASSUME NEW p \in Procs, EndOp(p) PROVE Goal
  <2>1. Recovered' = Recovered
    BY <1>2 DEF EndOp, Recovered, diskVars
  <2>2. Mem' = Mem
    BY <1>0, <1>2, MemIs DEF EndOp, Running
  <2>3. InOp' = InOp \ {p} /\ p \in InOp
    BY <1>2 DEF EndOp, Woken, InOp, IInv, NoPanic, TypeOK
  <2>4. Abstract!End(p)
    BY <2>1, <2>2, <2>3 DEF Abstract!End
  <2>. QED
    BY <2>4 DEF Abstract!ANext
<1>3. ASSUME NEW p \in Procs, NEW b \in Blocks, NEW v \in Vals, LogWrite(p, b, v) PROVE Goal
  <2>1. Recovered' = Recovered
    BY <1>3 DEF LogWrite, Recovered, diskVars
  <2>2. Mem' = [Mem EXCEPT ![b] = v]
    BY <1>0, <1>3, MemIs DEF LogWrite, Running
  <2>3. InOp' = InOp /\ p \in InOp
    BY <1>3 DEF LogWrite, InOp
  <2>4. Abstract!Write(p, b, v)
    BY <2>1, <2>2, <2>3 DEF Abstract!Write
  <2>. QED
    BY <2>4 DEF Abstract!ANext
<1>4. CASE WriteLog
  <2>1. logHead = <<>> /\ logHead' = <<>> /\ disk' = disk
    BY <1>4 DEF WriteLog, IInv, LogAgrees
  <2>2. Recovered' = Recovered
    BY <2>1, RecoveredEmpty DEF Recovered, IInv, NoPanic, TypeOK
  <2>3. stage' \in {"write_log", "write_head"} /\ cache' = cache /\ InOp' = InOp
    BY <1>4 DEF WriteLog, Advance, memVars, InOp
  <2>. QED
    BY <1>0, <1>4, <2>2, <2>3, MemIs DEF WriteLog
<1>5. CASE WriteHead
  <2>1. InOp = {} /\ InOp' = InOp /\ cache' = cache
    BY <1>5 DEF WriteHead, InOp, memVars, IInv, RoomReserved
  <2>2. Recovered' = cache
    <3>1. logHead' = lh /\ lh \in Seq(Blocks) /\ Distinct(lh) /\ cache \in [Blocks -> Vals]
          /\ disk \in [Blocks -> Vals] /\ disk' = disk /\ logData' = logData
      BY <1>5 DEF WriteHead, IInv, NoPanic, LogAgrees, TypeOK
    <3>2. \A i \in 1 .. Len(lh) : cache[lh[i]] = logData[i]
      BY <1>5 DEF WriteHead, IInv, LogAgrees
    <3>3. \A b \in Blocks \ Logged(lh) : cache[b] = disk[b]
      BY DEF IInv, LogAgrees
    <3>. QED
      BY <3>1, <3>2, <3>3, RecoveredIs DEF Recovered
  <2>3. Mem = cache /\ Mem' = cache
    BY <1>0, <1>5, <2>1, MemIs DEF WriteHead
  <2>4. Abstract!Commit
    BY <2>1, <2>2, <2>3 DEF Abstract!Commit
  <2>. QED
    BY <2>4 DEF Abstract!ANext
<1>6. CASE Install
  <2>1. logHead = lh /\ tail \in 1 .. Len(lh) /\ lh \in Seq(Blocks) /\ disk \in [Blocks -> Vals]
    BY <1>6 DEF Install, IInv, NoPanic, LogAgrees, TypeOK
  <2>2. Recovered' = Recovered /\ InOp' = InOp
    <3>1. /\ disk' = [disk EXCEPT ![logHead[tail]] = logData[tail]]
          /\ logHead' = logHead /\ logData' = logData /\ pc' = pc
      BY <1>6, <2>1 DEF Install
    <3>2. RecoveredFrom(logHead, logData, disk') = RecoveredFrom(logHead, logData, disk)
      <4>1. \A b \in Blocks \ Logged(logHead) : disk'[b] = disk[b]
        BY <2>1, <3>1 DEF Logged
      <4>. QED
        BY <4>1, RecoveredInstall
    <3>. QED
      BY <3>1, <3>2 DEF Recovered, InOp
  <2>3. CASE stage = "install"
    <3>1. cache' = cache
      BY <1>6, <2>1, <2>3 DEF Install, IInv, NoPanic, LogAgrees, TypeOK
    <3>2. stage' \in {"install", "clear"}
      BY <1>6, <2>3 DEF Install, Advance
    <3>. QED
      BY <1>0, <2>2, <2>3, <3>1, <3>2, MemIs
  <2>4. CASE stage = "reinstall"
    <3>1. stage' \in {"reinstall", "reclear"}
      BY <1>6, <2>4 DEF Install, Advance
    <3>. QED
      BY <1>0, <2>2, <2>4, <3>1, MemIs
  <2>. QED
    BY <1>6, <2>3, <2>4 DEF Install
<1>7. CASE ClearHead
  <2>1. Recovered = cache /\ Mem = cache
    BY <1>7, MemIs, RecoveredAfter DEF ClearHead
  <2>2. \A b \in Blocks : cache[b] = disk[b]
    <3>1. ASSUME NEW b \in Logged(lh) PROVE cache[b] = disk[b]
      BY <1>7 DEF ClearHead, IInv, LogAgrees, Logged
    <3>. QED
      BY <3>1 DEF IInv, LogAgrees
  <2>3. cache = disk
    BY <2>2 DEF IInv, NoPanic, TypeOK
  <2>4. Recovered' = disk
    <3>1. disk \in [Blocks -> Vals] /\ disk' = disk /\ logHead' = <<>>
      BY <1>7 DEF ClearHead, IInv, NoPanic, TypeOK
    <3>. QED
      BY <3>1, RecoveredEmpty DEF Recovered
  <2>5. Mem' = cache /\ InOp' = InOp
    BY <1>0, <1>7 DEF ClearHead, InOp
  <2>. QED
    BY <2>1, <2>3, <2>4, <2>5
<1>8. CASE ReadHead
  <2>1. Recovered' = Recovered /\ InOp' = InOp
    BY <1>8 DEF ReadHead, Recovered, diskVars, InOp
  <2>2. stage' \in {"reinstall", "reclear"} /\ stage = "read_head"
    BY <1>8 DEF ReadHead
  <2>. QED
    BY <1>0, <2>1, <2>2, MemIs
<1>9. ASSUME NEW p \in Procs, CommitDone(p) PROVE Goal
  <2>1. Recovered' = Recovered
    BY <1>9 DEF CommitDone, Recovered, diskVars
  <2>2. InOp' = InOp
    BY <1>9 DEF CommitDone, Woken, InOp, IInv, NoPanic, TypeOK
  <2>3. Mem' = Mem
    BY <1>0, <1>9, MemIs DEF CommitDone
  <2>. QED
    BY <2>1, <2>2, <2>3
<1>10. CASE Crash
  <2>1. Recovered' = Recovered
    BY <1>10 DEF Crash, Recovered, diskVars
  <2>2. Mem' = Recovered /\ InOp' = {}
    BY <1>0, <1>10, <2>1 DEF Crash, InOp
  <2>3. Abstract!Crash
    BY <2>1, <2>2 DEF Abstract!Crash
  <2>. QED
    BY <2>3 DEF Abstract!ANext
<1>11. CASE UNCHANGED vars
  BY <1>11 DEF vars, diskVars, memVars, runVars, Mem, Running, Recovered, InOp
<1>. QED
  BY <1>1, <1>2, <1>3, <1>4, <1>5, <1>6, <1>7, <1>8, <1>9, <1>10, <1>11 DEF Next, CommitStep

\* Log and disk implement the atomic disk: whatever the machine was doing when
\* it crashed, recovery comes back to a state between two groups of whole system
\* calls, and a crash during recovery changes nothing about that.
THEOREM CrashAtomic == ASSUME OpBlocks < MAXOPBLOCKS PROVE Spec => ImplementsAtomicDisk
<1>1. Init => Abstract!AInit
  <2>. SUFFICES ASSUME Init PROVE Abstract!AInit
    OBVIOUS
  <2>1. IInv
    BY InitIInv
  <2>2. Recovered = [b \in Blocks |-> Zero]
    BY <2>1, RecoveredBefore DEF Init
  <2>3. Mem = [b \in Blocks |-> Zero]
    BY <2>1, MemIs DEF Init
  <2>4. InOp = {}
    BY DEF Init, InOp
  <2>. QED
    BY <2>2, <2>3, <2>4, LogAssumption DEF Abstract!AInit
<1>2. IInv /\ IInv' /\ [Next]_vars => [Abstract!ANext]_(Abstract!avars)
  BY NextRefines DEF Abstract!avars
<1>. QED
  BY <1>1, <1>2, IInvHolds, PTL DEF Spec, ImplementsAtomicDisk, Abstract!ASpec
=============================================================================
