------------------------------ MODULE FsProofs ------------------------------
(***************************************************************************)
(* Proofs about inodes, directories and block allocation, from the         *)
(* invariant of FsInv: Inv always, and Kept, of names and links, until a   *)
(* call goes astray in a removed directory (in the run fs_dotdot it panics)*)
(***************************************************************************)
EXTENDS FsInv, FiniteSetTheorems, SequenceTheorems, WellFoundedInduction, TLAPS

----
(* Abbreviations *)

\* Tokens, Holds, Firm, Uses and Apart of a process as it is
RefsBy(p, i) == Tokens(cwd[p], fd[p], k[p], i)
HeldBy(p, i) == Holds(cwd[p], fd[p], k[p], i)
FirmBy(p, i) == Firm(cwd[p], fd[p], k[p], i)
UsedBy(p, i) == Uses(cwd[p], fd[p], k[p], i)
NotBy(p, i)  == Apart(cwd[p], fd[p], k[p], i)

\* p held i and its copy was valid, or is after the step
FirmNow(p, i) == FirmBy(p, i) \/ core'[i].valid \/ i = Root
Known(p, i)   == HeldBy(p, i) /\ FirmNow(p, i)

\* blocks and bitmap, and names and links, as DiskOK and NlinksOK have them
Owned(dn, us) == /\ us = {dn[j].addr : j \in Inums} \ {None}
                 /\ \A j, l \in Inums : j # l /\ dn[j].addr = dn[l].addr => dn[j].addr = None
NameCount(dn, en, i) == Cardinality(NamesOf(dn, en, i))
Counted(dn, en, K, i) == dn[i].nlink >= NameCount(dn, en, i) + Cardinality(Linking(K, i)) + Has(i, Root)
USE DEF RefsBy, HeldBy, FirmBy, UsedBy, NotBy, FirmNow, Known, Owned, NameCount, Counted

----
(* Counting references *)

\* Has is a bit.
LEMMA HasIs == ASSUME NEW x, NEW i PROVE Has(x, i) \in 0 .. 1 /\ Has(x, i) \in Nat BY DEF Has

\* The references of finitely many processes are finitely many.
LEMMA SlotsFinite == ASSUME NEW P, IsFiniteSet(P), NEW g, NEW m \in Nat, NEW i
  PROVE IsFiniteSet(Slots(P, g, m, i)) /\ Cardinality(Slots(P, g, m, i)) \in Nat
<1>1. IsFiniteSet(1 .. m) BY FS_Interval
<1>2. IsFiniteSet(P \X (1 .. m)) BY <1>1, FS_Product
<1>3. Slots(P, g, m, i) \in SUBSET (P \X (1 .. m)) BY DEF Slots
<1>. QED BY <1>2, <1>3, FS_Subset, FS_CardinalityType

\* A process has as many references to an inode as places that hold it.
LEMMA SlotsSeven == ASSUME NEW p, NEW g, NEW i PROVE Cardinality(Slots({p}, g, 7, i)) =
           Has(g[p][1], i) + Has(g[p][2], i) + Has(g[p][3], i) + Has(g[p][4], i)
             + Has(g[p][5], i) + Has(g[p][6], i) + Has(g[p][7], i)
<1>. DEFINE C(m) == Cardinality(Slots({p}, g, m, i))
<1>0. C(0) = 0
  <2>1. 1 .. 0 = {} OBVIOUS
  <2>2. Slots({p}, g, 0, i) = {} BY <2>1 DEF Slots
  <2>. QED BY <2>2, FS_EmptySet
<1>s. ASSUME NEW m \in Nat, NEW n \in Nat, n = m + 1
      PROVE Cardinality(Slots({p}, g, n, i)) = Cardinality(Slots({p}, g, m, i)) + Has(g[p][n], i)
  <2>. DEFINE S == Slots({p}, g, m, i)
  <2>1. IsFiniteSet({p}) BY FS_Singleton
  <2>2. IsFiniteSet(S) /\ Cardinality(S) \in Nat BY <2>1, SlotsFinite
  <2>3. <<p, n>> \notin S BY <1>s DEF Slots
  <2>4. CASE g[p][n] = i
    <3>1. Slots({p}, g, n, i) = S \cup {<<p, n>>}
      <4>1. ASSUME NEW h \in {p} \X (1 .. n), g[h[1]][h[2]] = i PROVE h \in S \cup {<<p, n>>}
        <5>1. h[1] = p /\ h[2] \in 1 .. n /\ h = <<p, h[2]>> OBVIOUS
        <5>2. h[2] \in 1 .. m \/ h[2] = n BY <5>1, <1>s
        <5>. QED BY <5>1, <5>2, <4>1 DEF Slots
      <4>2. S \subseteq Slots({p}, g, n, i)
        <5>1. 1 .. m \subseteq 1 .. n BY <1>s
        <5>. QED BY <5>1 DEF Slots
      <4>3. <<p, n>> \in Slots({p}, g, n, i)
        <5>1. n \in 1 .. n BY <1>s
        <5>. QED BY <5>1, <2>4 DEF Slots
      <4>. QED BY <4>1, <4>2, <4>3 DEF Slots
    <3>2. Cardinality(S \cup {<<p, n>>}) = Cardinality(S) + 1
      <4>. HIDE DEF S
      <4>. QED BY <2>2, <2>3, FS_AddElement
    <3>3. Has(g[p][n], i) = 1 BY <2>4 DEF Has
    <3>. QED BY <3>1, <3>2, <3>3
  <2>5. CASE g[p][n] # i
    <3>1. Slots({p}, g, n, i) = S
      <4>1. ASSUME NEW h \in {p} \X (1 .. n), g[h[1]][h[2]] = i PROVE h \in S
        <5>1. h[1] = p /\ h[2] \in 1 .. n /\ h = <<p, h[2]>> OBVIOUS
        <5>2. h[2] # n BY <5>1, <4>1, <2>5
        <5>3. h[2] \in 1 .. m BY <5>1, <5>2, <1>s
        <5>. QED BY <5>1, <5>3, <4>1 DEF Slots
      <4>2. S \subseteq Slots({p}, g, n, i)
        <5>1. 1 .. m \subseteq 1 .. n BY <1>s
        <5>. QED BY <5>1 DEF Slots
      <4>. QED BY <4>1, <4>2 DEF Slots
    <3>. QED BY <3>1, <2>2, <2>5 DEF Has
  <2>. QED BY <2>4, <2>5
<1>t. \A m \in Nat : \A n \in Nat : n = m + 1 => C(n) = C(m) + Has(g[p][n], i) BY <1>s
<1>. HIDE DEF C
<1>a. C(1) = C(0) + Has(g[p][1], i) BY <1>t
<1>b. C(2) = C(1) + Has(g[p][2], i) BY <1>t
<1>c. C(3) = C(2) + Has(g[p][3], i) BY <1>t
<1>d. C(4) = C(3) + Has(g[p][4], i) BY <1>t
<1>e. C(5) = C(4) + Has(g[p][5], i) BY <1>t
<1>f. C(6) = C(5) + Has(g[p][6], i) BY <1>t
<1>g. C(7) = C(6) + Has(g[p][7], i) BY <1>t
<1>h. /\ Has(g[p][1], i) \in Nat /\ Has(g[p][2], i) \in Nat /\ Has(g[p][3], i) \in Nat
      /\ Has(g[p][4], i) \in Nat /\ Has(g[p][5], i) \in Nat /\ Has(g[p][6], i) \in Nat /\ Has(g[p][7], i) \in Nat
  BY HasIs
<1>i. C(7) = Has(g[p][1], i) + Has(g[p][2], i) + Has(g[p][3], i) + Has(g[p][4], i)
             + Has(g[p][5], i) + Has(g[p][6], i) + Has(g[p][7], i)
  BY <1>0, <1>a, <1>b, <1>c, <1>d, <1>e, <1>f, <1>g, <1>h
<1>. QED BY <1>i DEF C

\* The references are those of one process and those of the others.
LEMMA SlotsSplit == ASSUME NEW P, IsFiniteSet(P), NEW p \in P, NEW g, NEW i
  PROVE  /\ Cardinality(Slots(P, g, 7, i)) =
              Cardinality(Slots(P \ {p}, g, 7, i)) + Cardinality(Slots({p}, g, 7, i))
         /\ Cardinality(Slots(P \ {p}, g, 7, i)) \in Nat /\ Cardinality(Slots({p}, g, 7, i)) \in Nat
<1>. DEFINE S == Slots(P \ {p}, g, 7, i)
            T == Slots({p}, g, 7, i)
<1>1. IsFiniteSet({p}) /\ IsFiniteSet(P \ {p}) BY FS_Singleton, FS_RemoveElement
<1>2. 7 \in Nat OBVIOUS
<1>3. IsFiniteSet(S) /\ Cardinality(S) \in Nat /\ IsFiniteSet(T) /\ Cardinality(T) \in Nat BY <1>1, <1>2, SlotsFinite
<1>4. Slots(P, g, 7, i) = S \cup T BY DEF Slots
<1>5. S \cap T = {} BY DEF Slots
<1>6. Cardinality(S \cup T) = Cardinality(S) + Cardinality(T) - Cardinality(S \cap T) BY <1>3, FS_Union, Zenon
<1>7. Cardinality(S \cap T) = 0 BY <1>5, FS_EmptySet
<1>8. Cardinality(S \cup T) = Cardinality(S) + Cardinality(T)
  <2>1. PICK a \in Nat, b \in Nat : a = Cardinality(S) /\ b = Cardinality(T) BY <1>3
  <2>2. a + b - 0 = a + b BY <2>1
  <2>. QED BY <2>1, <2>2, <1>6, <1>7, Zenon
<1>. QED BY <1>3, <1>4, <1>8, Zenon

\* Holders counts the references of the current state, and of the next one.
LEMMA HoldersIs == ASSUME NEW i PROVE Holders(i) = Count(cwd, fd, k, i) /\ Holders(i)' = Count(cwd', fd', k', i)
  BY DEF Holders, Count, Held, Put, Refs

\* Count in terms of one process and the others.
LEMMA CountSplit == ASSUME NEW W, NEW F, NEW K, NEW p \in Procs, NEW i
  PROVE  /\ Count(W, F, K, i) = Rest(W, F, K, p, i) + Tokens(W[p], F[p], K[p], i) /\ Rest(W, F, K, p, i) \in Nat
         /\ Tokens(W[p], F[p], K[p], i) \in Nat
<1>. DEFINE g == Grid(W, F, K)
<1>1. Count(W, F, K, i) = Cardinality(Slots(Procs, g, 7, i))
  <2>1. {h \in Procs \X (1 .. 7) : Refs(W[h[1]], F[h[1]], K[h[1]])[h[2]] = i} = Slots(Procs, g, 7, i) BY DEF Slots, Grid
  <2>. QED BY <2>1, Zenon DEF Count
<1>2. Cardinality(Slots({p}, g, 7, i)) =
           Has(g[p][1], i) + Has(g[p][2], i) + Has(g[p][3], i) + Has(g[p][4], i)
             + Has(g[p][5], i) + Has(g[p][6], i) + Has(g[p][7], i) BY SlotsSeven, Zenon
<1>3. g[p] = Refs(W[p], F[p], K[p]) BY DEF Grid
<1>4. Cardinality(Slots({p}, g, 7, i)) = Tokens(W[p], F[p], K[p], i) BY <1>2, <1>3 DEF Refs, Tokens
<1>5. IsFiniteSet(Procs) BY FsAssumption
<1>. HIDE DEF g
<1>6. /\ Cardinality(Slots(Procs, g, 7, i)) =
           Cardinality(Slots(Procs \ {p}, g, 7, i)) + Cardinality(Slots({p}, g, 7, i))
      /\ Cardinality(Slots(Procs \ {p}, g, 7, i)) \in Nat /\ Cardinality(Slots({p}, g, 7, i)) \in Nat
  BY <1>5, SlotsSplit
<1>7. /\ Count(W, F, K, i) = Cardinality(Slots(Procs \ {p}, g, 7, i)) + Tokens(W[p], F[p], K[p], i)
      /\ Tokens(W[p], F[p], K[p], i) \in Nat BY <1>1, <1>4, <1>6, Zenon
<1>. QED BY <1>6, <1>7 DEF g, Rest

\* The references of a process change by what it takes and what it gives back.
LEMMA CountStep ==
  ASSUME NEW p \in Procs, NEW i,
         \A q \in Procs \ {p} : cwd'[q] = cwd[q] /\ fd'[q] = fd[q] /\ k'[q] = k[q]
  PROVE Count(cwd', fd', k', i) + RefsBy(p, i) = Count(cwd, fd, k, i) + Tokens(cwd'[p], fd'[p], k'[p], i)
<1>. DEFINE n == Rest(cwd, fd, k, p, i)
            m == Rest(cwd', fd', k', p, i)
<1>1. m = n
  <2>. DEFINE g == Grid(cwd, fd, k)
              h == Grid(cwd', fd', k')
  <2>1. \A q \in Procs \ {p} : h[q] = g[q] BY DEF Grid
  <2>2. Slots(Procs \ {p}, h, 7, i) = Slots(Procs \ {p}, g, 7, i)
    <3>. HIDE DEF h, g
    <3>. QED BY <2>1 DEF Slots
  <2>. QED BY <2>2, Zenon DEF Rest
<1>2. /\ Count(cwd, fd, k, i) = Rest(cwd, fd, k, p, i) + RefsBy(p, i)
      /\ Rest(cwd, fd, k, p, i) \in Nat /\ RefsBy(p, i) \in Nat BY CountSplit
<1>3. /\ Count(cwd', fd', k', i) = Rest(cwd', fd', k', p, i) + Tokens(cwd'[p], fd'[p], k'[p], i)
      /\ Rest(cwd', fd', k', p, i) \in Nat /\ Tokens(cwd'[p], fd'[p], k'[p], i) \in Nat BY CountSplit
<1>. QED BY <1>1, <1>2, <1>3

\* A process whose references are all there are leaves none to the others.
LEMMA CountSole == ASSUME NEW W, NEW F, NEW K, NEW p \in Procs, NEW i
  PROVE Count(W, F, K, i) <= Tokens(W[p], F[p], K[p], i) => \A q \in Procs \ {p} : Apart(W[q], F[q], K[q], i)
<1>. DEFINE g == Grid(W, F, K)
            S == Slots(Procs \ {p}, g, 7, i)
            n == Rest(W, F, K, p, i)
<1>1. /\ Count(W, F, K, i) = Rest(W, F, K, p, i) + Tokens(W[p], F[p], K[p], i) /\ Rest(W, F, K, p, i) \in Nat
      /\ Tokens(W[p], F[p], K[p], i) \in Nat BY CountSplit
<1>0. HAVE Count(W, F, K, i) <= Tokens(W[p], F[p], K[p], i)
<1>2. n = 0 BY <1>0, <1>1
<1>3. IsFiniteSet(S)
  <2>1. IsFiniteSet(Procs \ {p}) /\ 7 \in Nat BY FsAssumption, FS_RemoveElement
  <2>. QED BY <2>1, SlotsFinite
<1>4. S = {}
  <2>1. Cardinality(S) = 0 BY <1>2, Zenon DEF Rest
  <2>. HIDE DEF S
  <2>. QED BY <2>1, <1>3, FS_EmptySet
<1>5. TAKE q \in Procs \ {p}
<1>6. ASSUME NEW s \in 1 .. 7 PROVE g[q][s] # i
  <2>. HIDE DEF g
  <2>1. g[q][s] = i => <<q, s>> \in S BY DEF Slots
  <2>. QED BY <2>1, <1>4
<1>7. g[q] = Refs(W[q], F[q], K[q]) BY DEF Grid
<1>8. \A s \in 1 .. 7 : Refs(W[q], F[q], K[q])[s] # i BY <1>6, <1>7
<1>. QED BY <1>8 DEF Refs, Apart

\* What a process holds is counted.
LEMMA CountMine == ASSUME NEW W, NEW F, NEW K, NEW p \in Procs, NEW i
  PROVE  /\ Tokens(W[p], F[p], K[p], i) <= Count(W, F, K, i)
         /\ Tokens(W[p], F[p], K[p], i) \in Nat /\ Count(W, F, K, i) \in Nat
<1>. DEFINE g == Grid(W, F, K)
            n == Rest(W, F, K, p, i)
<1>1. /\ Count(W, F, K, i) = Rest(W, F, K, p, i) + Tokens(W[p], F[p], K[p], i) /\ Rest(W, F, K, p, i) \in Nat
      /\ Tokens(W[p], F[p], K[p], i) \in Nat BY CountSplit
<1>. QED BY <1>1

\* A process without tokens of an inode has no reference to it, and conversely.
LEMMA TokensZero == ASSUME NEW w, NEW f, NEW c, NEW i \in Inums
  PROVE  /\ Tokens(w, f, c, i) \in Nat
         /\ Tokens(w, f, c, i) = 0 <=> Apart(w, f, c, i)
<1>. DEFINE a == IF 1 \in DOMAIN c.puts THEN c.puts[1] ELSE 0
            b == IF 2 \in DOMAIN c.puts THEN c.puts[2] ELSE 0
<1>1. /\ Has(w, i) \in {0, 1} /\ Has(f, i) \in {0, 1} /\ Has(c.ip, i) \in {0, 1} /\ Has(c.dp, i) \in {0, 1}
      /\ Has(c.old, i) \in {0, 1} /\ Has(a, i) \in {0, 1} /\ Has(b, i) \in {0, 1} BY DEF Has
<1>2. \A x : Has(x, i) = 0 <=> x # i BY DEF Has
<1>3. i # 0 BY DEF Inums
<1>4. Tokens(w, f, c, i) = Has(w, i) + Has(f, i) + Has(c.ip, i) + Has(c.dp, i) + Has(c.old, i) + Has(a, i) + Has(b, i)
  BY DEF Tokens
<1>5. (a # i <=> (1 \in DOMAIN c.puts => c.puts[1] # i)) /\ (b # i <=> (2 \in DOMAIN c.puts => c.puts[2] # i)) BY <1>3
<1>. HIDE DEF a, b
<1>. QED BY <1>1, <1>2, <1>4, <1>5 DEF Apart

\* At boot every process has the root as its current directory, and nothing else.
LEMMA CountInit ==
  ASSUME NEW W, NEW F, NEW K, W = [p \in Procs |-> Root], F = [p \in Procs |-> 0],
         K = [p \in Procs |-> NoCall], NEW i \in Inums
  PROVE Count(W, F, K, i) = IF i = Root THEN Cardinality(Procs) ELSE 0
<1>. DEFINE S == {h \in Procs \X (1 .. 7) : Refs(W[h[1]], F[h[1]], K[h[1]])[h[2]] = i}
<1>0. i # 0 BY DEF Inums
<1>1. ASSUME NEW p \in Procs, NEW s \in 1 .. 7 PROVE Refs(W[p], F[p], K[p])[s] = IF s = 1 THEN Root ELSE 0
  <2>1. Refs(W[p], F[p], K[p]) = <<Root, 0, 0, 0, 0, 0, 0>> BY DEF Refs, NoCall
  <2>. QED BY <2>1
<1>2. CASE i = Root
  <2>1. S = Procs \X {1}
    <3>1. ASSUME NEW h \in S PROVE h \in Procs \X {1}
      <4>1. h[1] \in Procs /\ h[2] \in 1 .. 7 /\ h = <<h[1], h[2]>> /\ Refs(W[h[1]], F[h[1]], K[h[1]])[h[2]] = i BY <3>1
      <4>2. h[2] = 1 BY <4>1, <1>1, <1>0
      <4>. QED BY <4>1, <4>2
    <3>2. ASSUME NEW h \in Procs \X {1} PROVE h \in S
      <4>1. h[1] \in Procs /\ h[2] = 1 /\ h[2] \in 1 .. 7 /\ h \in Procs \X (1 .. 7) BY <3>2
      <4>2. Refs(W[h[1]], F[h[1]], K[h[1]])[h[2]] = i BY <4>1, <1>1, <1>2
      <4>. QED BY <4>1, <4>2
    <3>. HIDE DEF S
    <3>. QED BY <3>1, <3>2
  <2>2. Cardinality(Procs \X {1}) = Cardinality(Procs) * Cardinality({1}) BY FsAssumption, FS_Singleton, FS_Product
  <2>3. Cardinality({1}) = 1 /\ Cardinality(Procs) \in Nat BY FsAssumption, FS_Singleton, FS_CardinalityType
  <2>4. Cardinality(Procs) * 1 = Cardinality(Procs) BY <2>3
  <2>. QED BY <2>1, <2>2, <2>3, <2>4, <1>2, Zenon DEF Count
<1>3. CASE i # Root
  <2>1. S = {}
    <3>1. ASSUME NEW h \in S PROVE FALSE
      <4>1. h[1] \in Procs /\ h[2] \in 1 .. 7 /\ Refs(W[h[1]], F[h[1]], K[h[1]])[h[2]] = i BY <3>1
      <4>. QED BY <4>1, <1>0, <1>1, <1>3
    <3>. QED BY <3>1
  <2>. QED BY <2>1, <1>3, FS_EmptySet, Zenon DEF Count
<1>. QED BY <1>2, <1>3

\* The tokens of a call that puts no inode.
LEMMA TokensNone == ASSUME NEW w, NEW f, NEW c, c.puts = <<>>, NEW i \in Inums
  PROVE Tokens(w, f, c, i) = Has(w, i) + Has(f, i) + Has(c.ip, i) + Has(c.dp, i) + Has(c.old, i)
<1>1. 0 # i BY DEF Inums
<1>2. 1 \notin DOMAIN c.puts /\ 2 \notin DOMAIN c.puts OBVIOUS
<1>. QED BY <1>1, <1>2 DEF Tokens, Has

\* The tokens of a call that puts one inode.
LEMMA TokensOne == ASSUME NEW w, NEW f, NEW c, NEW a, c.puts = <<a>>, NEW i \in Inums
  PROVE Tokens(w, f, c, i) = Has(w, i) + Has(f, i) + Has(c.ip, i) + Has(c.dp, i) + Has(c.old, i) + Has(a, i)
<1>1. 0 # i BY DEF Inums
<1>2. 1 \in DOMAIN c.puts /\ 2 \notin DOMAIN c.puts /\ c.puts[1] = a OBVIOUS
<1>. QED BY <1>1, <1>2 DEF Tokens, Has

\* The tokens of a call that puts two.
LEMMA TokensTwo == ASSUME NEW w, NEW f, NEW c, NEW a, NEW b, c.puts = <<a, b>>, NEW i \in Inums
  PROVE Tokens(w, f, c, i) = Has(w, i) + Has(f, i) + Has(c.ip, i) + Has(c.dp, i) + Has(c.old, i) + Has(a, i) + Has(b, i)
<1>2. 1 \in DOMAIN c.puts /\ 2 \in DOMAIN c.puts /\ c.puts[1] = a /\ c.puts[2] = b OBVIOUS
<1>. QED BY <1>2 DEF Tokens, Has

----
(* What a step of one process has to show *)

\* The state of each process after such a step.
LEMMA MovesTo == ASSUME Tables, NEW p \in Procs, NEW r, NEW w, NEW f, Moves(p, r, w, f)
  PROVE  /\ k'[p] = r /\ cwd'[p] = w /\ fd'[p] = f
         /\ \A q \in Procs \ {p} : k'[q] = k[q] /\ cwd'[q] = cwd[q] /\ fd'[q] = fd[q]
         /\ k' \in [Procs -> CallRecords] /\ cwd' \in [Procs -> Inums] /\ fd' \in [Procs -> {0} \cup Inums]
  BY DEF Tables, Moves

\* Tables, if the variables keep their types.
LEMMA TypeStep ==
  ASSUME Tables, NEW p \in Procs, NEW r, NEW w, NEW f, Moves(p, r, w, f),
         dino' \in [Inums -> Inodes], ents' \in [Inums -> [Elements -> {0} \cup Inums]],
         used' \subseteq Blocks, core' \in [Inums -> Cores], lock' \in [Inums -> Procs \cup {None}],
         missed' \subseteq Inums, panicked' \in BOOLEAN PROVE Tables'
<1>1. booting' \in BOOLEAN BY DEF Moves
<1>. QED BY <1>1, MovesTo DEF Tables

\* CallsOK, if the new call agrees.
LEMMA CallsStep ==
  ASSUME Tables, CallsOK, NEW p \in Procs, NEW r, NEW w, NEW f, Moves(p, r, w, f), Agrees(r) PROVE CallsOK'
<1>1. ASSUME NEW q \in Procs PROVE Agrees(k'[q]) BY MovesTo DEF CallsOK
<1>. QED BY <1>1 DEF CallsOK

\* RefsOK, if ip->ref changes as the references of p do.
LEMMA RefsStep ==
  ASSUME Tables, RefsOK, NEW p \in Procs, NEW r, NEW w, NEW f, Moves(p, r, w, f),
         core' \in [Inums -> Cores],
         \A i \in Inums : core'[i].ref + RefsBy(p, i) = core[i].ref + Tokens(w, f, r, i)
  PROVE RefsOK'
<1>1. /\ k'[p] = r /\ cwd'[p] = w /\ fd'[p] = f
      /\ \A q \in Procs \ {p} : k'[q] = k[q] /\ cwd'[q] = cwd[q] /\ fd'[q] = fd[q] BY MovesTo
<1>2. ASSUME NEW i \in Inums PROVE core'[i].ref = Holders(i)'
  <2>. DEFINE t == RefsBy(p, i)
              u == Tokens(w, f, r, i)
              n == Count(cwd, fd, k, i)
              m == Count(cwd', fd', k', i)
  <2>1. n \in Nat /\ t \in Nat BY CountMine, Zenon
  <2>2. m \in Nat /\ Tokens(cwd'[p], fd'[p], k'[p], i) \in Nat BY CountMine, Zenon
  <2>3. m + t = n + Tokens(cwd'[p], fd'[p], k'[p], i)
    <3>1. \A q \in Procs \ {p} : cwd'[q] = cwd[q] /\ fd'[q] = fd[q] /\ k'[q] = k[q] BY <1>1
    <3>. QED BY <3>1, CountStep, Zenon
  <2>4. m + t = n + u /\ u \in Nat BY <2>2, <2>3, <1>1
  <2>5. core[i].ref = n BY HoldersIs DEF RefsOK
  <2>6. core'[i].ref + t = core[i].ref + u /\ core'[i].ref \in Nat BY DEF Cores
  <2>7. core'[i].ref = m
    <3>. HIDE DEF t, u, n, m
    <3>. QED BY <2>1, <2>2, <2>4, <2>5, <2>6
  <2>. QED BY <2>7, HoldersIs
<1>. QED BY <1>2 DEF RefsOK

\* LocksOK, if the locks of p are those of its new stage and the others keep theirs.
LEMMA LocksStep ==
  ASSUME Tables, LocksOK, NEW p \in Procs, NEW r, NEW w, NEW f, Moves(p, r, w, f),
         \A i \in Inums : lock'[i] = p <=> Owns(r, i),
         \A i \in Inums : \A q \in Procs \ {p} : lock'[i] = q <=> lock[i] = q PROVE LocksOK'
<1>1. ASSUME NEW i \in Inums, NEW q \in Procs PROVE lock'[i] = q <=> Owns(k'[q], i) BY MovesTo DEF LocksOK
<1>. QED BY <1>1 DEF LocksOK

\* In particular if no lock is touched, and p neither had nor wants one.
LEMMA LocksSame ==
  ASSUME Tables, LocksOK, NEW p \in Procs, NEW r, NEW w, NEW f, Moves(p, r, w, f),
         lock' = lock, k[p].pc \notin {"unlink", "new", "free", "invalid"},
         r.pc \notin {"unlink", "new", "free", "invalid"} PROVE LocksOK'
<1>1. ASSUME NEW i \in Inums, NEW q \in Procs PROVE lock'[i] = q <=> Owns(k'[q], i) BY MovesTo DEF LocksOK, Owns
<1>. QED BY <1>1 DEF LocksOK

\* CoresOK, if copies are written through, become invalid, or are on their way to be.
LEMMA CoresStep ==
  ASSUME Tables, CoresOK, NEW p \in Procs, NEW r, NEW w, NEW f, Moves(p, r, w, f),
         \A i \in Inums : core'[i].ref = 0 => core'[i] = NoCore,
         \A i \in Inums : \/ core'[i].valid = core[i].valid /\ core'[i].inode = core[i].inode /\ dino'[i] = dino[i]
                          \/ core'[i].inode = dino'[i] /\ dino'[i].type # "free"
                          \/ ~core'[i].valid
                          \/ r.pc = "invalid" /\ Head(r.puts) = i
                          \/ Stale(i),
         k[p].pc = "invalid" => ~core'[Head(k[p].puts)].valid,
         \A i \in Inums : core[i].valid => core'[i].valid \/ Idle(p, i),
         \A q \in Procs \ {p} : k[q].pc = "free" => Head(k[q].puts) \in Inums,
         r.pc = "free" => core'[Head(r.puts)].valid PROVE CoresOK'
<1>0. k'[p] = r /\ \A q \in Procs \ {p} : k'[q] = k[q] BY MovesTo
<1>2. ASSUME NEW i \in Inums, core'[i].valid, ~Stale(i)' PROVE core'[i].inode = dino'[i] /\ dino'[i].type # "free"
  <2>1. ~(r.pc = "invalid" /\ Head(r.puts) = i) BY <1>0, <1>2 DEF Stale
  <2>2. ASSUME Stale(i) PROVE FALSE
    <3>1. PICK q \in Procs : k[q].pc = "invalid" /\ Head(k[q].puts) = i BY <2>2 DEF Stale
    <3>2. q # p BY <3>1, <1>2
    <3>. QED BY <3>1, <3>2, <1>0, <1>2 DEF Stale
  <2>3. core[i].valid => core[i].inode = dino[i] /\ dino[i].type # "free" BY <2>2 DEF CoresOK
  <2>. QED BY <2>1, <2>2, <2>3, <1>2
<1>3. ASSUME NEW q \in Procs, k'[q].pc = "free" PROVE core'[Head(k'[q].puts)].valid
  <2>1. CASE q = p BY <2>1, <1>0, <1>3
  <2>2. CASE q # p
    <3>1. k[q].pc = "free" /\ k'[q] = k[q] /\ q \in Procs \ {p} BY <2>2, <1>0, <1>3
    <3>2. PICK i \in Inums : i = Head(k[q].puts) BY <3>1
    <3>3. core[i].valid BY <3>1, <3>2 DEF CoresOK
    <3>4. ~Idle(p, i) BY <3>1, <3>2 DEF Idle
    <3>. QED BY <3>1, <3>2, <3>3, <3>4
  <2>. QED BY <2>1, <2>2
<1>. QED BY <1>2, <1>3 DEF CoresOK

\* HeldOK, if no inode that another process relies on changes its kind.
LEMMA HeldStep ==
  ASSUME Tables, LocksOK, HeldOK, NEW p \in Procs, NEW r, NEW w, NEW f, Moves(p, r, w, f),
         \A q \in Procs : k[q].pc = "new" => k[q].ip \in Inums,
         \A i \in Inums : core[i].valid => core'[i].valid \/ Idle(p, i),
         \A i \in Inums : dino'[i].type = dino[i].type \/ (Idle(p, i) /\ NotNew(p, i)),
         \A i \in Inums : dino'[i].addr \in {dino[i].addr, None} \/ NotNew(p, i) \/ dino[i].type # "dir",
         r.dp # 0 => core'[r.dp].valid /\ dino'[r.dp].type = "dir",
         r.dp \in {0, k[p].dp} \/ lock[r.dp] = None,
         r.old # 0 => core'[r.old].valid /\ dino'[r.old].type \in {"file", "dev"},
         r.old \in {0, k[p].old} \/ lock[r.old] = None,
         r.pc = "new" => /\ dino'[r.ip].type = KindOf(r.op) /\ r.ip # r.dp
                         /\ r.op = "mkdir" => dino'[r.ip].addr = None
                         /\ NotNew(p, r.ip)
                         /\ \A q \in Procs \ {p} : k[q].pc = "free" => Head(k[q].puts) # r.ip,
         r.pc \in {"free", "invalid"} =>
           /\ Head(r.puts) # r.dp /\ Head(r.puts) # r.old
           /\ \A q \in Procs \ {p} : k[q].dp # Head(r.puts) /\ k[q].old # Head(r.puts),
         r.pc = "free" => NotNew(p, Head(r.puts)),
         \A q \in Procs : k[q].pc \in {"free", "invalid"} => Head(k[q].puts) \in Inums PROVE HeldOK'
<1>0. k'[p] = r /\ \A q \in Procs \ {p} : k'[q] = k[q] BY MovesTo
<1>a. None \notin Procs BY FsAssumption
<1>b. \A q \in Procs : k[q].dp \in {0} \cup Inums /\ k[q].old \in {0} \cup Inums BY DEF Tables, CallRecords
<1>1. ASSUME NEW q \in Procs, k'[q].dp # 0 PROVE core'[k'[q].dp].valid /\ dino'[k'[q].dp].type = "dir"
  <2>1. CASE q # p
    <3>1. PICK i \in Inums : i = k[q].dp /\ q \in Procs \ {p} /\ k'[q] = k[q] BY <2>1, <1>0, <1>1, <1>b
    <3>2. ~Idle(p, i) BY <3>1 DEF Idle
    <3>3. core[i].valid /\ dino[i].type = "dir" BY <3>1, <1>1 DEF HeldOK
    <3>. QED BY <3>1, <3>2, <3>3
  <2>. QED BY <2>1, <1>0, <1>1
<1>2. ASSUME NEW q \in Procs, k'[q].old # 0 PROVE core'[k'[q].old].valid /\ dino'[k'[q].old].type \in {"file", "dev"}
  <2>1. CASE q # p
    <3>1. PICK i \in Inums : i = k[q].old /\ q \in Procs \ {p} /\ k'[q] = k[q] BY <2>1, <1>0, <1>2, <1>b
    <3>2. ~Idle(p, i) BY <3>1 DEF Idle
    <3>3. core[i].valid /\ dino[i].type \in {"file", "dev"} BY <3>1, <1>2 DEF HeldOK
    <3>. QED BY <3>1, <3>2, <3>3
  <2>. QED BY <2>1, <1>0, <1>2
<1>3. ASSUME NEW q \in Procs, k'[q].pc = "new"
      PROVE  /\ dino'[k'[q].ip].type = KindOf(k'[q].op) /\ k'[q].ip # k'[q].dp
             /\ k'[q].op = "mkdir" => dino'[k'[q].ip].addr = None
  <2>1. CASE q # p
    <3>1. PICK i \in Inums : i = k[q].ip /\ q \in Procs \ {p} /\ k'[q] = k[q] /\ k[q].pc = "new" BY <2>1, <1>0, <1>3
    <3>2. ~NotNew(p, i) BY <3>1 DEF NotNew
    <3>3. dino[i].type = KindOf(k[q].op) /\ i # k[q].dp /\ (k[q].op = "mkdir" => dino[i].addr = None) BY <3>1 DEF HeldOK
    <3>4. k[q].op = "mkdir" => dino[i].type = "dir" BY <3>3 DEF KindOf
    <3>. QED BY <3>1, <3>2, <3>3, <3>4
  <2>. QED BY <2>1, <1>0, <1>3
<1>4. ASSUME NEW q \in Procs, NEW s \in Procs, k'[q].pc = "new", k'[s].pc = "new", k'[q].ip = k'[s].ip PROVE q = s
  <2>1. CASE q = p /\ s # p BY <2>1, <1>0, <1>4 DEF NotNew
  <2>2. CASE q # p /\ s = p BY <2>2, <1>0, <1>4 DEF NotNew
  <2>3. CASE q # p /\ s # p BY <2>3, <1>0, <1>4 DEF HeldOK
  <2>. QED BY <2>1, <2>2, <2>3
<1>5. ASSUME NEW q \in Procs, NEW s \in Procs, k'[q].pc \in {"free", "invalid"}
      PROVE Head(k'[q].puts) # k'[s].dp /\ Head(k'[q].puts) # k'[s].old
  <2>1. CASE q = p BY <2>1, <1>0, <1>5
  <2>2. CASE q # p /\ s # p BY <2>2, <1>0, <1>5 DEF HeldOK
  <2>3. CASE q # p /\ s = p
    <3>1. k'[q] = k[q] /\ k'[s] = r /\ k[q].pc \in {"free", "invalid"} BY <2>3, <1>0, <1>5
    <3>2. PICK i \in Inums : i = Head(k[q].puts) BY <3>1
    <3>3. lock[i] = q BY <3>1, <3>2 DEF LocksOK, Owns
    <3>4. lock[i] # None /\ i # 0 BY <3>3, <1>a DEF Inums
    <3>5. i # k[p].dp /\ i # k[p].old BY <3>1, <3>2 DEF HeldOK
    <3>. QED BY <3>1, <3>2, <3>4, <3>5
  <2>. QED BY <2>1, <2>2, <2>3
<1>6. ASSUME NEW q \in Procs, NEW s \in Procs, k'[q].pc = "free", k'[s].pc = "new" PROVE Head(k'[q].puts) # k'[s].ip
  <2>1. CASE q = p /\ s # p BY <2>1, <1>0, <1>6 DEF NotNew
  <2>2. CASE q # p /\ s = p BY <2>2, <1>0, <1>6
  <2>3. CASE q # p /\ s # p BY <2>3, <1>0, <1>6 DEF HeldOK
  <2>. QED BY <2>1, <2>2, <2>3, <1>0, <1>6
<1>. QED BY <1>1, <1>2, <1>3, <1>4, <1>5, <1>6 DEF HeldOK

\* TreeOK, if only directories whose lock p could have change.
LEMMA TreeStep ==
  ASSUME Tables, LocksOK, TreeOK, NEW p \in Procs, NEW r, NEW w, NEW f, Moves(p, r, w, f),
         \A q \in Procs : k[q].pc \in {"unlink", "new"} => k[q].dp \in Inums /\ k[q].ip \in Inums,
         \A x \in Inums : ents'[x] = ents[x] \/ lock[x] = None \/ lock[x] = p,
         \A x \in Inums, n \in Names : \/ ents'[x][n] = ents[x][n] \/ ents'[x][n] = 0
                                       \/ \A q \in Procs \ {p} : k[q].pc = "new" /\ k[q].ip = x => ents'[x][n] # k[q].dp,
         r.pc = "unlink" => ents'[r.dp][Head(r.path)] = r.ip,
         r.pc = "new" => /\ ents'[r.dp][Head(r.path)] = 0
                         /\ \A n \in Names : ents'[r.ip][n] # r.dp
                         /\ r.ip # r.dp
                         /\ \A q \in Procs \ {p} : k[q].pc = "new" => ~(k[q].ip = r.dp /\ k[q].dp = r.ip)
  PROVE TreeOK'
<1>0. k'[p] = r /\ \A q \in Procs \ {p} : k'[q] = k[q] BY MovesTo
<1>a. None \notin Procs BY FsAssumption
<1>1. ASSUME NEW q \in Procs, k'[q].pc = "unlink" PROVE ents'[k'[q].dp][Head(k'[q].path)] = k'[q].ip
  <2>1. CASE q # p
    <3>1. PICK d \in Inums : d = k[q].dp /\ k'[q] = k[q] /\ k[q].pc = "unlink" BY <2>1, <1>0, <1>1
    <3>2. lock[d] = q BY <3>1 DEF LocksOK, Owns
    <3>3. ents'[d] = ents[d] BY <2>1, <3>2, <1>a
    <3>. QED BY <3>1, <3>3 DEF TreeOK
  <2>. QED BY <2>1, <1>0, <1>1
<1>2. ASSUME NEW q \in Procs, k'[q].pc = "new", NEW n \in Names PROVE ents'[k'[q].ip][n] # k'[q].dp
  <2>1. CASE q # p
    <3>1. PICK i \in Inums : i = k[q].ip /\ k'[q] = k[q] /\ k[q].pc = "new" /\ q \in Procs \ {p} BY <2>1, <1>0, <1>2
    <3>2. k[q].dp \in Inums /\ 0 \notin Inums BY <3>1 DEF Inums
    <3>3. ents[i][n] # k[q].dp BY <3>1 DEF TreeOK
    <3>. QED BY <3>1, <3>2, <3>3
  <2>. QED BY <2>1, <1>0, <1>2
<1>3. ASSUME NEW q \in Procs, NEW s \in Procs, k'[q].pc = "new", k'[s].pc = "new", k'[s].ip = k'[q].dp, k'[s].dp = k'[q].ip
      PROVE FALSE
  <2>1. CASE q = p /\ s # p BY <2>1, <1>0, <1>3
  <2>2. CASE q # p /\ s = p BY <2>2, <1>0, <1>3
  <2>3. CASE q # p /\ s # p BY <2>3, <1>0, <1>3 DEF TreeOK
  <2>4. CASE q = p /\ s = p BY <2>4, <1>0, <1>3
  <2>. QED BY <2>1, <2>2, <2>3, <2>4
<1>4. ASSUME NEW q \in Procs, k'[q].pc = "new" PROVE ents'[k'[q].dp][Head(k'[q].path)] = 0
  <2>1. CASE q # p
    <3>1. PICK d \in Inums : d = k[q].dp /\ k'[q] = k[q] /\ k[q].pc = "new" BY <2>1, <1>0, <1>4
    <3>2. lock[d] = q BY <3>1 DEF LocksOK, Owns
    <3>3. ents'[d] = ents[d] BY <2>1, <3>2, <1>a
    <3>. QED BY <3>1, <3>3 DEF TreeOK
  <2>. QED BY <2>1, <1>0, <1>4
<1>. QED BY <1>1, <1>2, <1>3, <1>4 DEF TreeOK

----
(* The records of calls, and the inode table *)

\* Sequences of inodes to put.
LEMMA PutsAre == ASSUME NEW a \in Inums, NEW b \in Inums
  PROVE  /\ <<>> \in Seq(Inums) /\ <<a>> \in Seq(Inums) /\ <<a, b>> \in Seq(Inums) /\ <<a>> # <<>> /\ <<a, b>> # <<>>
         /\ Len(<<>>) = 0 /\ Len(<<a>>) = 1 /\ Len(<<a, b>>) = 2 /\ Head(<<a>>) = a /\ Head(<<a, b>>) = a
         /\ Tail(<<a>>) = <<>> /\ Tail(<<a, b>>) = <<b>> /\ <<a>> \o <<b>> = <<a, b>> /\ <<>> \o <<a>> = <<a>>
<1>1. <<>> \in Seq(Inums) /\ <<a>> \in Seq(Inums) /\ <<a, b>> \in Seq(Inums) OBVIOUS
<1>2. /\ <<a>> # <<>> /\ <<a, b>> # <<>> /\ Len(<<>>) = 0 /\ Len(<<a>>) = 1 /\ Len(<<a, b>>) = 2
      /\ Head(<<a>>) = a /\ Head(<<a, b>>) = a OBVIOUS
<1>3. Tail(<<a>>) = <<>> OBVIOUS
<1>4. Tail(<<a, b>>) = <<b>> OBVIOUS
<1>5. <<a>> \o <<b>> = <<a, b>>
  <2>1. PICK s \in Seq(Inums), t \in Seq(Inums) : s = <<a>> /\ t = <<b>>
    <3>1. <<a>> \in Seq(Inums) /\ <<b>> \in Seq(Inums) OBVIOUS
    <3>. QED BY <3>1, Zenon
  <2>2. s \o t \in Seq(Inums) /\ Len(s \o t) = 2 /\ (s \o t)[1] = a /\ (s \o t)[2] = b BY <2>1, ConcatProperties
  <2>3. \A n \in 1 .. 2 : (s \o t)[n] = <<a, b>>[n] BY <2>2
  <2>4. s \o t = <<a, b>> BY <2>2, <2>3, <1>1, <1>2, SeqEqual
  <2>. QED BY <2>1, <2>4
<1>6. <<>> \o <<a>> = <<a>> OBVIOUS
<1>. QED BY <1>1, <1>2, <1>3, <1>4, <1>5, <1>6

\* The fields of a call.
LEMMA Fields == ASSUME Tables, NEW p \in Procs
  PROVE  /\ k[p] \in CallRecords /\ k[p].pc \in Stages /\ k[p].op \in Ops \cup {"none", "linkto"}
         /\ k[p].path \in Seq(Elements) /\ k[p].new \in Paths
         /\ k[p].ip \in {0} \cup Inums /\ k[p].dp \in {0} \cup Inums /\ k[p].old \in {0} \cup Inums
         /\ k[p].puts \in Seq(Inums) /\ k[p].after \in Stages /\ cwd[p] \in Inums /\ fd[p] \in {0} \cup Inums
  BY DEF Tables, CallRecords

\* Calls with the same fields are the same.
LEMMA SameCall ==
  ASSUME NEW x \in CallRecords, NEW y \in CallRecords,
         x.pc = y.pc, x.op = y.op, x.path = y.path, x.new = y.new, x.ip = y.ip, x.dp = y.dp, x.old = y.old,
         x.puts = y.puts, x.after = y.after PROVE x = y BY DEF CallRecords

\* A process that is not in a call.
LEMMA NoCallIs == NoCall \in CallRecords /\ Agrees(NoCall)
<1>1. <<>> \in Seq(Elements) /\ <<>> \in Seq(Inums) /\ NoPath \in Paths /\ Len(<<>>) = 0 BY DEF NoPath, Paths
<1>2. NoCall \in CallRecords BY <1>1 DEF NoCall, CallRecords, Stages
<1>3. Agrees(NoCall) BY <1>1 DEF NoCall, Agrees, Walks, Puts
<1>. QED BY <1>2, <1>3

\* A call that ends.
LEMMA DoneIs == ASSUME NEW s \in Seq(Inums), Len(s) <= 2 PROVE Done(s) \in CallRecords /\ Agrees(Done(s))
<1>1. <<>> \in Seq(Elements) /\ NoPath \in Paths BY DEF NoPath, Paths
<1>2. Done(s) \in CallRecords BY <1>1 DEF Done, CallRecords, Stages
<1>3. Agrees(Done(s))
  <2>1. s = <<>> => Done(s).pc = "done" /\ Done(s).puts = <<>> BY DEF Done
  <2>2. s # <<>> => Done(s).pc = "put" /\ Done(s).puts = s BY DEF Done
  <2>3. /\ Done(s).op = "none" /\ Done(s).ip = 0 /\ Done(s).dp = 0 /\ Done(s).old = 0
        /\ Done(s).puts = s /\ Done(s).after = "done" BY DEF Done
  <2>. HIDE DEF Done
  <2>. QED BY <2>1, <2>2, <2>3 DEF Agrees, Walks, Puts
<1>. QED BY <1>2, <1>3

\* The call that ends, after it has put the inodes s.
LEMMA PutThenDone == ASSUME NEW p, NEW s \in Seq(Inums), Len(s) <= 2 PROVE PutThen(p, s, "done") = Done(s)
<1>. DEFINE x == IF s = <<>> THEN "done" ELSE "put"
            y == [NoCall EXCEPT !.pc = x, !.puts = s, !.after = "done"]
<1>1. PutThen(p, s, "done") = y BY DEF PutThen
<1>2. NoCall \in CallRecords BY NoCallIs
<1>3. x \in Stages /\ "done" \in Stages BY DEF Stages
<1>4. /\ Done(s).pc = x /\ Done(s).op = "none" /\ Done(s).path = <<>> /\ Done(s).new = NoPath
      /\ Done(s).ip = 0 /\ Done(s).dp = 0 /\ Done(s).old = 0 /\ Done(s).puts = s /\ Done(s).after = "done"
  BY DEF Done
<1>. HIDE DEF x
<1>5. y \in CallRecords BY <1>2, <1>3 DEF CallRecords
<1>6. /\ y.pc = x /\ y.op = "none" /\ y.path = <<>> /\ y.new = NoPath
      /\ y.ip = 0 /\ y.dp = 0 /\ y.old = 0 /\ y.puts = s /\ y.after = "done" BY DEF NoCall
<1>7. Done(s) \in CallRecords BY DoneIs
<1>. HIDE DEF y
<1>8. y = Done(s) BY <1>4, <1>5, <1>6, <1>7, SameCall
<1>. QED BY <1>1, <1>8

\* The call that ends after putting s.
LEMMA EndsIs == ASSUME NEW p, NEW s \in Seq(Inums), Len(s) <= 2
  PROVE  /\ PutThen(p, s, "done") \in CallRecords /\ Agrees(PutThen(p, s, "done"))
         /\ PutThen(p, s, "done").pc \in {"put", "done"}
         /\ s # <<>> => PutThen(p, s, "done").pc = "put"
         /\ PutThen(p, s, "done").op = "none" /\ PutThen(p, s, "done").ip = 0
         /\ PutThen(p, s, "done").dp = 0 /\ PutThen(p, s, "done").old = 0
         /\ PutThen(p, s, "done").puts = s /\ PutThen(p, s, "done").after = "done"
<1>1. PutThen(p, s, "done") = Done(s) BY PutThenDone
<1>2. Done(s) \in CallRecords /\ Agrees(Done(s)) BY DoneIs
<1>3. /\ Done(s).pc \in {"put", "done"} /\ (s # <<>> => Done(s).pc = "put")
      /\ Done(s).op = "none" /\ Done(s).ip = 0 /\ Done(s).dp = 0 /\ Done(s).old = 0
      /\ Done(s).puts = s /\ Done(s).after = "done" BY DEF Done
<1>. QED BY <1>1, <1>2, <1>3

\* The call that ends and puts one inode.
LEMMA EndsOne == ASSUME NEW p, NEW a \in Inums
  PROVE  /\ PutThen(p, <<a>>, "done") \in CallRecords /\ Agrees(PutThen(p, <<a>>, "done"))
         /\ PutThen(p, <<a>>, "done").pc = "put"
         /\ PutThen(p, <<a>>, "done").op = "none" /\ PutThen(p, <<a>>, "done").ip = 0
         /\ PutThen(p, <<a>>, "done").dp = 0 /\ PutThen(p, <<a>>, "done").old = 0
         /\ PutThen(p, <<a>>, "done").puts = <<a>> /\ PutThen(p, <<a>>, "done").after = "done"
<1>1. PICK s \in Seq(Inums) : s = <<a>> /\ Len(s) <= 2 /\ s # <<>>
  <2>1. <<a>> \in Seq(Inums) /\ Len(<<a>>) <= 2 /\ <<a>> # <<>> OBVIOUS
  <2>. QED BY <2>1, Zenon
<1>2. /\ PutThen(p, s, "done") \in CallRecords /\ Agrees(PutThen(p, s, "done"))
      /\ PutThen(p, s, "done").pc \in {"put", "done"}
      /\ s # <<>> => PutThen(p, s, "done").pc = "put"
      /\ PutThen(p, s, "done").op = "none" /\ PutThen(p, s, "done").ip = 0
      /\ PutThen(p, s, "done").dp = 0 /\ PutThen(p, s, "done").old = 0
      /\ PutThen(p, s, "done").puts = s /\ PutThen(p, s, "done").after = "done" BY <1>1, EndsIs
<1>. QED BY <1>1, <1>2, Zenon

\* The call that ends and puts two.
LEMMA EndsTwo == ASSUME NEW p, NEW a \in Inums, NEW b \in Inums
  PROVE  /\ PutThen(p, <<a, b>>, "done") \in CallRecords /\ Agrees(PutThen(p, <<a, b>>, "done"))
         /\ PutThen(p, <<a, b>>, "done").pc = "put"
         /\ PutThen(p, <<a, b>>, "done").op = "none" /\ PutThen(p, <<a, b>>, "done").ip = 0
         /\ PutThen(p, <<a, b>>, "done").dp = 0 /\ PutThen(p, <<a, b>>, "done").old = 0
         /\ PutThen(p, <<a, b>>, "done").puts = <<a, b>> /\ PutThen(p, <<a, b>>, "done").after = "done"
<1>1. PICK s \in Seq(Inums) : s = <<a, b>> /\ Len(s) <= 2 /\ s # <<>>
  <2>1. <<a, b>> \in Seq(Inums) /\ Len(<<a, b>>) <= 2 /\ <<a, b>> # <<>> OBVIOUS
  <2>. QED BY <2>1, Zenon
<1>2. /\ PutThen(p, s, "done") \in CallRecords /\ Agrees(PutThen(p, s, "done"))
      /\ PutThen(p, s, "done").pc \in {"put", "done"}
      /\ s # <<>> => PutThen(p, s, "done").pc = "put"
      /\ PutThen(p, s, "done").op = "none" /\ PutThen(p, s, "done").ip = 0
      /\ PutThen(p, s, "done").dp = 0 /\ PutThen(p, s, "done").old = 0
      /\ PutThen(p, s, "done").puts = s /\ PutThen(p, s, "done").after = "done" BY <1>1, EndsIs
<1>. QED BY <1>1, <1>2, Zenon

\* A call that goes on.
LEMMA PutThenOn == ASSUME Tables, NEW p \in Procs, NEW a \in Inums, NEW stage \in Stages, stage # "done"
  PROVE PutThen(p, <<a>>, stage) = On(k[p], 0, k[p].path, <<a>>, stage)
<1>1. k[p] \in CallRecords BY Fields
<1>2. <<a>> # <<>> OBVIOUS
<1>3. PICK t \in CallRecords : t = k[p] BY <1>1
<1>4. PutThen(p, <<a>>, stage) = [[t EXCEPT !.ip = 0, !.dp = 0] EXCEPT !.pc = "put", !.puts = <<a>>, !.after = stage]
  BY <1>2, <1>3 DEF PutThen
<1>. DEFINE x == [t EXCEPT !.ip = 0, !.dp = 0]
            y == [x EXCEPT !.pc = "put", !.puts = <<a>>, !.after = stage]
            z == On(t, 0, t.path, <<a>>, stage)
<1>5. x \in CallRecords BY DEF CallRecords
<1>6. /\ x.op = t.op /\ x.path = t.path /\ x.new = t.new /\ x.ip = 0 /\ x.dp = 0 /\ x.old = t.old BY DEF CallRecords
<1>. HIDE DEF x
<1>7. y \in CallRecords
  <2>1. <<a>> \in Seq(Inums) /\ "put" \in Stages BY DEF Stages
  <2>. QED BY <1>5, <2>1 DEF CallRecords
<1>8. /\ y.pc = "put" /\ y.op = t.op /\ y.path = t.path /\ y.new = t.new /\ y.ip = 0 /\ y.dp = 0
      /\ y.old = t.old /\ y.puts = <<a>> /\ y.after = stage BY <1>5, <1>6 DEF CallRecords
<1>9. z \in CallRecords BY DEF On, CallRecords, Stages
<1>10. /\ z.pc = "put" /\ z.op = t.op /\ z.path = t.path /\ z.new = t.new /\ z.ip = 0 /\ z.dp = 0
      /\ z.old = t.old /\ z.puts = <<a>> /\ z.after = stage BY DEF On
<1>. HIDE DEF y, z
<1>11. y = z BY <1>7, <1>8, <1>9, <1>10, SameCall
<1>. QED BY <1>3, <1>4, <1>11 DEF x, y, z

\* The call that goes on, after it has put a, agrees.
LEMMA OnIs ==
  ASSUME NEW c \in CallRecords, NEW i \in {0} \cup Inums, NEW path \in Seq(Elements), NEW a \in Inums, NEW stage \in Stages,
         stage \in Walks \cup {"linkbad"}, i # 0 <=> stage \in Walks, Agrees(c),
         stage = "linkbad" => c.op = "linkto", stage = "old" => c.op # "linkto", stage = "walk" => path # <<>>
  PROVE On(c, i, path, <<a>>, stage) \in CallRecords /\ Agrees(On(c, i, path, <<a>>, stage))
<1>. DEFINE r == On(c, i, path, <<a>>, stage)
<1>1. r \in CallRecords
  <2>1. <<a>> \in Seq(Inums) /\ "put" \in Stages BY DEF Stages
  <2>. QED BY <2>1 DEF On, CallRecords
<1>2. /\ r.pc = "put" /\ r.op = c.op /\ r.path = path /\ r.new = c.new /\ r.ip = i /\ r.dp = 0
      /\ r.old = c.old /\ r.puts = <<a>> /\ r.after = stage BY DEF On
<1>3. <<a>> # <<>> /\ Len(<<a>>) = 1 OBVIOUS
<1>4. (c.old # 0 <=> c.op = "linkto") /\ (c.op # "none" => c.new.elems # <<>>) BY DEF Agrees
<1>. HIDE DEF r
<1>5. Agrees(r) BY <1>2, <1>3, <1>4 DEF Agrees, Walks, Puts
<1>. QED BY <1>1, <1>5 DEF r

\* A free entry of the inode table.
LEMMA NoCoreIs == NoCore \in Cores /\ NoCore.ref = 0 /\ ~NoCore.valid /\ FreeInode \in Inodes
  BY DEF NoCore, Cores, FreeInode, Inodes, Types

\* iget and idup add one reference.
LEMMA IgetIs == ASSUME NEW c \in [Inums -> Cores], NEW i \in Inums, c[i].ref = 0 => c[i] = NoCore
  PROVE  /\ Iget(c, i) \in [Inums -> Cores]
         /\ \A j \in Inums : /\ Iget(c, i)[j].ref = c[j].ref + Has(i, j)
                             /\ Iget(c, i)[j].valid = c[j].valid /\ Iget(c, i)[j].inode = c[j].inode
         /\ \A j \in Inums \ {i} : Iget(c, i)[j] = c[j]
<1>. DEFINE x == IF c[i].ref = 0 THEN [NoCore EXCEPT !.ref = 1] ELSE [c[i] EXCEPT !.ref = @ + 1]
<1>1. x \in Cores /\ x.ref = c[i].ref + 1 /\ x.valid = c[i].valid /\ x.inode = c[i].inode
  <2>1. NoCore \in Cores /\ NoCore.ref = 0 /\ c[i] \in Cores BY NoCoreIs
  <2>2. CASE c[i].ref = 0
    <3>1. x = [NoCore EXCEPT !.ref = 1] /\ c[i] = NoCore BY <2>2
    <3>. HIDE DEF x
    <3>. QED BY <3>1, <2>1, <2>2 DEF Cores
  <2>3. CASE c[i].ref # 0
    <3>1. x = [c[i] EXCEPT !.ref = @ + 1] BY <2>3
    <3>. HIDE DEF x
    <3>. QED BY <3>1, <2>1 DEF Cores
  <2>. QED BY <2>2, <2>3
<1>2. Iget(c, i) = [c EXCEPT ![i] = x] BY DEF Iget
<1>. HIDE DEF x
<1>3. Iget(c, i)[i] = x /\ \A j \in Inums \ {i} : Iget(c, i)[j] = c[j] BY <1>2
<1>4. ASSUME NEW j \in Inums
      PROVE  /\ Iget(c, i)[j].ref = c[j].ref + Has(i, j) /\ Iget(c, i)[j].valid = c[j].valid
             /\ Iget(c, i)[j].inode = c[j].inode
  <2>1. CASE i = j BY <2>1, <1>1, <1>3 DEF Has
  <2>2. CASE i # j
    <3>1. Has(i, j) = 0 /\ Iget(c, i)[j] = c[j] /\ c[j].ref \in Nat BY <2>2, <1>3 DEF Has, Cores
    <3>. QED BY <3>1
  <2>. QED BY <2>1, <2>2
<1>. QED BY <1>1, <1>2, <1>3, <1>4

\* ip->ref--: the entry is free after the last one.
LEMMA DroppedIs == ASSUME Tables, NEW i \in Inums, core[i].ref # 0
  PROVE  /\ Dropped(i) \in [Inums -> Cores]
         /\ \A j \in Inums : Dropped(i)[j].ref + Has(i, j) = core[j].ref
         /\ \A j \in Inums \ {i} : Dropped(i)[j] = core[j]
         /\ core[i].ref = 1 => Dropped(i)[i] = NoCore
         /\ core[i].ref # 1 => /\ Dropped(i)[i].valid = core[i].valid /\ Dropped(i)[i].inode = core[i].inode
                               /\ Dropped(i)[i].ref # 0
<1>0. core \in [Inums -> Cores] BY DEF Tables
<1>. DEFINE x == IF core[i].ref = 1 THEN NoCore ELSE [core[i] EXCEPT !.ref = @ - 1]
<1>1. /\ x \in Cores /\ x.ref + 1 = core[i].ref
      /\ core[i].ref = 1 => x = NoCore
      /\ core[i].ref # 1 => x.valid = core[i].valid /\ x.inode = core[i].inode /\ x.ref # 0
  <2>1. NoCore \in Cores /\ NoCore.ref = 0 /\ core[i] \in Cores BY <1>0, NoCoreIs
  <2>2. CASE core[i].ref = 1 BY <2>1, <2>2
  <2>3. CASE core[i].ref # 1
    <3>1. x = [core[i] EXCEPT !.ref = @ - 1] BY <2>3
    <3>. HIDE DEF x
    <3>. QED BY <3>1, <2>1, <2>3 DEF Cores
  <2>. QED BY <2>2, <2>3
<1>2. Dropped(i) = [core EXCEPT ![i] = x] BY DEF Dropped
<1>. HIDE DEF x
<1>3. Dropped(i)[i] = x /\ \A j \in Inums \ {i} : Dropped(i)[j] = core[j] BY <1>0, <1>2
<1>4. ASSUME NEW j \in Inums PROVE Dropped(i)[j].ref + Has(i, j) = core[j].ref
  <2>1. CASE i = j BY <2>1, <1>1, <1>3 DEF Has
  <2>2. CASE i # j
    <3>1. Has(i, j) = 0 /\ Dropped(i)[j] = core[j] /\ core[j].ref \in Nat BY <2>2, <1>0, <1>3 DEF Has, Cores
    <3>. QED BY <3>1
  <2>. QED BY <2>1, <2>2
<1>. QED BY <1>0, <1>1, <1>2, <1>3, <1>4

\* Nobody is about to invalidate an inode whose lock is free.
LEMMA NotInvalidating == ASSUME LocksOK, NEW i \in Inums, lock[i] = None PROVE ~Stale(i)
<1>1. None \notin Procs BY FsAssumption
<1>. QED BY <1>1 DEF LocksOK, Owns, Stale

\* ilock of an inode with a type: the copy is the dinode's.
LEMMA LockedIs == ASSUME Tables, LocksOK, CoresOK, NEW i \in Inums, lock[i] = None, ~NoType(i)
  PROVE  /\ Locked(i) \in Cores /\ Locked(i).ref = core[i].ref /\ Locked(i).valid /\ Locked(i).inode = dino[i]
         /\ dino[i].type # "free" /\ dino[i] \in Inodes
<1>1. ~Stale(i) BY NotInvalidating
<1>2. core[i] \in Cores /\ dino[i] \in Inodes BY DEF Tables
<1>3. CASE core[i].valid BY <1>1, <1>2, <1>3 DEF CoresOK, Locked
<1>4. CASE ~core[i].valid
  <2>1. Locked(i) = [core[i] EXCEPT !.valid = TRUE, !.inode = dino[i]] BY <1>4 DEF Locked
  <2>. QED BY <2>1, <1>2, <1>4 DEF NoType, Cores
<1>. QED BY <1>3, <1>4

\* A process that has a reference to an inode is counted in its ref.
LEMMA HeldRef == ASSUME Tables, RefsOK, NEW p \in Procs, NEW i \in Inums, ~NotBy(p, i)
  PROVE core[i].ref # 0 /\ core[i].ref \in Nat
<1>1. RefsBy(p, i) # 0 BY TokensZero
<1>2. /\ RefsBy(p, i) <= Count(cwd, fd, k, i)
      /\ RefsBy(p, i) \in Nat /\ Count(cwd, fd, k, i) \in Nat BY CountMine, Zenon
<1>3. core[i].ref = Count(cwd, fd, k, i) BY HoldersIs DEF RefsOK
<1>. QED BY <1>1, <1>2, <1>3

\* If it is the only one, no other process has a reference, and it has no second one.
LEMMA SoleRef ==
  ASSUME Tables, RefsOK, NEW p \in Procs, NEW i \in Inums, ~NotBy(p, i), core[i].ref = 1
  PROVE  /\ \A q \in Procs \ {p} : NotBy(q, i)
         /\ RefsBy(p, i) = 1
<1>1. RefsBy(p, i) # 0 BY TokensZero
<1>2. /\ RefsBy(p, i) <= Count(cwd, fd, k, i)
      /\ RefsBy(p, i) \in Nat /\ Count(cwd, fd, k, i) \in Nat BY CountMine, Zenon
<1>3. core[i].ref = Count(cwd, fd, k, i) BY HoldersIs DEF RefsOK
<1>4. Count(cwd, fd, k, i) <= RefsBy(p, i) /\ RefsBy(p, i) = 1 BY <1>1, <1>2, <1>3
<1>. QED BY <1>4, CountSole, Zenon

\* What a call at each stage has, by its type and CallsOK.
LEMMA CallIs == ASSUME Tables, CallsOK, NEW p \in Procs
  PROVE  /\ k[p].pc \in Puts =>
              /\ Head(k[p].puts) \in Inums /\ 1 \in DOMAIN k[p].puts /\ k[p].puts[1] = Head(k[p].puts)
              /\ k[p].dp = 0 /\ Len(k[p].puts) \in {1, 2}
         /\ k[p].pc \notin Puts => k[p].puts = <<>>
         /\ k[p].pc \in {"unlink", "new"} => k[p].dp \in Inums /\ k[p].ip \in Inums
         /\ k[p].pc = "parent" => k[p].dp \in Inums /\ k[p].ip = 0
         /\ k[p].pc \in Walks => k[p].ip \in Inums /\ k[p].dp = 0
         /\ k[p].pc \in {"user", "done"} => k[p].ip = 0 /\ k[p].dp = 0 /\ k[p].old = 0 /\ k[p].op = "none"
         /\ k[p].pc = "linkbad" => k[p].ip = 0 /\ k[p].dp = 0 /\ k[p].old \in Inums
         /\ k[p].op = "linkto" <=> k[p].old \in Inums
         /\ k[p].op # "linkto" => k[p].old = 0
<1>1. Agrees(k[p]) BY DEF CallsOK
<1>2. /\ k[p].pc \in Stages /\ k[p].op \in Ops \cup {"none", "linkto"}
      /\ k[p].ip \in {0} \cup Inums /\ k[p].dp \in {0} \cup Inums /\ k[p].old \in {0} \cup Inums
      /\ k[p].puts \in Seq(Inums) /\ k[p].after \in Stages BY Fields
<1>3. 0 \notin Inums BY DEF Inums
<1>4. PICK s \in Seq(Inums) : s = k[p].puts BY <1>2
<1>5. s # <<>> => Head(s) \in Inums /\ 1 \in DOMAIN s /\ s[1] = Head(s) /\ Len(s) \in Nat \ {0} OBVIOUS
<1>6. s # <<>> <=> k[p].pc \in Puts BY <1>1, <1>4 DEF Agrees
<1>7. Len(s) <= 2 BY <1>1, <1>4 DEF Agrees
<1>8. /\ k[p].ip # 0 <=> k[p].pc \in Walks \cup {"unlink", "new"} \/ (k[p].pc \in Puts /\ k[p].after \in Walks)
      /\ k[p].dp # 0 <=> k[p].pc \in {"parent", "unlink", "new"}
      /\ k[p].old # 0 <=> k[p].op = "linkto"
      /\ k[p].pc \in {"user", "done"} => k[p].op = "none"
      /\ k[p].pc = "linkbad" => k[p].op = "linkto" BY <1>1 DEF Agrees
<1>9. k[p].pc \in Puts =>
              /\ Head(k[p].puts) \in Inums /\ 1 \in DOMAIN k[p].puts /\ k[p].puts[1] = Head(k[p].puts)
              /\ Len(k[p].puts) \in {1, 2}
  <2>1. s # <<>> => Len(s) \in {1, 2}
    <3>1. PICK n \in Nat : n = Len(s) OBVIOUS
    <3>2. s # <<>> => n # 0 BY <1>5, <3>1
    <3>3. n <= 2 BY <1>7, <3>1
    <3>. QED BY <3>1, <3>2, <3>3
  <2>. QED BY <2>1, <1>4, <1>5, <1>6
<1>10. k[p].pc \in Puts => k[p].dp = 0 BY <1>8 DEF Puts
<1>11. k[p].pc \notin Puts => k[p].puts = <<>> BY <1>4, <1>6
<1>12. /\ k[p].pc \in {"unlink", "new"} => k[p].dp \in Inums /\ k[p].ip \in Inums
       /\ k[p].pc = "parent" => k[p].dp \in Inums /\ k[p].ip = 0
       /\ k[p].pc \in Walks => k[p].ip \in Inums /\ k[p].dp = 0 BY <1>2, <1>8 DEF Walks, Puts
<1>13. /\ k[p].pc \in {"user", "done"} => k[p].ip = 0 /\ k[p].dp = 0 /\ k[p].old = 0 /\ k[p].op = "none"
       /\ k[p].pc = "linkbad" => k[p].ip = 0 /\ k[p].dp = 0 /\ k[p].old \in Inums
  BY <1>2, <1>8 DEF Walks, Puts
<1>. QED BY <1>2, <1>3, <1>8, <1>9, <1>10, <1>11, <1>12, <1>13

\* Facts that the step lemmas ask of the other processes.
LEMMA OthersAre == ASSUME Tables, CallsOK
  PROVE  /\ \A q \in Procs : k[q].pc \in {"free", "invalid"} => Head(k[q].puts) \in Inums
         /\ \A q \in Procs : k[q].pc = "free" => Head(k[q].puts) \in Inums
         /\ \A q \in Procs : k[q].pc = "new" => k[q].ip \in Inums
         /\ \A q \in Procs : k[q].pc \in {"unlink", "new"} => k[q].dp \in Inums /\ k[q].ip \in Inums
<1>1. ASSUME NEW q \in Procs
      PROVE  /\ k[q].pc \in {"free", "invalid"} => Head(k[q].puts) \in Inums
             /\ k[q].pc \in {"unlink", "new"} => k[q].dp \in Inums /\ k[q].ip \in Inums BY CallIs DEF Puts
<1>. QED BY <1>1

\* A step that leaves the disk and the locks alone: what it shows of the inode
\* table and of the call.
LEMMA SameDisk ==
  ASSUME Inv, NEW p \in Procs, NEW r, NEW w, NEW f, Moves(p, r, w, f),
         dino' = dino, ents' = ents, used' = used, stable' = stable, lock' = lock,
         missed' \subseteq Inums, panicked' \in BOOLEAN, core' \in [Inums -> Cores],
         Agrees(r), k[p].pc \notin Locks, r.pc \notin Locks,
         \A i \in Inums : core'[i].ref + RefsBy(p, i) = core[i].ref + Tokens(w, f, r, i),
         \A i \in Inums : core'[i].ref = 0 => core'[i] = NoCore,
         \A i \in Inums : \/ core'[i].valid = core[i].valid /\ core'[i].inode = core[i].inode
                          \/ core'[i].inode = dino[i] /\ dino[i].type # "free"
                          \/ ~core'[i].valid,
         \A i \in Inums : core[i].valid => core'[i].valid \/ Idle(p, i),
         r.dp # 0 => /\ core'[r.dp].valid /\ dino[r.dp].type = "dir"
                     /\ r.dp = k[p].dp \/ lock[r.dp] = None,
         r.old # 0 => r.old = k[p].old /\ core'[r.old].valid PROVE Inv'
<1>. USE DEF Inv
<1>0. /\ \A q \in Procs : k[q].pc \in {"free", "invalid"} => Head(k[q].puts) \in Inums
      /\ \A q \in Procs : k[q].pc = "free" => Head(k[q].puts) \in Inums
      /\ \A q \in Procs : k[q].pc = "new" => k[q].ip \in Inums
      /\ \A q \in Procs : k[q].pc \in {"unlink", "new"} => k[q].dp \in Inums /\ k[q].ip \in Inums BY OthersAre
<1>1. Tables'
  <2>1. /\ dino' \in [Inums -> Inodes] /\ ents' \in [Inums -> [Elements -> {0} \cup Inums]]
        /\ used' \subseteq Blocks /\ lock' \in [Inums -> Procs \cup {None}] BY DEF Tables
  <2>. QED BY <2>1, TypeStep
<1>2. StableOK' BY DEF StableOK
<1>3. CallsOK' BY CallsStep
<1>4. RefsOK' BY RefsStep
<1>5. LocksOK' BY LocksSame DEF Locks
<1>6. CoresOK'
  <2>1. \A i \in Inums : \/ core'[i].valid = core[i].valid /\ core'[i].inode = core[i].inode /\ dino'[i] = dino[i]
                         \/ core'[i].inode = dino'[i] /\ dino'[i].type # "free"
                         \/ ~core'[i].valid
                         \/ r.pc = "invalid" /\ Head(r.puts) = i
                         \/ Stale(i) OBVIOUS
  <2>2. k[p].pc # "invalid" /\ r.pc # "free" BY DEF Locks
  <2>. QED BY <1>0, <2>1, <2>2, CoresStep
<1>7. HeldOK'
  <2>1. /\ \A i \in Inums : dino'[i].type = dino[i].type \/ (Idle(p, i) /\ NotNew(p, i))
        /\ \A i \in Inums : dino'[i].addr \in {dino[i].addr, None} \/ NotNew(p, i) \/ dino[i].type # "dir"
    OBVIOUS
  <2>2. r.pc # "new" /\ r.pc \notin {"free", "invalid"} /\ r.pc # "free" BY DEF Locks
  <2>3. /\ r.dp # 0 => core'[r.dp].valid /\ dino'[r.dp].type = "dir"
        /\ r.dp \in {0, k[p].dp} \/ lock[r.dp] = None
        /\ r.old \in {0, k[p].old} \/ lock[r.old] = None OBVIOUS
  <2>4. r.old # 0 => core'[r.old].valid /\ dino'[r.old].type \in {"file", "dev"} BY DEF HeldOK
  <2>. QED BY <1>0, <2>1, <2>2, <2>3, <2>4, HeldStep
<1>8. DisksOK' BY DEF DisksOK
<1>9. TreeOK'
  <2>2. r.pc # "new" /\ r.pc # "unlink" BY DEF Locks
  <2>. QED BY <1>0, <2>2, TreeStep
<1>10. Quiet' BY DEF Quiet, Moves
<1>. QED BY <1>1, <1>2, <1>3, <1>4, <1>5, <1>6, <1>7, <1>8, <1>9, <1>10

----
(* The steps that leave the disk and the locks alone *)

\* A step that changes nothing of its process but the call.
LEMMA MovesCall ==
  ASSUME Tables, NEW p \in Procs, NEW r \in CallRecords, k' = [k EXCEPT ![p] = r],
         cwd' = cwd, fd' = fd, booting' = FALSE PROVE Moves(p, r, cwd[p], fd[p]) BY DEF Tables, Moves

\* panic stops everything as it is.
LEMMA PanicKeeps == ASSUME Inv, Panic PROVE Inv'
<1>. USE DEF Inv, Panic, diskVars, memVars
<1>1. Tables' BY DEF Tables
<1>2. StableOK' /\ CallsOK' /\ CoresOK' /\ DisksOK' /\ Quiet' BY DEF StableOK, CallsOK, CoresOK, Stale, DisksOK, Quiet
<1>3. RefsOK' BY HoldersIs DEF RefsOK
<1>4. LocksOK' /\ HeldOK' /\ TreeOK' BY DEF LocksOK, HeldOK, TreeOK
<1>. QED BY <1>1, <1>2, <1>3, <1>4

\* The ways the inode table may change.
LEMMA IgetKeeps == ASSUME Tables, CoresOK, NEW i \in Inums, core' = Iget(core, i)
  PROVE  /\ core' \in [Inums -> Cores]
         /\ \A j \in Inums : /\ core'[j].ref = core[j].ref + Has(i, j)
                             /\ core'[j].valid = core[j].valid /\ core'[j].inode = core[j].inode
                             /\ core'[j].ref = 0 => core'[j] = NoCore
<1>1. core \in [Inums -> Cores] /\ \A j \in Inums : core[j].ref = 0 => core[j] = NoCore BY DEF Tables, CoresOK
<1>2. /\ Iget(core, i) \in [Inums -> Cores]
      /\ \A j \in Inums : /\ Iget(core, i)[j].ref = core[j].ref + Has(i, j)
                          /\ Iget(core, i)[j].valid = core[j].valid /\ Iget(core, i)[j].inode = core[j].inode
      /\ \A j \in Inums \ {i} : Iget(core, i)[j] = core[j] BY <1>1, IgetIs
<1>3. ASSUME NEW j \in Inums, core'[j].ref = 0 PROVE core'[j] = NoCore
  <2>1. core[j].ref \in Nat BY <1>1 DEF Cores
  <2>2. j # i BY <2>1, <1>2, <1>3 DEF Has
  <2>. QED BY <2>2, <1>1, <1>2, <1>3
<1>. QED BY <1>2, <1>3

\* begin_op and the start of namex.
LEMMA BeginKeeps == ASSUME Inv, NEW p \in Procs, NEW c \in Calls[p], Begin(p, c) PROVE Inv'
<1>. USE DEF Inv
<1>. DEFINE i == IF c.path.abs THEN Root ELSE cwd[p]
            r == [NoCall EXCEPT !.pc = "walk", !.op = c.op, !.path = c.path.elems, !.new = c.new, !.ip = i]
<1>1. /\ k[p].pc = "user" /\ ~booting /\ ~panicked /\ core' = Iget(core, i) /\ k' = [k EXCEPT ![p] = r]
      /\ dino' = dino /\ ents' = ents /\ used' = used /\ stable' = stable /\ lock' = lock
      /\ cwd' = cwd /\ fd' = fd /\ missed' = missed /\ booting' = booting /\ panicked' = panicked
  BY DEF Begin, At, Up, diskVars
<1>2. i \in Inums BY Fields, FsAssumption DEF Inums, Root
<1>3. /\ c.op \in Ops /\ c.path.elems \in Seq(Elements) /\ c.new \in Paths
      /\ c.path.elems # <<>> /\ c.new.elems # <<>> BY FsAssumption DEF Paths
<1>. HIDE DEF i
<1>4. r \in CallRecords BY <1>2, <1>3, NoCallIs DEF CallRecords, Stages
<1>5. /\ r.pc = "walk" /\ r.op = c.op /\ r.path = c.path.elems /\ r.new = c.new /\ r.ip = i
      /\ r.dp = 0 /\ r.old = 0 /\ r.puts = <<>> /\ r.after = "done" BY DEF NoCall
<1>. HIDE DEF r
<1>6. Agrees(r) BY <1>2, <1>3, <1>5 DEF Agrees, Walks, Puts, Ops, Inums
<1>7. Moves(p, r, cwd[p], fd[p])
  <2>1. booting' = FALSE BY <1>1 DEF Tables
  <2>. QED BY <2>1, <1>1, <1>4, MovesCall
<1>8. /\ core' \in [Inums -> Cores]
      /\ \A j \in Inums : /\ core'[j].ref = core[j].ref + Has(i, j)
                          /\ core'[j].valid = core[j].valid /\ core'[j].inode = core[j].inode
                          /\ core'[j].ref = 0 => core'[j] = NoCore BY <1>1, <1>2, IgetKeeps
<1>9. ASSUME NEW j \in Inums
      PROVE core'[j].ref + RefsBy(p, j) = core[j].ref + Tokens(cwd[p], fd[p], r, j)
  <2>1. k[p].puts = <<>> /\ k[p].ip = 0 /\ k[p].dp = 0 /\ k[p].old = 0 BY <1>1, CallIs DEF Puts
  <2>2. RefsBy(p, j) = Has(cwd[p], j) + Has(fd[p], j) + Has(0, j) + Has(0, j) + Has(0, j)
    BY <2>1, TokensNone
  <2>3. Tokens(cwd[p], fd[p], r, j) = Has(cwd[p], j) + Has(fd[p], j) + Has(i, j) + Has(0, j) + Has(0, j)
    BY <1>5, TokensNone
  <2>4. core'[j].ref = core[j].ref + Has(i, j) /\ core[j].ref \in Nat BY <1>8 DEF Tables, Cores
  <2>5. Has(0, j) = 0 /\ Has(i, j) \in Nat /\ Has(cwd[p], j) \in Nat /\ Has(fd[p], j) \in Nat BY HasIs DEF Has, Inums
  <2>. QED BY <2>2, <2>3, <2>4, <2>5
<1>10. k[p].pc \notin Locks /\ r.pc \notin Locks /\ missed' \subseteq Inums /\ panicked' \in BOOLEAN
  BY <1>1, <1>5 DEF Locks, Tables
<1>. QED BY <1>1, <1>5, <1>6, <1>7, <1>8, <1>9, <1>10, SameDisk

\* The rest of a call after one iput.
LEMMA PoppedIs == ASSUME Tables, CallsOK, NEW p \in Procs, k[p].pc \in Puts
  PROVE  /\ Popped(p) \in CallRecords /\ Agrees(Popped(p)) /\ Popped(p).pc \notin Locks
         /\ Popped(p).dp = 0 /\ Popped(p).old = k[p].old /\ Popped(p).ip = k[p].ip
         /\ Popped(p).op = k[p].op /\ Popped(p).path = k[p].path
         /\ Popped(p).pc \in Puts => Popped(p).pc = "put" /\ Popped(p).after = k[p].after
         /\ Popped(p).pc \notin Puts => Popped(p).pc = k[p].after
         /\ \A w, f : \A j \in Inums :
              Tokens(w, f, k[p], j) = Tokens(w, f, Popped(p), j) + Has(Head(k[p].puts), j)
<1>. DEFINE r == Popped(p)
            c == k[p]
<1>1. PICK t \in CallRecords : t = k[p] /\ Agrees(t) BY Fields DEF CallsOK
<1>2. PICK s \in Seq(Inums) : s = t.puts /\ s # <<>> /\ Len(s) \in {1, 2} BY <1>1, CallIs, Fields
<1>3. t.after \in Walks \cup {"linkbad", "done"} /\ t.after \in Stages BY <1>1 DEF Agrees, CallRecords
<1>4. r = [t EXCEPT !.puts = Tail(s), !.pc = IF Len(s) = 1 THEN t.after ELSE "put"] BY <1>1, <1>2 DEF Popped
<1>5. Tail(s) \in Seq(Inums) BY <1>2
<1>6. r \in CallRecords
  <2>1. (IF Len(s) = 1 THEN t.after ELSE "put") \in Stages BY <1>3 DEF Stages
  <2>. HIDE DEF r
  <2>. QED BY <1>4, <1>5, <2>1 DEF CallRecords
<1>7. /\ r.op = t.op /\ r.path = t.path /\ r.new = t.new /\ r.ip = t.ip /\ r.dp = t.dp /\ r.old = t.old
      /\ r.puts = Tail(s) /\ r.after = t.after /\ r.pc = IF Len(s) = 1 THEN t.after ELSE "put"
  <2>. HIDE DEF r
  <2>. QED BY <1>4 DEF CallRecords
<1>8. t.dp = 0 BY <1>1, CallIs
<1>. HIDE DEF r
<1>9. CASE Len(s) = 1
  <2>1. PICK a \in Inums : s = <<a>> /\ Head(s) = a
    <3>1. s = <<s[1]>> /\ s[1] \in Inums BY <1>2, <1>9
    <3>. QED BY <3>1
  <2>2. Tail(s) = <<>> /\ Len(Tail(s)) = 0 BY <2>1
  <2>3. r.puts = <<>> /\ r.pc = t.after BY <2>2, <1>7, <1>9
  <2>4. Agrees(r) BY <2>2, <2>3, <1>1, <1>3, <1>7, <1>8 DEF Agrees, Walks, Puts
  <2>5. ASSUME NEW w, NEW f, NEW j \in Inums PROVE Tokens(w, f, t, j) = Tokens(w, f, r, j) + Has(a, j)
    <3>1. Tokens(w, f, t, j) = Has(w, j) + Has(f, j) + Has(t.ip, j) + Has(t.dp, j) + Has(t.old, j) + Has(a, j)
      BY <2>1, <1>2, TokensOne
    <3>2. Tokens(w, f, r, j) = Has(w, j) + Has(f, j) + Has(t.ip, j) + Has(t.dp, j) + Has(t.old, j)
      BY <2>3, <1>7, TokensNone
    <3>. QED BY <3>1, <3>2
  <2>6. r.pc \notin Locks /\ r.pc \notin Puts BY <2>3, <1>3 DEF Locks, Walks, Puts
  <2>. QED BY <2>1, <2>3, <2>4, <2>5, <2>6, <1>1, <1>2, <1>6, <1>7, <1>8 DEF r
<1>10. CASE Len(s) = 2
  <2>1. PICK a \in Inums, b \in Inums : s = <<a, b>> /\ Head(s) = a
    <3>1. s = <<s[1], s[2]>> /\ s[1] \in Inums /\ s[2] \in Inums BY <1>2, <1>10
    <3>. QED BY <3>1
  <2>2. Tail(s) = <<b>> /\ Len(Tail(s)) = 1 /\ <<b>> # <<>> BY <2>1
  <2>3. r.puts = <<b>> /\ r.pc = "put" BY <2>2, <1>7, <1>10
  <2>4. Agrees(r) BY <2>2, <2>3, <1>1, <1>3, <1>7, <1>8 DEF Agrees, Walks, Puts
  <2>5. ASSUME NEW w, NEW f, NEW j \in Inums PROVE Tokens(w, f, t, j) = Tokens(w, f, r, j) + Has(a, j)
    <3>1. Tokens(w, f, t, j) = Has(w, j) + Has(f, j) + Has(t.ip, j) + Has(t.dp, j) + Has(t.old, j) + Has(a, j) + Has(b, j)
      BY <2>1, <1>2, TokensTwo
    <3>2. Tokens(w, f, r, j) = Has(w, j) + Has(f, j) + Has(t.ip, j) + Has(t.dp, j) + Has(t.old, j) + Has(b, j)
      BY <2>3, <1>7, TokensOne
    <3>3. /\ Has(w, j) \in Nat /\ Has(f, j) \in Nat /\ Has(t.ip, j) \in Nat /\ Has(t.dp, j) \in Nat
          /\ Has(t.old, j) \in Nat /\ Has(a, j) \in Nat /\ Has(b, j) \in Nat BY HasIs
    <3>. QED BY <3>1, <3>2, <3>3
  <2>6. r.pc \notin Locks /\ r.pc = "put" /\ r.pc \in Puts /\ r.after = t.after BY <2>3, <1>7 DEF Locks, Puts
  <2>. QED BY <2>1, <2>3, <2>4, <2>5, <2>6, <1>1, <1>2, <1>6, <1>7, <1>8 DEF r
<1>. QED BY <1>2, <1>9, <1>10

\* Nobody else relies on an inode if p has the only reference to it.
LEMMA SoleIdle ==
  ASSUME Tables, CallsOK, NEW p \in Procs, NEW i \in Inums,
         \A q \in Procs \ {p} : NotBy(q, i)
  PROVE  /\ Idle(p, i) /\ NotNew(p, i)
         /\ \A q \in Procs \ {p} : k[q].dp # i /\ k[q].old # i
<1>1. ASSUME NEW q \in Procs \ {p}
      PROVE k[q].dp # i /\ k[q].old # i /\ k[q].ip # i /\ (k[q].pc = "free" => Head(k[q].puts) # i)
  <2>1. k[q].pc = "free" => 1 \in DOMAIN k[q].puts /\ k[q].puts[1] = Head(k[q].puts) BY CallIs DEF Puts
  <2>2. NotBy(q, i) OBVIOUS
  <2>. QED BY <2>1, <2>2 DEF Apart
<1>. QED BY <1>1 DEF Idle, NotNew

\* iput gives up a reference: the entry is free after the last one.
LEMMA DropKeeps ==
  ASSUME Inv, NEW p \in Procs, k[p].pc \in {"put", "drop"}, ~booting, booting' = booting,
         core' = Dropped(Head(k[p].puts)), k' = [k EXCEPT ![p] = Popped(p)],
         dino' = dino, ents' = ents, used' = used, stable' = stable, lock' = lock,
         cwd' = cwd, fd' = fd, missed' \subseteq Inums, panicked' = panicked PROVE Inv'
<1>. USE DEF Inv
<1>. DEFINE i == Head(k[p].puts)
            r == Popped(p)
<1>1. k[p].pc \in Puts BY DEF Puts
<1>2. i \in Inums /\ 1 \in DOMAIN k[p].puts /\ k[p].puts[1] = i BY <1>1, CallIs
<1>3. ~NotBy(p, i) BY <1>2 DEF Apart
<1>. HIDE DEF i
<1>4. core[i].ref # 0 BY <1>2, <1>3, HeldRef
<1>5. /\ core' \in [Inums -> Cores]
      /\ \A j \in Inums : core'[j].ref + Has(i, j) = core[j].ref
      /\ \A j \in Inums \ {i} : core'[j] = core[j]
      /\ core[i].ref = 1 => core'[i] = NoCore
      /\ core[i].ref # 1 => /\ core'[i].valid = core[i].valid /\ core'[i].inode = core[i].inode
                            /\ core'[i].ref # 0 BY <1>2, <1>4, DroppedIs DEF i
<1>6. /\ r \in CallRecords /\ Agrees(r) /\ r.pc \notin Locks /\ r.dp = 0 /\ r.old = k[p].old
      /\ \A j \in Inums : RefsBy(p, j) = Tokens(cwd[p], fd[p], r, j) + Has(i, j)
  BY <1>1, PoppedIs DEF i
<1>7. core[i].ref = 1 => Idle(p, i) /\ k[p].old # i
  <2>1. HAVE core[i].ref = 1
  <2>2. /\ \A q \in Procs \ {p} : NotBy(q, i)
        /\ RefsBy(p, i) = 1 BY <2>1, <1>2, <1>3, SoleRef
  <2>3. Tokens(cwd[p], fd[p], r, i) = 0
    <3>1. Has(i, i) = 1 /\ Tokens(cwd[p], fd[p], r, i) \in Nat BY <1>2, TokensZero DEF Has
    <3>. QED BY <3>1, <2>2, <1>2, <1>6
  <2>4. Apart(cwd[p], fd[p], r, i) BY <2>3, <1>2, TokensZero
  <2>. QED BY <2>2, <2>4, <1>2, <1>6, SoleIdle DEF Apart
<1>. HIDE DEF r
<1>8. Moves(p, r, cwd[p], fd[p])
  <2>1. booting' = FALSE BY DEF Tables
  <2>. QED BY <2>1, <1>6, MovesCall DEF r
<1>9. ASSUME NEW j \in Inums PROVE core'[j].ref + RefsBy(p, j) = core[j].ref + Tokens(cwd[p], fd[p], r, j)
  <2>1. Has(i, j) \in Nat /\ Tokens(cwd[p], fd[p], r, j) \in Nat /\ core'[j].ref \in Nat
    BY <1>5, HasIs, TokensZero DEF Cores
  <2>. QED BY <2>1, <1>5, <1>6
<1>10. \A j \in Inums : core'[j].ref = 0 => core'[j] = NoCore BY <1>5 DEF CoresOK
<1>11. ASSUME NEW j \in Inums
       PROVE  /\ \/ core'[j].valid = core[j].valid /\ core'[j].inode = core[j].inode
                 \/ core'[j].inode = dino[j] /\ dino[j].type # "free"
                 \/ ~core'[j].valid
              /\ core[j].valid => core'[j].valid \/ Idle(p, j) BY <1>5, <1>7, NoCoreIs
<1>12. r.old # 0 => core'[r.old].valid
  <2>1. HAVE r.old # 0
  <2>2. PICK j \in Inums : j = r.old /\ core[j].valid BY <2>1, <1>6, Fields DEF HeldOK
  <2>. QED BY <2>2, <1>5, <1>6, <1>7
<1>13. k[p].pc \notin Locks /\ panicked' \in BOOLEAN BY DEF Locks, Tables
<1>. QED BY <1>5, <1>6, <1>8, <1>9, <1>10, <1>11, <1>12, <1>13, SameDisk

\* iput of a reference, under itable.lock all the time, and its end.
LEMMA IputPlain == ASSUME Inv, NEW p \in Procs, Iput(p), ~LastOfUnlinked(Head(k[p].puts)) PROVE Inv'
<1>1. /\ k[p].pc = "put" /\ ~booting /\ booting' = booting
      /\ core' = Dropped(Head(k[p].puts)) /\ k' = [k EXCEPT ![p] = Popped(p)]
      /\ dino' = dino /\ ents' = ents /\ used' = used /\ stable' = stable /\ lock' = lock
      /\ cwd' = cwd /\ fd' = fd /\ missed' = missed /\ panicked' = panicked BY DEF Iput, At, Up, diskVars
<1>2. missed' \subseteq Inums BY <1>1 DEF Inv, Tables
<1>. QED BY <1>1, <1>2, DropKeeps

\* iput drops the reference to an inode it has freed.
LEMMA IputDropKeeps == ASSUME Inv, NEW p \in Procs, IputDrop(p) PROVE Inv'
<1>1. /\ k[p].pc = "drop" /\ ~booting /\ booting' = booting
      /\ core' = Dropped(Head(k[p].puts)) /\ k' = [k EXCEPT ![p] = Popped(p)]
      /\ missed' = IF LastOfUnlinked(Head(k[p].puts)) THEN missed \cup {Head(k[p].puts)} ELSE missed
      /\ dino' = dino /\ ents' = ents /\ used' = used /\ stable' = stable /\ lock' = lock
      /\ cwd' = cwd /\ fd' = fd /\ panicked' = panicked BY DEF IputDrop, At, Up, diskVars
<1>2. missed' \subseteq Inums
  <2>1. Head(k[p].puts) \in Inums /\ missed \subseteq Inums BY <1>1, CallIs DEF Inv, Tables, Puts
  <2>. QED BY <2>1, <1>1
<1>. QED BY <1>1, <1>2, DropKeeps

\* The table itself is one, and so is the one after ilock.
LEMMA CoreIsTable == ASSUME Tables, CoresOK PROVE SameTable(core) BY DEF Tables, CoresOK, SameTable

\* ilock only brings a copy in.
LEMMA LockedTable ==
  ASSUME Tables, LocksOK, CoresOK, NEW i \in Inums, lock[i] = None, ~NoType(i), core[i].ref # 0,
         NEW c, c = [core EXCEPT ![i] = Locked(i)]
  PROVE SameTable(c) /\ c[i].valid /\ c[i].inode = dino[i] /\ dino[i].type # "free"
<1>1. /\ Locked(i) \in Cores /\ dino[i].type # "free"
      /\ Locked(i).ref = core[i].ref /\ Locked(i).valid /\ Locked(i).inode = dino[i] BY LockedIs
<1>2. core \in [Inums -> Cores] /\ \A j \in Inums : core[j].ref = 0 => core[j] = NoCore BY DEF Tables, CoresOK
<1>3. c[i] = Locked(i) /\ (\A j \in Inums \ {i} : c[j] = core[j]) /\ c \in [Inums -> Cores] BY <1>1, <1>2
<1>. QED BY <1>1, <1>2, <1>3 DEF SameTable

\* A step that moves references about, and one that takes another reference.
LEMMA TableStep ==
  ASSUME Inv, NEW p \in Procs, NEW r, NEW w, NEW f, Moves(p, r, w, f), SameTable(core'),
         dino' = dino, ents' = ents, used' = used, stable' = stable, lock' = lock,
         missed' = missed, panicked' = panicked,
         Agrees(r), k[p].pc \notin Locks, r.pc \notin Locks,
         \A j \in Inums : Tokens(w, f, r, j) = RefsBy(p, j),
         r.dp # 0 => core'[r.dp].valid /\ dino[r.dp].type = "dir" /\ lock[r.dp] = None,
         r.old \in {0, k[p].old} PROVE Inv'
<1>. USE DEF Inv
<1>1. /\ core' \in [Inums -> Cores]
      /\ \A j \in Inums : /\ core'[j].ref = core[j].ref
                          /\ core[j].valid => core'[j].valid
                          /\ core'[j].ref = 0 => core'[j] = NoCore
                          /\ core'[j] = core[j] \/ (core'[j].inode = dino[j] /\ dino[j].type # "free")
  BY DEF SameTable
<1>2. missed' \subseteq Inums /\ panicked' \in BOOLEAN BY DEF Tables
<1>3. \A i \in Inums : core'[i].ref + RefsBy(p, i) = core[i].ref + Tokens(w, f, r, i) BY <1>1
<1>4. r.old # 0 => r.old = k[p].old /\ core'[r.old].valid
  <2>1. HAVE r.old # 0
  <2>2. PICK j \in Inums : j = r.old /\ j = k[p].old /\ core[j].valid BY <2>1, Fields DEF HeldOK
  <2>. QED BY <2>2, <1>1
<1>5. \A i \in Inums : \/ core'[i].valid = core[i].valid /\ core'[i].inode = core[i].inode
                       \/ core'[i].inode = dino[i] /\ dino[i].type # "free"
                       \/ ~core'[i].valid BY <1>1
<1>6. r.dp # 0 => /\ core'[r.dp].valid /\ dino[r.dp].type = "dir"
                  /\ r.dp = k[p].dp \/ lock[r.dp] = None OBVIOUS
<1>. QED BY <1>1, <1>2, <1>3, <1>4, <1>5, <1>6, SameDisk

\* The same with a reference taken on the way.
LEMMA TableIget ==
  ASSUME Inv, NEW p \in Procs, NEW r, NEW w, NEW f, Moves(p, r, w, f),
         NEW c, SameTable(c), NEW n \in Inums, core' = Iget(c, n),
         dino' = dino, ents' = ents, used' = used, stable' = stable, lock' = lock,
         missed' = missed, panicked' = panicked,
         Agrees(r), k[p].pc \notin Locks, r.pc \notin Locks,
         \A j \in Inums : Tokens(w, f, r, j) = RefsBy(p, j) + Has(n, j),
         r.dp = 0, r.old \in {0, k[p].old} PROVE Inv'
<1>. USE DEF Inv
<1>0. /\ c \in [Inums -> Cores]
      /\ \A j \in Inums : /\ c[j].ref = core[j].ref
                          /\ core[j].valid => c[j].valid
                          /\ c[j].ref = 0 => c[j] = NoCore
                          /\ c[j] = core[j] \/ (c[j].inode = dino[j] /\ dino[j].type # "free")
  BY DEF SameTable
<1>1. /\ core' \in [Inums -> Cores]
      /\ \A j \in Inums : /\ core'[j].ref = c[j].ref + Has(n, j)
                          /\ core'[j].valid = c[j].valid /\ core'[j].inode = c[j].inode
      /\ \A j \in Inums \ {n} : core'[j] = c[j] BY <1>0, IgetIs
<1>2. missed' \subseteq Inums /\ panicked' \in BOOLEAN BY DEF Tables
<1>3. ASSUME NEW i \in Inums PROVE core'[i].ref + RefsBy(p, i) = core[i].ref + Tokens(w, f, r, i)
  <2>1. /\ core[i].ref \in Nat /\ Has(n, i) \in Nat /\ RefsBy(p, i) \in Nat
        /\ core'[i].ref = core[i].ref + Has(n, i) BY <1>0, <1>1, HasIs, TokensZero DEF Cores
  <2>. QED BY <2>1
<1>4. r.old # 0 => r.old = k[p].old /\ core'[r.old].valid
  <2>1. HAVE r.old # 0
  <2>2. PICK j \in Inums : j = r.old /\ j = k[p].old /\ core[j].valid BY <2>1, Fields DEF HeldOK
  <2>. QED BY <2>2, <1>0, <1>1
<1>5. ASSUME NEW i \in Inums
      PROVE  \/ core'[i].valid = core[i].valid /\ core'[i].inode = core[i].inode
             \/ core'[i].inode = dino[i] /\ dino[i].type # "free"
             \/ ~core'[i].valid BY <1>0, <1>1
<1>6. ASSUME NEW i \in Inums, core'[i].ref = 0 PROVE core'[i] = NoCore
  <2>1. i # n
    <3>1. c[n].ref \in Nat BY <1>0 DEF Cores
    <3>. QED BY <3>1, <1>1, <1>6 DEF Has
  <2>. QED BY <2>1, <1>0, <1>1, <1>6
<1>7. \A i \in Inums : core[i].valid => core'[i].valid \/ Idle(p, i) BY <1>0, <1>1
<1>. QED BY <1>1, <1>2, <1>3, <1>4, <1>5, <1>6, <1>7, SameDisk

\* A path element found, not found, or the last but for the name.
LEMMA NamexKeeps == ASSUME Inv, NEW p \in Procs, Namex(p) PROVE Inv'
<1>. USE DEF Inv
<1>. DEFINE i == k[p].ip
            last == Len(k[p].path) = 1
            next == Dirlookup(i, Head(k[p].path))
            c == [core EXCEPT ![i] = Locked(i)]
            isdir == Locked(i).inode.type = "dir"
<1>1. /\ k[p].pc = "walk" /\ ~booting /\ lock[i] = None BY DEF Namex, At, Up
<1>2. CASE NoType(i)
  <2>1. Panic BY <1>2 DEF Namex
  <2>. QED BY <2>1, PanicKeeps
<1>3. CASE ~NoType(i)
  <2>1. /\ \/ isdir /\ last /\ WantsParent(p) /\ core' = c /\ k' = [k EXCEPT ![p].pc = "parent", ![p].dp = i, ![p].ip = 0]
           \/ /\ isdir /\ ~(last /\ WantsParent(p)) /\ next # 0
              /\ core' = Iget(c, next)
              /\ k' = [k EXCEPT ![p] = [PutThen(p, <<i>>, IF last THEN "at" ELSE "walk")
                                          EXCEPT !.ip = next, !.path = Tail(k[p].path)]]
           \/ core' = c /\ k' = [k EXCEPT ![p] = PutThen(p, <<i>>, Failed(p))]
        /\ dino' = dino /\ ents' = ents /\ used' = used /\ stable' = stable /\ lock' = lock
        /\ cwd' = cwd /\ fd' = fd /\ missed' = missed /\ booting' = booting /\ panicked' = panicked
    BY <1>3 DEF Namex, diskVars
  <2>2. /\ i \in Inums /\ k[p].dp = 0 /\ k[p].puts = <<>> /\ k[p].path # <<>>
        /\ k[p].path \in Seq(Elements) /\ k[p].old \in {0} \cup Inums /\ k[p] \in CallRecords /\ Agrees(k[p])
    <3>1. k[p].pc \in Walks /\ k[p].pc \notin Puts BY <1>1 DEF Walks, Puts
    <3>2. Agrees(k[p]) BY DEF CallsOK
    <3>. QED
      <4>1. k[p].path # <<>> BY <1>1, <3>2 DEF Agrees
      <4>. QED BY <4>1, <3>1, <3>2, CallIs, Fields
  <2>3. booting' = FALSE BY <1>1, <2>1 DEF Tables
  <2>4. core[i].ref # 0
    <3>1. ~NotBy(p, i) BY DEF Apart
    <3>. QED BY <2>2, <3>1, HeldRef
  <2>5. SameTable(c) /\ c[i].valid /\ c[i].inode = dino[i] /\ dino[i].type # "free"
    BY <1>1, <1>3, <2>2, <2>4, LockedTable
  <2>6. isdir => dino[i].type = "dir" BY <1>1, <1>3, <2>2, LockedIs
  <2>. HIDE DEF c, i
  <2>7. CASE isdir /\ last /\ WantsParent(p) /\ core' = c /\ k' = [k EXCEPT ![p].pc = "parent", ![p].dp = i, ![p].ip = 0]
    <3>. DEFINE r == [k[p] EXCEPT !.pc = "parent", !.dp = i, !.ip = 0]
    <3>1. k' = [k EXCEPT ![p] = r] BY <2>7, <2>2 DEF Tables
    <3>2. r \in CallRecords BY <2>2 DEF CallRecords, Stages
    <3>3. /\ r.pc = "parent" /\ r.op = k[p].op /\ r.path = k[p].path /\ r.new = k[p].new /\ r.ip = 0 /\ r.dp = i
          /\ r.old = k[p].old /\ r.puts = <<>> /\ r.after = k[p].after BY <2>2 DEF CallRecords
    <3>. HIDE DEF r
    <3>4. Agrees(r) BY <3>3, <2>2, <1>1 DEF Agrees, Walks, Puts, Inums
    <3>5. Moves(p, r, cwd[p], fd[p]) BY <3>1, <3>2, <2>1, <2>3, MovesCall
    <3>6. ASSUME NEW j \in Inums PROVE Tokens(cwd[p], fd[p], r, j) = RefsBy(p, j)
      <4>1. RefsBy(p, j) = Has(cwd[p], j) + Has(fd[p], j) + Has(i, j) + Has(0, j) + Has(k[p].old, j)
        BY <2>2, TokensNone DEF i
      <4>2. Tokens(cwd[p], fd[p], r, j) = Has(cwd[p], j) + Has(fd[p], j) + Has(0, j) + Has(i, j) + Has(k[p].old, j)
        BY <3>3, TokensNone
      <4>3. /\ Has(cwd[p], j) \in Nat /\ Has(fd[p], j) \in Nat /\ Has(0, j) \in Nat /\ Has(i, j) \in Nat
            /\ Has(k[p].old, j) \in Nat BY HasIs
      <4>. QED BY <4>1, <4>2, <4>3
    <3>7. k[p].pc \notin Locks /\ r.pc \notin Locks BY <1>1, <3>3 DEF Locks
    <3>8. SameTable(core') /\ (r.dp # 0 => core'[r.dp].valid /\ dino[r.dp].type = "dir" /\ lock[r.dp] = None)
      BY <2>5, <2>6, <2>7, <3>3, <1>1
    <3>. QED BY <2>1, <3>3, <3>4, <3>5, <3>6, <3>7, <3>8, TableStep
  <2>8. CASE /\ isdir /\ ~(last /\ WantsParent(p)) /\ next # 0
             /\ core' = Iget(c, next)
             /\ k' = [k EXCEPT ![p] = [PutThen(p, <<i>>, IF last THEN "at" ELSE "walk")
                                          EXCEPT !.ip = next, !.path = Tail(k[p].path)]]
    <3>. DEFINE stage == IF last THEN "at" ELSE "walk"
                r == On(k[p], next, Tail(k[p].path), <<i>>, stage)
    <3>1. next \in Inums
      <4>1. Head(k[p].path) \in Elements BY <2>2
      <4>. QED BY <2>2, <2>8, <4>1 DEF Dirlookup, Tables
    <3>2. stage \in Stages /\ stage # "done" /\ stage \in Walks /\ stage # "linkbad" /\ stage # "old"
      BY DEF Stages, Walks
    <3>3. Tail(k[p].path) \in Seq(Elements) /\ (stage = "walk" => Tail(k[p].path) # <<>>)
      <4>1. PICK s \in Seq(Elements) : s = k[p].path /\ s # <<>> BY <2>2
      <4>2. Tail(s) \in Seq(Elements) /\ Len(Tail(s)) = Len(s) - 1 /\ Len(s) \in Nat BY <4>1
      <4>3. stage = "walk" => Len(s) # 1 BY <4>1
      <4>4. Len(Tail(s)) # 0 => Tail(s) # <<>>
        <5>1. Len(<<>>) = 0 OBVIOUS
        <5>. QED BY <5>1, Zenon
      <4>. QED BY <4>1, <4>2, <4>3, <4>4
    <3>. HIDE DEF stage
    <3>4. k' = [k EXCEPT ![p] = r]
      <4>1. [PutThen(p, <<i>>, stage) EXCEPT !.ip = next, !.path = Tail(k[p].path)] = r
        <5>1. PutThen(p, <<i>>, stage) = On(k[p], 0, k[p].path, <<i>>, stage) BY <2>2, <3>2, PutThenOn
        <5>. DEFINE o == On(k[p], 0, k[p].path, <<i>>, stage)
                    u == Tail(k[p].path)
        <5>2. [o EXCEPT !.ip = next, !.path = u] = On(k[p], next, u, <<i>>, stage)
          <6>1. PICK a, b, c1, d, e, g : a = k[p] /\ b = k[p].path /\ c1 = <<i>> /\ d = stage /\ e = next /\ g = u
            OBVIOUS
          <6>2. [On(a, 0, b, c1, d) EXCEPT !.ip = e, !.path = g] = On(a, e, g, c1, d)
            <7>1. [On(a, 0, b, c1, d) EXCEPT !.ip = e] = On(a, e, b, c1, d) BY DEF On
            <7>2. [On(a, e, b, c1, d) EXCEPT !.path = g] = On(a, e, g, c1, d) BY DEF On
            <7>3. [On(a, 0, b, c1, d) EXCEPT !.ip = e, !.path = g] = [[On(a, 0, b, c1, d) EXCEPT !.ip = e] EXCEPT !.path = g]
              OBVIOUS
            <7>. QED BY <7>1, <7>2, <7>3, Zenon
          <6>. HIDE DEF u, next
          <6>. QED BY <6>1, <6>2, Zenon
        <5>3. PutThen(p, <<i>>, stage) = o BY <5>1
        <5>. HIDE DEF o
        <5>. QED BY <5>2, <5>3
      <4>. QED BY <4>1, <2>8 DEF stage
    <3>. HIDE DEF next
    <3>5. r \in CallRecords /\ Agrees(r)
      <4>1. next # 0 BY <3>1 DEF Inums
      <4>. QED BY <4>1, <2>2, <3>1, <3>2, <3>3, OnIs
    <3>6. /\ r.pc = "put" /\ r.ip = next /\ r.dp = 0 /\ r.old = k[p].old /\ r.puts = <<i>> BY DEF On
    <3>. HIDE DEF r
    <3>7. Moves(p, r, cwd[p], fd[p]) BY <3>4, <3>5, <2>1, <2>3, MovesCall
    <3>8. ASSUME NEW j \in Inums PROVE Tokens(cwd[p], fd[p], r, j) = RefsBy(p, j) + Has(next, j)
      <4>1. RefsBy(p, j) = Has(cwd[p], j) + Has(fd[p], j) + Has(i, j) + Has(0, j) + Has(k[p].old, j)
        BY <2>2, TokensNone DEF i
      <4>2. Tokens(cwd[p], fd[p], r, j) = Has(cwd[p], j) + Has(fd[p], j) + Has(next, j) + Has(0, j) + Has(k[p].old, j) + Has(i, j)
        BY <3>6, TokensOne
      <4>3. /\ Has(cwd[p], j) \in Nat /\ Has(fd[p], j) \in Nat /\ Has(0, j) \in Nat /\ Has(i, j) \in Nat
            /\ Has(k[p].old, j) \in Nat /\ Has(next, j) \in Nat BY HasIs
      <4>. QED BY <4>1, <4>2, <4>3
    <3>9. k[p].pc \notin Locks /\ r.pc \notin Locks BY <1>1, <3>6 DEF Locks
    <3>. QED BY <2>1, <2>5, <2>8, <3>1, <3>5, <3>6, <3>7, <3>8, <3>9, TableIget
  <2>9. CASE core' = c /\ k' = [k EXCEPT ![p] = PutThen(p, <<i>>, Failed(p))]
    <3>1. PICK r \in CallRecords : /\ r = PutThen(p, <<i>>, Failed(p)) /\ Agrees(r)
                                   /\ r.pc = "put" /\ r.ip = 0 /\ r.dp = 0 /\ r.puts = <<i>> /\ r.old = k[p].old
      <4>1. CASE k[p].op = "linkto"
        <5>1. Failed(p) = "linkbad" /\ "linkbad" \in Stages BY <4>1 DEF Failed, Stages
        <5>2. PutThen(p, <<i>>, Failed(p)) = On(k[p], 0, k[p].path, <<i>>, "linkbad") BY <5>1, <2>2, PutThenOn
        <5>3. On(k[p], 0, k[p].path, <<i>>, "linkbad") \in CallRecords /\ Agrees(On(k[p], 0, k[p].path, <<i>>, "linkbad"))
          BY <5>1, <4>1, <2>2, OnIs DEF Walks
        <5>. QED BY <5>2, <5>3 DEF On
      <4>2. CASE k[p].op # "linkto"
        <5>1. Failed(p) = "done" /\ k[p].old = 0 BY <4>2, CallIs DEF Failed
        <5>. QED BY <5>1, <2>2, EndsOne
      <4>. QED BY <4>1, <4>2
    <3>2. Moves(p, r, cwd[p], fd[p]) BY <3>1, <2>1, <2>3, <2>9, MovesCall
    <3>3. ASSUME NEW j \in Inums PROVE Tokens(cwd[p], fd[p], r, j) = RefsBy(p, j)
      <4>1. RefsBy(p, j) = Has(cwd[p], j) + Has(fd[p], j) + Has(i, j) + Has(0, j) + Has(k[p].old, j)
        BY <2>2, TokensNone DEF i
      <4>2. Tokens(cwd[p], fd[p], r, j) = Has(cwd[p], j) + Has(fd[p], j) + Has(0, j) + Has(0, j) + Has(k[p].old, j) + Has(i, j)
        BY <3>1, TokensOne
      <4>3. /\ Has(cwd[p], j) \in Nat /\ Has(fd[p], j) \in Nat /\ Has(0, j) = 0 /\ Has(i, j) \in Nat
            /\ Has(k[p].old, j) \in Nat BY HasIs DEF Has, Inums
      <4>. QED BY <4>1, <4>2, <4>3
    <3>4. k[p].pc \notin Locks /\ r.pc \notin Locks BY <1>1, <3>1 DEF Locks
    <3>. QED BY <2>1, <2>5, <2>9, <3>1, <3>2, <3>3, <3>4, TableStep
  <2>. QED BY <2>1, <2>7, <2>8, <2>9 DEF c, i
<1>. QED BY <1>2, <1>3

\* A call at an inode, and what ends it.
LEMMA AtFacts == ASSUME Inv, NEW p \in Procs, k[p].pc \in {"at", "old"}, k[p].op # "linkto"
  PROVE  /\ k[p].ip \in Inums /\ core[k[p].ip].ref # 0 /\ k[p].old = 0 /\ k[p].dp = 0 /\ k[p].pc \notin Locks
         /\ \A j \in Inums : /\ RefsBy(p, j) = Has(cwd[p], j) + Has(fd[p], j) + Has(k[p].ip, j)
                             /\ Has(cwd[p], j) \in Nat /\ Has(fd[p], j) \in Nat /\ Has(k[p].ip, j) \in Nat
<1>. USE DEF Inv
<1>1. k[p].pc \in Walks /\ k[p].pc \notin Puts /\ k[p].pc \notin Locks BY DEF Walks, Puts, Locks
<1>2. k[p].ip \in Inums /\ k[p].dp = 0 /\ k[p].puts = <<>> /\ k[p].old = 0 BY <1>1, CallIs
<1>3. ~Apart(cwd[p], fd[p], k[p], k[p].ip) BY DEF Apart
<1>4. ASSUME NEW j \in Inums
      PROVE  /\ RefsBy(p, j) = Has(cwd[p], j) + Has(fd[p], j) + Has(k[p].ip, j)
             /\ Has(cwd[p], j) \in Nat /\ Has(fd[p], j) \in Nat /\ Has(k[p].ip, j) \in Nat
  <2>1. RefsBy(p, j) = Has(cwd[p], j) + Has(fd[p], j) + Has(k[p].ip, j) + Has(0, j) + Has(0, j)
    BY <1>2, TokensNone
  <2>2. Has(cwd[p], j) \in Nat /\ Has(fd[p], j) \in Nat /\ Has(k[p].ip, j) \in Nat /\ Has(0, j) = 0
    BY HasIs DEF Has, Inums
  <2>. QED BY <2>1, <2>2
<1>. QED BY <1>1, <1>2, <1>3, <1>4, HeldRef

\* The tokens of a call that only puts one inode or two.
LEMMA EndTokens == ASSUME NEW w, NEW f, NEW r, r.ip = 0, r.dp = 0, r.old = 0, NEW j \in Inums
  PROVE  /\ r.puts = <<>> => Tokens(w, f, r, j) = Has(w, j) + Has(f, j)
         /\ \A a : r.puts = <<a>> => Tokens(w, f, r, j) = Has(w, j) + Has(f, j) + Has(a, j)
         /\ \A a, b : r.puts = <<a, b>> => Tokens(w, f, r, j) = Has(w, j) + Has(f, j) + Has(a, j) + Has(b, j)
<1>0. Has(0, j) = 0 /\ Has(w, j) \in Nat /\ Has(f, j) \in Nat /\ \A a : Has(a, j) \in Nat BY HasIs DEF Has, Inums
<1>1. r.puts = <<>> => Tokens(w, f, r, j) = Has(w, j) + Has(f, j)
  <2>1. HAVE r.puts = <<>>
  <2>2. Tokens(w, f, r, j) = Has(w, j) + Has(f, j) + Has(r.ip, j) + Has(r.dp, j) + Has(r.old, j) BY <2>1, TokensNone
  <2>. QED BY <2>2, <1>0
<1>2. ASSUME NEW a, r.puts = <<a>> PROVE Tokens(w, f, r, j) = Has(w, j) + Has(f, j) + Has(a, j)
  <2>2. Tokens(w, f, r, j) = Has(w, j) + Has(f, j) + Has(r.ip, j) + Has(r.dp, j) + Has(r.old, j) + Has(a, j)
    BY <1>2, TokensOne
  <2>. QED BY <2>2, <1>0
<1>3. ASSUME NEW a, NEW b, r.puts = <<a, b>> PROVE Tokens(w, f, r, j) = Has(w, j) + Has(f, j) + Has(a, j) + Has(b, j)
  <2>2. Tokens(w, f, r, j) = Has(w, j) + Has(f, j) + Has(r.ip, j) + Has(r.dp, j) + Has(r.old, j) + Has(a, j) + Has(b, j)
    BY <1>3, TokensTwo
  <2>. QED BY <2>2, <1>0
<1>. QED BY <1>1, <1>2, <1>3

\* The call that ends and puts nothing.
LEMMA EndsNone == ASSUME NEW p
  PROVE  /\ PutThen(p, <<>>, "done") \in CallRecords /\ Agrees(PutThen(p, <<>>, "done"))
         /\ PutThen(p, <<>>, "done").pc = "done"
         /\ PutThen(p, <<>>, "done").op = "none" /\ PutThen(p, <<>>, "done").ip = 0
         /\ PutThen(p, <<>>, "done").dp = 0 /\ PutThen(p, <<>>, "done").old = 0
         /\ PutThen(p, <<>>, "done").puts = <<>> /\ PutThen(p, <<>>, "done").after = "done"
<1>1. PICK s \in Seq(Inums) : s = <<>> /\ Len(s) <= 2
  <2>1. <<>> \in Seq(Inums) /\ Len(<<>>) <= 2 OBVIOUS
  <2>. QED BY <2>1, Zenon
<1>2. PutThen(p, s, "done") = Done(s) /\ Done(s) \in CallRecords /\ Agrees(Done(s)) BY <1>1, PutThenDone, DoneIs
<1>3. /\ Done(s).pc = "done" /\ Done(s).op = "none" /\ Done(s).ip = 0 /\ Done(s).dp = 0 /\ Done(s).old = 0
      /\ Done(s).puts = s /\ Done(s).after = "done" BY <1>1 DEF Done
<1>. QED BY <1>1, <1>2, <1>3, Zenon

\* A step that leaves the disk and the locks alone and ends the call: the
\* references it puts, and the ones the process keeps, are the ones it had.
LEMMA EndStep ==
  ASSUME Inv, NEW p \in Procs, NEW r \in CallRecords, NEW w \in Inums, NEW f \in {0} \cup Inums,
         Agrees(r), r.pc \in {"put", "done"}, r.dp = 0, r.old = 0,
         k' = [k EXCEPT ![p] = r], cwd' = [cwd EXCEPT ![p] = w], fd' = [fd EXCEPT ![p] = f],
         ~booting, booting' = booting, SameTable(core'),
         dino' = dino, ents' = ents, used' = used, stable' = stable, lock' = lock,
         missed' = missed, panicked' = panicked, k[p].pc \notin Locks,
         \A j \in Inums : Tokens(w, f, r, j) = RefsBy(p, j) PROVE Inv'
<1>1. booting' = FALSE BY DEF Inv, Tables
<1>2. Moves(p, r, w, f) BY <1>1 DEF Moves
<1>3. r.pc \notin Locks /\ ~(r.dp # 0) /\ r.old \in {0, k[p].old} BY DEF Locks
<1>. QED BY <1>2, <1>3, TableStep
\* chdir: the old directory is put, or the inode that is none.
LEMMA ChdirKeeps == ASSUME Inv, NEW p \in Procs, Chdir(p) PROVE Inv'
<1>. USE DEF Inv
<1>. DEFINE i == k[p].ip
<1>1. k[p].pc = "at" /\ ~booting /\ lock[i] = None /\ k[p].op = "chdir" BY DEF Chdir, AtInode, At, Up
<1>2. CASE NoType(i) BY <1>2, PanicKeeps DEF Chdir
<1>3. CASE ~NoType(i)
  <2>1. /\ core' = [core EXCEPT ![i] = Locked(i)]
        /\ \/ cwd' = [cwd EXCEPT ![p] = i] /\ k' = [k EXCEPT ![p] = PutThen(p, <<cwd[p]>>, "done")]
           \/ k' = [k EXCEPT ![p] = PutThen(p, <<i>>, "done")] /\ cwd' = cwd BY <1>3 DEF Chdir
  <2>a. /\ dino' = dino /\ ents' = ents /\ used' = used /\ stable' = stable /\ lock' = lock
        /\ fd' = fd /\ missed' = missed /\ booting' = booting /\ panicked' = panicked
    BY <1>3 DEF Chdir, diskVars
  <2>2. /\ i \in Inums /\ core[i].ref # 0 /\ k[p].pc \notin Locks
        /\ \A j \in Inums : /\ RefsBy(p, j) = Has(cwd[p], j) + Has(fd[p], j) + Has(i, j)
                            /\ Has(cwd[p], j) \in Nat /\ Has(fd[p], j) \in Nat /\ Has(i, j) \in Nat
    BY <1>1, AtFacts
  <2>3. SameTable(core') BY <1>1, <1>3, <2>1, <2>2, LockedTable
  <2>4. booting' = FALSE /\ cwd[p] \in Inums /\ fd[p] \in {0} \cup Inums BY <1>1, <2>a DEF Tables
  <2>. HIDE DEF i
  <2>5. CASE cwd' = [cwd EXCEPT ![p] = i] /\ k' = [k EXCEPT ![p] = PutThen(p, <<cwd[p]>>, "done")]
    <3>1. PICK r \in CallRecords : /\ r = PutThen(p, <<cwd[p]>>, "done") /\ Agrees(r) /\ r.pc = "put" /\ r.ip = 0
                                   /\ r.dp = 0 /\ r.old = 0 /\ r.puts = <<cwd[p]>> BY <2>4, EndsOne
    <3>2. Moves(p, r, i, fd[p]) BY <3>1, <2>a, <2>2, <2>4, <2>5 DEF Moves, Tables
    <3>3. ASSUME NEW j \in Inums PROVE Tokens(i, fd[p], r, j) = RefsBy(p, j)
      <4>1. Tokens(i, fd[p], r, j) = Has(i, j) + Has(fd[p], j) + Has(cwd[p], j) BY <3>1, EndTokens
      <4>. QED BY <4>1, <2>2
    <3>4. r.pc \notin Locks BY <3>1 DEF Locks
    <3>. HIDE DEF Inv
    <3>. QED BY <2>a, <2>2, <2>3, <3>1, <3>2, <3>3, <3>4, TableStep
  <2>6. CASE k' = [k EXCEPT ![p] = PutThen(p, <<i>>, "done")] /\ cwd' = cwd
    <3>1. PICK r \in CallRecords : /\ r = PutThen(p, <<i>>, "done") /\ Agrees(r) /\ r.pc = "put" /\ r.ip = 0
                                   /\ r.dp = 0 /\ r.old = 0 /\ r.puts = <<i>> BY <2>2, EndsOne
    <3>2. Moves(p, r, cwd[p], fd[p]) BY <3>1, <2>a, <2>4, <2>6, MovesCall
    <3>3. ASSUME NEW j \in Inums PROVE Tokens(cwd[p], fd[p], r, j) = RefsBy(p, j)
      BY <3>1, <2>2, EndTokens
    <3>4. r.pc \notin Locks BY <3>1 DEF Locks
    <3>. HIDE DEF Inv
    <3>. QED BY <2>a, <2>2, <2>3, <3>1, <3>2, <3>3, <3>4, TableStep
  <2>. QED BY <2>1, <2>5, <2>6 DEF i
<1>. QED BY <1>2, <1>3

\* create of a name that is there.
LEMMA CreateOldKeeps == ASSUME Inv, NEW p \in Procs, NEW ok \in BOOLEAN, CreateOld(p, ok) PROVE Inv'
<1>. USE DEF Inv
<1>. DEFINE i == k[p].ip
            good == ok /\ k[p].op = "creat" /\ Locked(i).inode.type \in {"file", "dev"}
<1>1. k[p].pc = "old" /\ ~booting /\ lock[i] = None BY DEF CreateOld, AtInode, At, Up
<1>2. CASE NoType(i) BY <1>2, PanicKeeps DEF CreateOld
<1>3. CASE ~NoType(i)
  <2>1. /\ core' = [core EXCEPT ![i] = Locked(i)] /\ Keep(p, i, good, <<>>)
        /\ dino' = dino /\ ents' = ents /\ used' = used /\ stable' = stable /\ lock' = lock
        /\ cwd' = cwd /\ missed' = missed /\ booting' = booting /\ panicked' = panicked
    BY <1>3 DEF CreateOld, diskVars
  <2>2. /\ i \in Inums /\ core[i].ref # 0 /\ k[p].pc \notin Locks
        /\ \A j \in Inums : /\ RefsBy(p, j) = Has(cwd[p], j) + Has(fd[p], j) + Has(i, j)
                            /\ Has(cwd[p], j) \in Nat /\ Has(fd[p], j) \in Nat /\ Has(i, j) \in Nat
    <3>1. k[p].op # "linkto" BY <1>1 DEF CallsOK, Agrees
    <3>. QED BY <1>1, <3>1, AtFacts
  <2>3. SameTable(core') BY <1>1, <1>3, <2>1, <2>2, LockedTable
  <2>4. cwd' = [cwd EXCEPT ![p] = cwd[p]] /\ cwd[p] \in Inums /\ fd[p] \in {0} \cup Inums BY <2>1 DEF Tables
  <2>a. /\ dino' = dino /\ ents' = ents /\ used' = used /\ stable' = stable /\ lock' = lock
        /\ ~booting /\ booting' = booting /\ missed' = missed /\ panicked' = panicked /\ k[p].pc \notin Locks
    BY <1>1, <2>1, <2>2
  <2>. HIDE DEF i
  <2>5. CASE good /\ fd[p] = 0
    <3>1. k' = [k EXCEPT ![p] = PutThen(p, <<>>, "done")] /\ fd' = [fd EXCEPT ![p] = i] BY <2>1, <2>5 DEF Keep
    <3>2. PICK r \in CallRecords : /\ r = PutThen(p, <<>>, "done") /\ Agrees(r) /\ r.pc = "done" /\ r.ip = 0
                                   /\ r.dp = 0 /\ r.old = 0 /\ r.puts = <<>> BY EndsNone
    <3>3. ASSUME NEW j \in Inums PROVE Tokens(cwd[p], i, r, j) = RefsBy(p, j)
      <4>1. Tokens(cwd[p], i, r, j) = Has(cwd[p], j) + Has(i, j) BY <3>2, EndTokens
      <4>2. Has(fd[p], j) = 0 BY <2>5 DEF Has, Inums
      <4>. QED BY <4>1, <4>2, <2>2
    <3>4. r.pc \in {"put", "done"} /\ i \in {0} \cup Inums /\ k' = [k EXCEPT ![p] = r] /\ fd' = [fd EXCEPT ![p] = i]
          /\ r.dp = 0 /\ r.old = 0 /\ Agrees(r) BY <3>1, <3>2, <2>2
    <3>. HIDE DEF Inv
    <3>. QED BY <2>a, <2>3, <2>4, <3>3, <3>4, EndStep
  <2>6. CASE ~(good /\ fd[p] = 0)
    <3>1. k' = [k EXCEPT ![p] = PutThen(p, <<i>>, "done")] /\ fd' = [fd EXCEPT ![p] = fd[p]]
      <4>1. <<>> \o <<i>> = <<i>> BY <2>2, PutsAre
      <4>. QED BY <4>1, <2>1, <2>6 DEF Keep, Tables
    <3>2. PICK r \in CallRecords : /\ r = PutThen(p, <<i>>, "done") /\ Agrees(r) /\ r.pc = "put" /\ r.ip = 0
                                   /\ r.dp = 0 /\ r.old = 0 /\ r.puts = <<i>> BY <2>2, EndsOne
    <3>3. ASSUME NEW j \in Inums PROVE Tokens(cwd[p], fd[p], r, j) = RefsBy(p, j)
      BY <3>2, <2>2, EndTokens
    <3>4. r.pc \in {"put", "done"} /\ k' = [k EXCEPT ![p] = r] /\ fd' = [fd EXCEPT ![p] = fd[p]]
          /\ r.dp = 0 /\ r.old = 0 /\ Agrees(r) BY <3>1, <3>2
    <3>. HIDE DEF Inv
    <3>. QED BY <2>a, <2>3, <2>4, <3>3, <3>4, EndStep
  <2>. QED BY <2>5, <2>6
<1>. QED BY <1>2, <1>3

\* the last fileclose.
LEMMA CloseKeeps == ASSUME Inv, NEW p \in Procs, Close(p) PROVE Inv'
<1>. USE DEF Inv
<1>1. /\ k[p].pc = "user" /\ ~booting /\ fd[p] # 0
      /\ fd' = [fd EXCEPT ![p] = 0] /\ k' = [k EXCEPT ![p] = PutThen(p, <<fd[p]>>, "done")]
      /\ dino' = dino /\ ents' = ents /\ used' = used /\ stable' = stable /\ lock' = lock /\ core' = core
      /\ cwd' = cwd /\ missed' = missed /\ booting' = booting /\ panicked' = panicked
  BY DEF Close, At, Up, diskVars, memVars
<1>2. booting' = FALSE /\ cwd[p] \in Inums /\ fd[p] \in Inums BY <1>1 DEF Tables
<1>3. k[p].puts = <<>> /\ k[p].ip = 0 /\ k[p].dp = 0 /\ k[p].old = 0 BY <1>1, CallIs DEF Puts
<1>4. PICK r \in CallRecords : /\ r = PutThen(p, <<fd[p]>>, "done") /\ Agrees(r) /\ r.pc = "put" /\ r.ip = 0
                               /\ r.dp = 0 /\ r.old = 0 /\ r.puts = <<fd[p]>> BY <1>2, EndsOne
<1>5. Moves(p, r, cwd[p], 0) BY <1>1, <1>2, <1>4 DEF Moves, Tables
<1>6. ASSUME NEW j \in Inums PROVE Tokens(cwd[p], 0, r, j) = RefsBy(p, j)
  <2>1. Tokens(cwd[p], 0, r, j) = Has(cwd[p], j) + Has(0, j) + Has(fd[p], j) BY <1>4, EndTokens
  <2>2. RefsBy(p, j) = Has(cwd[p], j) + Has(fd[p], j) BY <1>3, EndTokens
  <2>3. Has(cwd[p], j) \in Nat /\ Has(0, j) = 0 /\ Has(fd[p], j) \in Nat BY HasIs DEF Has, Inums
  <2>. QED BY <2>1, <2>2, <2>3
<1>7. SameTable(core') BY <1>1, CoreIsTable
<1>8. k[p].pc \notin Locks /\ r.pc \notin Locks BY <1>1, <1>4 DEF Locks
<1>. QED BY <1>1, <1>4, <1>5, <1>6, <1>7, <1>8, TableStep

\* Nothing but the table changes if ilock's copy is written back as it is.
LEMMA LockedSame ==
  ASSUME Tables, LocksOK, CoresOK, NEW i \in Inums, lock[i] = None, ~NoType(i), Update(i, Locked(i).inode)
  PROVE core' = [core EXCEPT ![i] = Locked(i)] /\ dino' = dino
<1>1. /\ Locked(i) \in Cores /\ Locked(i).inode = dino[i] BY LockedIs
<1>2. [Locked(i) EXCEPT !.inode = Locked(i).inode] = Locked(i) BY <1>1 DEF Cores
<1>3. dino' = [dino EXCEPT ![i] = dino[i]] BY <1>1 DEF Update
<1>. QED BY <1>2, <1>3 DEF Update, Tables

\* What the process has that goes on with the inode as its open file, or puts it.
LEMMA KeepTakes == ASSUME NEW p \in Procs, NEW i \in Inums, fd[p] = 0 PROVE \E r \in CallRecords :
           /\ r = PutThen(p, <<>>, "done") /\ Agrees(r) /\ r.pc \in {"put", "done"} /\ r.dp = 0 /\ r.old = 0
           /\ r.pc \notin Locks
           /\ \A j \in Inums : Tokens(cwd[p], i, r, j) = Has(cwd[p], j) + Has(fd[p], j) + Has(i, j)
<1>1. PICK r \in CallRecords : /\ r = PutThen(p, <<>>, "done") /\ Agrees(r) /\ r.pc = "done" /\ r.ip = 0
                               /\ r.dp = 0 /\ r.old = 0 /\ r.puts = <<>> BY EndsNone
<1>2. ASSUME NEW j \in Inums PROVE Tokens(cwd[p], i, r, j) = Has(cwd[p], j) + Has(fd[p], j) + Has(i, j)
  <2>1. Tokens(cwd[p], i, r, j) = Has(cwd[p], j) + Has(i, j) BY <1>1, EndTokens
  <2>2. Has(fd[p], j) = 0 /\ Has(cwd[p], j) \in Nat /\ Has(i, j) \in Nat BY HasIs DEF Has, Inums
  <2>. QED BY <2>1, <2>2
<1>3. r.pc \notin Locks BY <1>1 DEF Locks
<1>. QED BY <1>1, <1>2, <1>3

\* The call ends and puts one inode.
LEMMA KeepPuts == ASSUME NEW p \in Procs, NEW i \in Inums PROVE \E r \in CallRecords :
           /\ r = PutThen(p, <<i>>, "done") /\ Agrees(r) /\ r.pc \in {"put", "done"} /\ r.dp = 0 /\ r.old = 0
           /\ r.pc \notin Locks
           /\ \A j \in Inums : Tokens(cwd[p], fd[p], r, j) = Has(cwd[p], j) + Has(fd[p], j) + Has(i, j)
<1>1. PICK r \in CallRecords : /\ r = PutThen(p, <<i>>, "done") /\ Agrees(r) /\ r.pc = "put" /\ r.ip = 0
                               /\ r.dp = 0 /\ r.old = 0 /\ r.puts = <<i>> BY EndsOne
<1>2. \A j \in Inums : Tokens(cwd[p], fd[p], r, j) = Has(cwd[p], j) + Has(fd[p], j) + Has(i, j) BY <1>1, EndTokens
<1>3. r.pc \notin Locks BY <1>1 DEF Locks
<1>. QED BY <1>1, <1>2, <1>3

\* The call ends and puts two inodes.
LEMMA PutsBoth == ASSUME NEW p \in Procs, NEW a \in Inums, NEW b \in Inums PROVE \E r \in CallRecords :
           /\ r = PutThen(p, <<a, b>>, "done") /\ Agrees(r) /\ r.pc \in {"put", "done"} /\ r.dp = 0 /\ r.old = 0
           /\ r.pc \notin Locks
           /\ \A j \in Inums : Tokens(cwd[p], fd[p], r, j) = Has(cwd[p], j) + Has(fd[p], j) + Has(a, j) + Has(b, j)
<1>1. PICK r \in CallRecords : /\ r = PutThen(p, <<a, b>>, "done") /\ Agrees(r) /\ r.pc = "put" /\ r.ip = 0
                               /\ r.dp = 0 /\ r.old = 0 /\ r.puts = <<a, b>> BY EndsTwo
<1>2. \A j \in Inums : Tokens(cwd[p], fd[p], r, j) = Has(cwd[p], j) + Has(fd[p], j) + Has(a, j) + Has(b, j)
  BY <1>1, EndTokens
<1>3. r.pc \notin Locks BY <1>1 DEF Locks
<1>. QED BY <1>1, <1>2, <1>3

\* sys_open, when it does not truncate.
LEMMA OpenKeeps ==
  ASSUME Inv, NEW p \in Procs, NEW ok \in BOOLEAN, Open(p, ok),
         ~(k[p].op = "trunc" /\ Locked(k[p].ip).inode.type = "file" /\ ok /\ fd[p] = 0) PROVE Inv'
<1>. USE DEF Inv
<1>. DEFINE i == k[p].ip
            c == Locked(i).inode
            good == ok /\ ~(c.type = "dir" /\ k[p].op = "trunc")
<1>1. k[p].pc = "at" /\ ~booting /\ lock[i] = None /\ k[p].op # "linkto" BY DEF Open, AtInode, At, Up
<1>2. CASE NoType(i) BY <1>2, PanicKeeps DEF Open
<1>3. CASE ~NoType(i)
  <2>1. /\ Update(i, c) /\ Keep(p, i, good, <<>>) /\ used' = used /\ ents' = ents /\ stable' = stable /\ lock' = lock
        /\ cwd' = cwd /\ missed' = missed /\ booting' = booting /\ panicked' = panicked BY <1>3 DEF Open
  <2>2. /\ i \in Inums /\ core[i].ref # 0 /\ k[p].pc \notin Locks
        /\ \A j \in Inums : /\ RefsBy(p, j) = Has(cwd[p], j) + Has(fd[p], j) + Has(i, j)
                            /\ Has(cwd[p], j) \in Nat /\ Has(fd[p], j) \in Nat /\ Has(i, j) \in Nat
    BY <1>1, AtFacts
  <2>3. core' = [core EXCEPT ![i] = Locked(i)] /\ dino' = dino BY <1>1, <1>3, <2>1, <2>2, LockedSame
  <2>4. SameTable(core') BY <1>1, <1>3, <2>2, <2>3, LockedTable
  <2>5. cwd' = [cwd EXCEPT ![p] = cwd[p]] /\ cwd[p] \in Inums /\ fd[p] \in {0} \cup Inums BY <2>1 DEF Tables
  <2>a. /\ dino' = dino /\ ents' = ents /\ used' = used /\ stable' = stable /\ lock' = lock
        /\ ~booting /\ booting' = booting /\ missed' = missed /\ panicked' = panicked /\ k[p].pc \notin Locks
    BY <1>1, <2>1, <2>2, <2>3
  <2>. HIDE DEF i
  <2>6. CASE good /\ fd[p] = 0
    <3>1. k' = [k EXCEPT ![p] = PutThen(p, <<>>, "done")] /\ fd' = [fd EXCEPT ![p] = i] BY <2>1, <2>6 DEF Keep
    <3>2. PICK r \in CallRecords :
           /\ r = PutThen(p, <<>>, "done") /\ Agrees(r) /\ r.pc \in {"put", "done"} /\ r.dp = 0 /\ r.old = 0
           /\ r.pc \notin Locks
           /\ \A j \in Inums : Tokens(cwd[p], i, r, j) = Has(cwd[p], j) + Has(fd[p], j) + Has(i, j)
      BY <2>2, <2>6, KeepTakes
    <3>3. /\ r.pc \in {"put", "done"} /\ i \in {0} \cup Inums /\ k' = [k EXCEPT ![p] = r] /\ fd' = [fd EXCEPT ![p] = i]
          /\ r.dp = 0 /\ r.old = 0 /\ Agrees(r)
          /\ \A j \in Inums : Tokens(cwd[p], i, r, j) = RefsBy(p, j) BY <3>1, <3>2, <2>2
    <3>. HIDE DEF Inv
    <3>. QED BY <2>a, <2>4, <2>5, <3>3, EndStep
  <2>7. CASE ~(good /\ fd[p] = 0)
    <3>1. k' = [k EXCEPT ![p] = PutThen(p, <<i>>, "done")] /\ fd' = [fd EXCEPT ![p] = fd[p]]
      <4>1. <<>> \o <<i>> = <<i>> BY <2>2, PutsAre
      <4>. QED BY <4>1, <2>1, <2>7 DEF Keep, Tables
    <3>2. PICK r \in CallRecords :
           /\ r = PutThen(p, <<i>>, "done") /\ Agrees(r) /\ r.pc \in {"put", "done"} /\ r.dp = 0 /\ r.old = 0
           /\ r.pc \notin Locks
           /\ \A j \in Inums : Tokens(cwd[p], fd[p], r, j) = Has(cwd[p], j) + Has(fd[p], j) + Has(i, j)
      BY <2>2, KeepPuts
    <3>3. /\ r.pc \in {"put", "done"} /\ k' = [k EXCEPT ![p] = r] /\ fd' = [fd EXCEPT ![p] = fd[p]]
          /\ r.dp = 0 /\ r.old = 0 /\ Agrees(r)
          /\ \A j \in Inums : Tokens(cwd[p], fd[p], r, j) = RefsBy(p, j) BY <3>1, <3>2, <2>2
    <3>. HIDE DEF Inv
    <3>. QED BY <2>a, <2>4, <2>5, <3>3, EndStep
  <2>. QED BY <2>6, <2>7
<1>. QED BY <1>2, <1>3

\* sys_link of a directory, which it refuses.
LEMMA LinkDirKeeps ==
  ASSUME Inv, NEW p \in Procs, Link(p), NoType(k[p].ip) \/ Locked(k[p].ip).inode.type = "dir" PROVE Inv'
<1>. USE DEF Inv
<1>. DEFINE i == k[p].ip
<1>1. k[p].pc = "at" /\ ~booting /\ lock[i] = None /\ k[p].op # "linkto" BY DEF Link, AtInode, At, Up
<1>2. CASE NoType(i) BY <1>2, PanicKeeps DEF Link
<1>3. CASE ~NoType(i)
  <2>1. /\ core' = [core EXCEPT ![i] = Locked(i)] /\ k' = [k EXCEPT ![p] = PutThen(p, <<i>>, "done")] /\ dino' = dino
        /\ used' = used /\ ents' = ents /\ stable' = stable /\ lock' = lock
        /\ cwd' = cwd /\ fd' = fd /\ missed' = missed /\ booting' = booting /\ panicked' = panicked
    BY <1>3 DEF Link
  <2>2. /\ i \in Inums /\ core[i].ref # 0 /\ k[p].pc \notin Locks
        /\ \A j \in Inums : /\ RefsBy(p, j) = Has(cwd[p], j) + Has(fd[p], j) + Has(i, j)
                            /\ Has(cwd[p], j) \in Nat /\ Has(fd[p], j) \in Nat /\ Has(i, j) \in Nat
    BY <1>1, AtFacts
  <2>4. SameTable(core') BY <1>1, <1>3, <2>1, <2>2, LockedTable
  <2>5. /\ cwd' = [cwd EXCEPT ![p] = cwd[p]] /\ cwd[p] \in Inums /\ fd[p] \in {0} \cup Inums
        /\ fd' = [fd EXCEPT ![p] = fd[p]] BY <2>1 DEF Tables
  <2>a. /\ dino' = dino /\ ents' = ents /\ used' = used /\ stable' = stable /\ lock' = lock
        /\ ~booting /\ booting' = booting /\ missed' = missed /\ panicked' = panicked /\ k[p].pc \notin Locks
    BY <1>1, <2>1, <2>2
  <2>. HIDE DEF i
  <2>6. PICK r \in CallRecords :
           /\ r = PutThen(p, <<i>>, "done") /\ Agrees(r) /\ r.pc \in {"put", "done"} /\ r.dp = 0 /\ r.old = 0
           /\ r.pc \notin Locks
           /\ \A j \in Inums : Tokens(cwd[p], fd[p], r, j) = Has(cwd[p], j) + Has(fd[p], j) + Has(i, j)
    BY <2>2, KeepPuts
  <2>7. /\ r.pc \in {"put", "done"} /\ k' = [k EXCEPT ![p] = r] /\ r.dp = 0 /\ r.old = 0 /\ Agrees(r)
        /\ \A j \in Inums : Tokens(cwd[p], fd[p], r, j) = RefsBy(p, j) BY <2>1, <2>2, <2>6
  <2>. HIDE DEF Inv
  <2>. QED BY <2>a, <2>4, <2>5, <2>7, EndStep
<1>. QED BY <1>2, <1>3

\* A call with a parent directory, which it does not have locked yet.
LEMMA ParentFacts == ASSUME Inv, NEW p \in Procs, k[p].pc = "parent"
  PROVE  /\ k[p].dp \in Inums /\ core[k[p].dp].ref # 0 /\ k[p].ip = 0 /\ k[p].puts = <<>>
         /\ core[k[p].dp].valid /\ dino[k[p].dp].type = "dir" /\ k[p].old \in {0} \cup Inums
         /\ Head(k[p].path) \in Elements /\ k[p].path \in Seq(Elements) /\ k[p].path # <<>> /\ k[p].pc \notin Locks
         /\ Dirlookup(k[p].dp, Head(k[p].path)) \in {0} \cup Inums
         /\ \A j \in Inums : /\ RefsBy(p, j) = Has(cwd[p], j) + Has(fd[p], j) + Has(k[p].dp, j) + Has(k[p].old, j)
                             /\ Has(cwd[p], j) \in Nat /\ Has(fd[p], j) \in Nat /\ Has(k[p].dp, j) \in Nat
                             /\ Has(k[p].old, j) \in Nat
<1>. USE DEF Inv
<1>1. k[p].pc \notin Puts /\ k[p].pc \notin Locks BY DEF Puts, Locks
<1>2. k[p].dp \in Inums /\ k[p].ip = 0 /\ k[p].puts = <<>> /\ k[p].old \in {0} \cup Inums /\ k[p].path \in Seq(Elements)
  BY <1>1, CallIs, Fields
<1>3. k[p].path # <<>> BY DEF CallsOK, Agrees
<1>4. Head(k[p].path) \in Elements BY <1>2, <1>3
<1>5. ~Apart(cwd[p], fd[p], k[p], k[p].dp) BY DEF Apart
<1>6. ASSUME NEW j \in Inums
      PROVE  /\ RefsBy(p, j) = Has(cwd[p], j) + Has(fd[p], j) + Has(k[p].dp, j) + Has(k[p].old, j)
             /\ Has(cwd[p], j) \in Nat /\ Has(fd[p], j) \in Nat /\ Has(k[p].dp, j) \in Nat /\ Has(k[p].old, j) \in Nat
  <2>1. RefsBy(p, j) = Has(cwd[p], j) + Has(fd[p], j) + Has(0, j) + Has(k[p].dp, j) + Has(k[p].old, j)
    BY <1>2, TokensNone
  <2>2. /\ Has(cwd[p], j) \in Nat /\ Has(fd[p], j) \in Nat /\ Has(k[p].dp, j) \in Nat /\ Has(0, j) = 0
        /\ Has(k[p].old, j) \in Nat BY HasIs DEF Has, Inums
  <2>. QED BY <2>1, <2>2
<1>7. core[k[p].dp].valid /\ dino[k[p].dp].type = "dir" BY <1>2 DEF HeldOK, Inums
<1>8. Dirlookup(k[p].dp, Head(k[p].path)) \in {0} \cup Inums BY <1>2, <1>4 DEF Dirlookup, Tables
<1>9. core[k[p].dp].ref # 0 BY <1>2, <1>5, HeldRef
<1>. QED BY <1>1, <1>2, <1>3, <1>4, <1>6, <1>7, <1>8, <1>9

\* A call that gives the parent up and ends.
LEMMA ParentEnds ==
  ASSUME Inv, NEW p \in Procs, k[p].pc = "parent", k[p].op # "linkto", k' = [k EXCEPT ![p] = PutThen(p, <<k[p].dp>>, "done")],
         ~booting, booting' = booting, SameTable(core'),
         dino' = dino, ents' = ents, used' = used, stable' = stable, lock' = lock,
         cwd' = cwd, fd' = fd, missed' = missed, panicked' = panicked PROVE Inv'
<1>. USE DEF Inv
<1>. DEFINE d == k[p].dp
<1>1. /\ d \in Inums /\ k[p].pc \notin Locks
      /\ \A j \in Inums : /\ RefsBy(p, j) = Has(cwd[p], j) + Has(fd[p], j) + Has(d, j) + Has(k[p].old, j)
                          /\ Has(cwd[p], j) \in Nat /\ Has(fd[p], j) \in Nat /\ Has(d, j) \in Nat
                          /\ Has(k[p].old, j) \in Nat BY ParentFacts
<1>2. \A j \in Inums : Has(k[p].old, j) = 0
  <2>1. k[p].old = 0 BY CallIs
  <2>. QED BY <2>1 DEF Has, Inums
<1>4. booting' = FALSE BY DEF Tables
<1>. HIDE DEF d
<1>5. PICK r \in CallRecords :
           /\ r = PutThen(p, <<d>>, "done") /\ Agrees(r) /\ r.pc \in {"put", "done"} /\ r.dp = 0 /\ r.old = 0
           /\ r.pc \notin Locks
           /\ \A j \in Inums : Tokens(cwd[p], fd[p], r, j) = Has(cwd[p], j) + Has(fd[p], j) + Has(d, j)
  BY <1>1, KeepPuts
<1>6. /\ r.pc \in {"put", "done"} /\ k' = [k EXCEPT ![p] = r] /\ r.dp = 0 /\ r.old = 0 /\ Agrees(r) BY <1>5 DEF d
<1>7. \A j \in Inums : Tokens(cwd[p], fd[p], r, j) = RefsBy(p, j) BY <1>1, <1>2, <1>5
<1>8. Moves(p, r, cwd[p], fd[p]) BY <1>4, <1>6, MovesCall
<1>9. k[p].pc \notin Locks /\ r.pc \notin Locks /\ r.old \in {0, k[p].old} /\ ~(r.dp # 0) /\ Agrees(r) BY <1>1, <1>5
<1>. HIDE DEF Inv
<1>. QED BY <1>7, <1>8, <1>9, TableStep

\* sys_unlink of ".." or of a name that is not there.
LEMMA UnlinkNone == ASSUME Inv, NEW p \in Procs, UnlinkDir(p), CannotUnlink(k[p].dp, Head(k[p].path)) PROVE Inv'
<1>1. /\ k[p].pc = "parent" /\ k[p].op # "linkto" /\ k' = [k EXCEPT ![p] = PutThen(p, <<k[p].dp>>, "done")]
      /\ ~booting /\ booting' = booting /\ core' = core
      /\ dino' = dino /\ ents' = ents /\ used' = used /\ stable' = stable /\ lock' = lock
      /\ cwd' = cwd /\ fd' = fd /\ missed' = missed /\ panicked' = panicked
  BY DEF UnlinkDir, At, Up, diskVars, memVars
<1>2. SameTable(core') BY <1>1, CoreIsTable DEF Inv
<1>. QED BY <1>1, <1>2, ParentEnds

\* create with no inode left.
LEMMA CreateFull ==
  ASSUME Inv, NEW p \in Procs, CreateDir(p), Dirlookup(k[p].dp, Head(k[p].path)) = 0, FreeInums = {} PROVE Inv'
<1>1. /\ k[p].pc = "parent" /\ k[p].op # "linkto" /\ k' = [k EXCEPT ![p] = PutThen(p, <<k[p].dp>>, "done")]
      /\ ~booting /\ booting' = booting /\ core' = core
      /\ dino' = dino /\ ents' = ents /\ used' = used /\ stable' = stable /\ lock' = lock
      /\ cwd' = cwd /\ fd' = fd /\ missed' = missed /\ panicked' = panicked BY DEF CreateDir, At, Up, memVars
<1>2. SameTable(core') BY <1>1, CoreIsTable DEF Inv
<1>. QED BY <1>1, <1>2, ParentEnds

\* sys_link that finds the name taken: it has to count the link down again.
LEMMA LinkTaken == ASSUME Inv, NEW p \in Procs, LinkTo(p), Dirlookup(k[p].dp, Head(k[p].path)) # 0 PROVE Inv'
<1>. USE DEF Inv
<1>. DEFINE d == k[p].dp
<1>1. /\ k[p].pc = "parent" /\ ~booting /\ k[p].op = "linkto" /\ k' = [k EXCEPT ![p] = PutThen(p, <<d>>, "linkbad")]
  BY DEF LinkTo, At, Up
<1>a. /\ dino' = dino /\ ents' = ents /\ used' = used /\ stable' = stable /\ lock' = lock
      /\ missed' = missed /\ panicked' = panicked BY DEF LinkTo, memVars
<1>b. core' = core /\ cwd' = cwd /\ fd' = fd /\ booting' = booting BY DEF LinkTo, memVars
<1>2. /\ d \in Inums /\ k[p].pc \notin Locks /\ k[p].old \in {0} \cup Inums /\ k[p].path \in Seq(Elements)
      /\ \A j \in Inums : /\ RefsBy(p, j) = Has(cwd[p], j) + Has(fd[p], j) + Has(d, j) + Has(k[p].old, j)
                          /\ Has(cwd[p], j) \in Nat /\ Has(fd[p], j) \in Nat /\ Has(d, j) \in Nat
                          /\ Has(k[p].old, j) \in Nat BY <1>1, ParentFacts
<1>3. SameTable(core') BY <1>b, CoreIsTable
<1>4. booting' = FALSE BY <1>1, <1>b DEF Tables
<1>. HIDE DEF d
<1>5. PICK r \in CallRecords : /\ r = PutThen(p, <<d>>, "linkbad") /\ Agrees(r)
                               /\ r.pc = "put" /\ r.ip = 0 /\ r.dp = 0 /\ r.puts = <<d>> /\ r.old = k[p].old
  <2>1. "linkbad" \in Stages /\ k[p] \in CallRecords /\ Agrees(k[p]) BY Fields DEF Stages, CallsOK
  <2>2. PutThen(p, <<d>>, "linkbad") = On(k[p], 0, k[p].path, <<d>>, "linkbad") BY <2>1, <1>2, PutThenOn
  <2>3. On(k[p], 0, k[p].path, <<d>>, "linkbad") \in CallRecords /\ Agrees(On(k[p], 0, k[p].path, <<d>>, "linkbad"))
    BY <2>1, <1>1, <1>2, OnIs DEF Walks
  <2>. QED BY <2>2, <2>3 DEF On
<1>6. Moves(p, r, cwd[p], fd[p]) BY <1>1, <1>b, <1>4, <1>5, MovesCall
<1>7. ASSUME NEW j \in Inums PROVE Tokens(cwd[p], fd[p], r, j) = RefsBy(p, j)
  <2>1. Tokens(cwd[p], fd[p], r, j) = Has(cwd[p], j) + Has(fd[p], j) + Has(0, j) + Has(0, j) + Has(k[p].old, j) + Has(d, j)
    BY <1>5, TokensOne
  <2>2. Has(0, j) = 0 BY DEF Has, Inums
  <2>. QED BY <2>1, <2>2, <1>2
<1>8. k[p].pc \notin Locks /\ r.pc \notin Locks /\ r.old \in {0, k[p].old} /\ ~(r.dp # 0) BY <1>2, <1>5 DEF Locks
<1>. HIDE DEF Inv
<1>. QED BY <1>a, <1>3, <1>5, <1>6, <1>7, <1>8, TableStep

\* create of a name that is there: iget, and the parent is put.
LEMMA CreateFound == ASSUME Inv, NEW p \in Procs, CreateDir(p), Dirlookup(k[p].dp, Head(k[p].path)) # 0 PROVE Inv'
<1>. USE DEF Inv
<1>. DEFINE d == k[p].dp
            i == Dirlookup(d, Head(k[p].path))
<1>1. /\ k[p].pc = "parent" /\ ~booting /\ k[p].op \in {"creat", "mkdir", "mknod"}
      /\ k' = [k EXCEPT ![p] = [PutThen(p, <<d>>, "old") EXCEPT !.ip = i]] /\ core' = Iget(core, i)
  BY DEF CreateDir, At, Up
<1>a. /\ dino' = dino /\ ents' = ents /\ used' = used /\ stable' = stable /\ lock' = lock
      /\ missed' = missed /\ panicked' = panicked BY DEF CreateDir
<1>b. cwd' = cwd /\ fd' = fd /\ booting' = booting BY DEF CreateDir
<1>2. /\ d \in Inums /\ k[p].pc \notin Locks /\ k[p].path \in Seq(Elements) /\ i \in Inums
      /\ \A j \in Inums : /\ RefsBy(p, j) = Has(cwd[p], j) + Has(fd[p], j) + Has(d, j) + Has(k[p].old, j)
                          /\ Has(cwd[p], j) \in Nat /\ Has(fd[p], j) \in Nat /\ Has(d, j) \in Nat
                          /\ Has(k[p].old, j) \in Nat BY <1>1, ParentFacts
<1>3. SameTable(core) BY CoreIsTable
<1>4. booting' = FALSE BY <1>1, <1>b DEF Tables
<1>. HIDE DEF d, i
<1>5. PICK r \in CallRecords : /\ k' = [k EXCEPT ![p] = r] /\ Agrees(r)
                               /\ r.pc = "put" /\ r.ip = i /\ r.dp = 0 /\ r.puts = <<d>> /\ r.old = k[p].old
  <2>1. "old" \in Stages /\ k[p] \in CallRecords /\ Agrees(k[p]) /\ "old" \in Walks /\ i # 0
    BY <1>2, Fields DEF Stages, CallsOK, Walks, Inums
  <2>2. PutThen(p, <<d>>, "old") = On(k[p], 0, k[p].path, <<d>>, "old") BY <2>1, <1>2, PutThenOn
  <2>3. [On(k[p], 0, k[p].path, <<d>>, "old") EXCEPT !.ip = i] = On(k[p], i, k[p].path, <<d>>, "old") BY DEF On
  <2>4. On(k[p], i, k[p].path, <<d>>, "old") \in CallRecords /\ Agrees(On(k[p], i, k[p].path, <<d>>, "old"))
    BY <2>1, <1>1, <1>2, OnIs
  <2>5. k' = [k EXCEPT ![p] = On(k[p], i, k[p].path, <<d>>, "old")] BY <1>1, <2>2, <2>3, Zenon
  <2>. QED BY <2>4, <2>5 DEF On
<1>6. Moves(p, r, cwd[p], fd[p]) BY <1>b, <1>4, <1>5, MovesCall
<1>7. ASSUME NEW j \in Inums PROVE Tokens(cwd[p], fd[p], r, j) = RefsBy(p, j) + Has(i, j)
  <2>1. Tokens(cwd[p], fd[p], r, j) = Has(cwd[p], j) + Has(fd[p], j) + Has(i, j) + Has(0, j) + Has(k[p].old, j) + Has(d, j)
    BY <1>5, TokensOne
  <2>2. Has(0, j) = 0 /\ Has(i, j) \in Nat BY HasIs DEF Has, Inums
  <2>3. /\ RefsBy(p, j) = Has(cwd[p], j) + Has(fd[p], j) + Has(d, j) + Has(k[p].old, j)
        /\ Has(cwd[p], j) \in Nat /\ Has(fd[p], j) \in Nat /\ Has(d, j) \in Nat /\ Has(k[p].old, j) \in Nat
    BY <1>2
  <2>. QED BY <2>1, <2>2, <2>3
<1>8. k[p].pc \notin Locks /\ r.pc \notin Locks /\ r.old \in {0, k[p].old} /\ r.dp = 0 /\ i \in Inums /\ Agrees(r)
  BY <1>2, <1>5 DEF Locks
<1>. HIDE DEF Inv
<1>9. core' = Iget(core, i) BY <1>1
<1>. QED BY <1>a, <1>3, <1>9, <1>6, <1>7, <1>8, TableIget

----
(* The steps that change the disk or the locks *)

\* Together they keep the invariant.
LEMMA DiskStep ==
  ASSUME Inv, NEW p \in Procs, NEW r, NEW w, NEW f, Moves(p, r, w, f), TypesMove,
         stable' = stable, missed' = missed, panicked' = panicked, Agrees(r),
         RefsMove(p, r, w, f), LocksMove(p, r), CoresMove(p, r), HeldMove(p, r), TreeMove(p, r),
         DiskOK(dino', ents', used') PROVE Inv'
<1>. USE DEF Inv
<1>0. /\ \A q \in Procs : k[q].pc \in {"free", "invalid"} => Head(k[q].puts) \in Inums
      /\ \A q \in Procs : k[q].pc = "free" => Head(k[q].puts) \in Inums
      /\ \A q \in Procs : k[q].pc = "new" => k[q].ip \in Inums
      /\ \A q \in Procs : k[q].pc \in {"unlink", "new"} => k[q].dp \in Inums /\ k[q].ip \in Inums BY OthersAre
<1>1. Tables'
  <2>1. missed' \subseteq Inums /\ panicked' \in BOOLEAN BY DEF Tables
  <2>. QED BY <2>1, TypeStep DEF TypesMove
<1>2. StableOK' BY DEF StableOK
<1>3. CallsOK' BY CallsStep
<1>4. RefsOK' BY RefsStep DEF RefsMove, TypesMove
<1>5. LocksOK' BY LocksStep DEF LocksMove
<1>6. CoresOK' BY <1>0, CoresStep DEF CoresMove
<1>7. HeldOK' BY <1>0, HeldStep DEF HeldMove
<1>8. DisksOK' BY DEF DisksOK
<1>9. TreeOK' BY <1>0, TreeStep DEF TreeMove
<1>10. Quiet' BY DEF Quiet, Moves
<1>. QED BY <1>1, <1>2, <1>3, <1>4, <1>5, <1>6, <1>7, <1>8, <1>9, <1>10

\* The locks, if no lock is taken or released.
LEMMA LocksKeep ==
  ASSUME LocksOK, NEW p \in Procs, NEW r, lock' = lock, k[p].pc \notin Locks, r.pc \notin Locks
  PROVE LocksMove(p, r) BY DEF LocksMove, LocksOK, Owns, Locks

\* If p takes the lock of d.
LEMMA LocksTake ==
  ASSUME Tables, LocksOK, NEW p \in Procs, NEW r, NEW d \in Inums, lock' = [lock EXCEPT ![d] = p],
         lock[d] = None, k[p].pc \notin Locks, \A i \in Inums : Owns(r, i) <=> i = d
  PROVE LocksMove(p, r) /\ lock' \in [Inums -> Procs \cup {None}]
<1>1. None \notin Procs /\ lock \in [Inums -> Procs \cup {None}] BY FsAssumption DEF Tables
<1>2. \A i \in Inums : lock[i] # p BY DEF LocksOK, Owns, Locks
<1>3. lock'[d] = p /\ \A i \in Inums \ {d} : lock'[i] = lock[i] BY <1>1
<1>4. \A i \in Inums : lock'[i] = p <=> Owns(r, i) BY <1>2, <1>3
<1>5. \A i \in Inums : \A q \in Procs \ {p} : lock'[i] = q <=> lock[i] = q BY <1>1, <1>3
<1>. QED BY <1>1, <1>4, <1>5 DEF LocksMove

\* If p releases the only lock it has, that of d.
LEMMA LocksGive ==
  ASSUME Tables, LocksOK, NEW p \in Procs, NEW r, NEW d \in Inums, lock' = [lock EXCEPT ![d] = None],
         \A i \in Inums : Owns(k[p], i) <=> i = d, r.pc \notin Locks
  PROVE LocksMove(p, r) /\ lock' \in [Inums -> Procs \cup {None}]
<1>1. None \notin Procs /\ lock \in [Inums -> Procs \cup {None}] BY FsAssumption DEF Tables
<1>2. \A i \in Inums : lock[i] = p <=> i = d BY DEF LocksOK
<1>3. lock'[d] = None /\ \A i \in Inums \ {d} : lock'[i] = lock[i] BY <1>1
<1>4. \A i \in Inums : lock'[i] = p <=> Owns(r, i)
  <2>1. \A i \in Inums : ~Owns(r, i) BY DEF Owns, Locks
  <2>2. \A i \in Inums : lock'[i] # p BY <1>1, <1>2, <1>3
  <2>. QED BY <2>1, <2>2
<1>5. \A i \in Inums : \A q \in Procs \ {p} : lock'[i] = q <=> lock[i] = q BY <1>1, <1>2, <1>3
<1>. QED BY <1>1, <1>4, <1>5 DEF LocksMove

\* A call that has no directory and no lock in hand, and no dinode of another kind.
LEMMA HeldEnds ==
  ASSUME HeldOK, Tables, NEW p \in Procs, NEW r,
         \A i \in Inums : core[i].valid => core'[i].valid,
         \A i \in Inums : dino'[i].type = dino[i].type,
         \A i \in Inums : dino'[i].addr \in {dino[i].addr, None} \/ NotNew(p, i) \/ dino[i].type # "dir",
         r.dp = 0, r.old = 0 \/ r.old = k[p].old, r.pc \notin Locks PROVE HeldMove(p, r)
<1>1. r.old # 0 => core'[r.old].valid /\ dino'[r.old].type \in {"file", "dev"}
  <2>1. HAVE r.old # 0
  <2>2. PICK i \in Inums : i = r.old /\ i = k[p].old BY <2>1, Fields
  <2>3. core[i].valid /\ dino[i].type \in {"file", "dev"} BY <2>1, <2>2 DEF HeldOK
  <2>. QED BY <2>2, <2>3
<1>. QED BY <1>1 DEF HeldMove, Locks

\* Calls without a lock find no entry in the tree they depend on.
LEMMA TreeKeeps == ASSUME NEW p \in Procs, NEW r, ents' = ents, r.pc \notin Locks PROVE TreeMove(p, r)
  BY DEF TreeMove, Locks

\* An inode table in which dinodes were written through.
LEMMA CoresWritten ==
  ASSUME CoresOK, NEW p \in Procs, NEW r, k[p].pc # "invalid", r.pc # "free",
         \A i \in Inums : core'[i].ref = 0 => core'[i] = NoCore,
         \A i \in Inums : core[i].valid => core'[i].valid,
         \A i \in Inums : \/ core'[i].valid = core[i].valid /\ core'[i].inode = core[i].inode /\ dino'[i] = dino[i]
                          \/ core'[i].inode = dino'[i] /\ dino'[i].type # "free"
  PROVE CoresMove(p, r) BY DEF CoresMove

\* The bitmap, if no dinode gets or loses a block.
LEMMA AddrsSame ==
  ASSUME DiskOK(dino, ents, used), \A i \in Inums : dino'[i].addr = dino[i].addr, used' = used
  PROVE  /\ used' = {dino'[i].addr : i \in Inums} \ {None}
         /\ \A i, j \in Inums : i # j /\ dino'[i].addr = dino'[j].addr => dino'[i].addr = None
<1>1. {dino'[i].addr : i \in Inums} = {dino[i].addr : i \in Inums} OBVIOUS
<1>. QED BY <1>1 DEF DiskOK

\* If one gets a block that no one has.
LEMMA AddrsAdd ==
  ASSUME DiskOK(dino, ents, used), NEW x \in Inums, NEW b, b \notin used, b # None,
         dino[x].addr = None, dino'[x].addr = b, \A i \in Inums \ {x} : dino'[i].addr = dino[i].addr, used' = used \cup {b}
  PROVE  /\ used' = {dino'[i].addr : i \in Inums} \ {None}
         /\ \A i, j \in Inums : i # j /\ dino'[i].addr = dino'[j].addr => dino'[i].addr = None
<1>0. used = {dino[i].addr : i \in Inums} \ {None} BY DEF DiskOK
<1>1. ASSUME NEW c PROVE c \in used' <=> c \in {dino'[i].addr : i \in Inums} \ {None}
  <2>1. CASE c = b BY <2>1
  <2>2. CASE c # b
    <3>1. c \in used' <=> c # None /\ \E i \in Inums : dino[i].addr = c BY <2>2, <1>0
    <3>2. (\E i \in Inums : dino[i].addr = c /\ c # None) <=> (\E i \in Inums : dino'[i].addr = c /\ c # None) BY <2>2
    <3>. QED BY <3>1, <3>2
  <2>. QED BY <2>1, <2>2
<1>2. used' = {dino'[i].addr : i \in Inums} \ {None} BY <1>1
<1>3. \A i \in Inums : dino[i].addr # b BY <1>0
<1>. QED BY <1>2, <1>3 DEF DiskOK

\* If one loses its block.
LEMMA AddrsDel ==
  ASSUME DiskOK(dino, ents, used), NEW x \in Inums,
         dino'[x].addr = None, \A i \in Inums \ {x} : dino'[i].addr = dino[i].addr, used' = used \ {dino[x].addr}
  PROVE  /\ used' = {dino'[i].addr : i \in Inums} \ {None}
         /\ \A i, j \in Inums : i # j /\ dino'[i].addr = dino'[j].addr => dino'[i].addr = None
<1>0. used = {dino[i].addr : i \in Inums} \ {None} BY DEF DiskOK
<1>a. \A i, j \in Inums : i # j /\ dino[i].addr = dino[j].addr => dino[i].addr = None BY DEF DiskOK
<1>1. ASSUME NEW c PROVE c \in used' <=> c \in {dino'[i].addr : i \in Inums} \ {None}
  <2>1. c \in used' <=> c # None /\ c # dino[x].addr /\ \E i \in Inums : dino[i].addr = c BY <1>0
  <2>2. (c # None /\ c # dino[x].addr /\ \E i \in Inums : dino[i].addr = c) <=> (c # None /\ \E i \in Inums : dino'[i].addr = c)
    BY <1>a
  <2>. QED BY <2>1, <2>2
<1>2. used' = {dino'[i].addr : i \in Inums} \ {None} BY <1>1
<1>. QED BY <1>2, <1>a

\* iupdate of a locked inode: the copy and the dinode.
LEMMA UpdateIs ==
  ASSUME Tables, LocksOK, CoresOK, NEW i \in Inums, lock[i] = None, ~NoType(i), core[i].ref # 0,
         NEW x \in Inodes, Update(i, x)
  PROVE  /\ core' \in [Inums -> Cores] /\ dino' \in [Inums -> Inodes]
         /\ core'[i].valid /\ core'[i].inode = x /\ dino'[i] = x
         /\ \A j \in Inums \ {i} : core'[j] = core[j] /\ dino'[j] = dino[j]
         /\ \A j \in Inums : /\ core'[j].ref = core[j].ref
                             /\ core'[j].ref = 0 => core'[j] = NoCore
                             /\ core[j].valid => core'[j].valid
         /\ dino[i].type # "free" /\ Locked(i).inode = dino[i] /\ dino[i] \in Inodes
<1>1. /\ Locked(i) \in Cores /\ Locked(i).ref = core[i].ref /\ Locked(i).valid /\ Locked(i).inode = dino[i]
      /\ dino[i].type # "free" /\ dino[i] \in Inodes BY LockedIs
<1>2. PICK y \in Cores : y = [Locked(i) EXCEPT !.inode = x] /\ y.ref = core[i].ref /\ y.valid /\ y.inode = x
  <2>1. PICK l \in Cores : l = Locked(i) /\ l.ref = core[i].ref /\ l.valid BY <1>1
  <2>2. [l EXCEPT !.inode = x] \in Cores BY <2>1 DEF Cores
  <2>3. [l EXCEPT !.inode = x].ref = l.ref /\ [l EXCEPT !.inode = x].valid = l.valid /\ [l EXCEPT !.inode = x].inode = x
    BY <2>1 DEF Cores
  <2>. QED BY <2>1, <2>2, <2>3
<1>3. core' = [core EXCEPT ![i] = y] /\ dino' = [dino EXCEPT ![i] = x] BY <1>2 DEF Update
<1>4. core \in [Inums -> Cores] /\ dino \in [Inums -> Inodes] /\ \A j \in Inums : core[j].ref = 0 => core[j] = NoCore
  BY DEF Tables, CoresOK
<1>5. /\ core' \in [Inums -> Cores] /\ dino' \in [Inums -> Inodes] /\ core'[i] = y /\ dino'[i] = x
      /\ \A j \in Inums \ {i} : core'[j] = core[j] /\ dino'[j] = dino[j] BY <1>3, <1>4
<1>6. ASSUME NEW j \in Inums
      PROVE  /\ core'[j].ref = core[j].ref
             /\ core'[j].ref = 0 => core'[j] = NoCore
             /\ core[j].valid => core'[j].valid BY <1>2, <1>4, <1>5
<1>. QED BY <1>1, <1>2, <1>5, <1>6

\* A call that writes the inode it has locked and ends, or goes on without a lock.
LEMMA UpdateStep ==
  ASSUME Inv, NEW p \in Procs, NEW r, NEW w, NEW f, Moves(p, r, w, f),
         NEW i \in Inums, lock[i] = None, ~NoType(i), core[i].ref # 0, NEW x \in Inodes, Update(i, x),
         x.type = dino[i].type, x.addr \in {dino[i].addr, None} \/ dino[i].type # "dir",
         ents' = ents, used' \subseteq Blocks, stable' = stable, lock' = lock, missed' = missed, panicked' = panicked,
         Agrees(r), k[p].pc \notin Locks, r.pc \notin Locks, r.dp = 0, r.old = 0 \/ r.old = k[p].old,
         \A j \in Inums : Tokens(w, f, r, j) = RefsBy(p, j),
         used' = {dino'[j].addr : j \in Inums} \ {None},
         \A j, l \in Inums : j # l /\ dino'[j].addr = dino'[l].addr => dino'[j].addr = None PROVE Inv'
<1>. USE DEF Inv
<1>1. /\ core' \in [Inums -> Cores] /\ dino' \in [Inums -> Inodes]
      /\ core'[i].valid /\ core'[i].inode = x /\ dino'[i] = x
      /\ \A j \in Inums \ {i} : core'[j] = core[j] /\ dino'[j] = dino[j]
      /\ \A j \in Inums : /\ core'[j].ref = core[j].ref
                          /\ core'[j].ref = 0 => core'[j] = NoCore
                          /\ core[j].valid => core'[j].valid
      /\ dino[i].type # "free" /\ Locked(i).inode = dino[i] /\ dino[i] \in Inodes BY UpdateIs
<1>2. TypesMove BY <1>1 DEF Tables, TypesMove
<1>3. RefsMove(p, r, w, f) BY <1>1 DEF RefsMove
<1>4. LocksMove(p, r) BY LocksKeep
<1>5. CoresMove(p, r)
  <2>1. k[p].pc # "invalid" /\ r.pc # "free" BY DEF Locks
  <2>2. \A j \in Inums : \/ core'[j].valid = core[j].valid /\ core'[j].inode = core[j].inode /\ dino'[j] = dino[j]
                         \/ core'[j].inode = dino'[j] /\ dino'[j].type # "free" BY <1>1
  <2>. QED BY <1>1, <2>1, <2>2, CoresWritten
<1>6. HeldMove(p, r)
  <2>1. /\ \A j \in Inums : core[j].valid => core'[j].valid
        /\ \A j \in Inums : dino'[j].type = dino[j].type
        /\ \A j \in Inums : dino'[j].addr \in {dino[j].addr, None} \/ NotNew(p, j) \/ dino[j].type # "dir"
    BY <1>1
  <2>. QED BY <2>1, HeldEnds
<1>7. TreeMove(p, r) BY TreeKeeps
<1>8. DiskOK(dino', ents', used')
  <2>1. /\ \A j \in Inums : dino[j].type = "free" => dino[j] = FreeInode
        /\ \A j \in Inums : dino[j].type # "dir" => ents[j] = EmptyDir
        /\ \A d, e \in Inums, m, n \in Names : ~(ents[d][m] = e /\ ents[e][n] = d) BY DEF DisksOK, DiskOK
  <2>2. /\ \A j \in Inums : dino'[j].type = "free" => dino'[j] = FreeInode
        /\ \A j \in Inums : dino'[j].type # "dir" => ents'[j] = EmptyDir
        /\ \A d, e \in Inums, m, n \in Names : ~(ents'[d][m] = e /\ ents'[e][n] = d) BY <1>1, <2>1
  <2>. QED BY <2>2 DEF DiskOK
<1>. HIDE DEF Inv
<1>. QED BY <1>2, <1>3, <1>4, <1>5, <1>6, <1>7, <1>8, DiskStep

\* Unlinked, Linked, Bmap and Itrunc change one field.
LEMMA InodeFields == ASSUME NEW x \in Inodes
  PROVE  /\ Unlinked(x) \in Inodes /\ Unlinked(x).type = x.type /\ Unlinked(x).addr = x.addr
         /\ Linked(x) \in Inodes /\ Linked(x).type = x.type /\ Linked(x).addr = x.addr
         /\ Itrunc(x) \in Inodes /\ Itrunc(x).type = x.type /\ Itrunc(x).addr = None
         /\ FirstFree \in Blocks => Bmap(x) \in Inodes /\ Bmap(x).type = x.type /\ Bmap(x).addr = FirstFree
<1>1. Unlinked(x) \in Inodes /\ Unlinked(x).type = x.type /\ Unlinked(x).addr = x.addr BY DEF Unlinked, Inodes
<1>2. Linked(x) \in Inodes /\ Linked(x).type = x.type /\ Linked(x).addr = x.addr BY DEF Linked, Inodes
<1>3. Itrunc(x) \in Inodes /\ Itrunc(x).type = x.type /\ Itrunc(x).addr = None BY DEF Itrunc, Inodes
<1>4. FirstFree \in Blocks => Bmap(x) \in Inodes /\ Bmap(x).type = x.type /\ Bmap(x).addr = FirstFree
  <2>1. ASSUME NEW b \in Blocks
        PROVE  /\ [x EXCEPT !.addr = b] \in Inodes /\ [x EXCEPT !.addr = b].type = x.type
               /\ [x EXCEPT !.addr = b].addr = b BY DEF Inodes
  <2>. QED BY <2>1 DEF Bmap
<1>. QED BY <1>1, <1>2, <1>3, <1>4

\* balloc finds a block that is not marked, if there is one.
LEMMA FirstFreeIs ==
  ASSUME Tables, used # Blocks PROVE FirstFree \in Blocks /\ FirstFree \notin used /\ FirstFree # None
<1>1. \E b : b \in Blocks \ used BY DEF Tables
<1>2. FirstFree \in Blocks \ used BY <1>1 DEF FirstFree
<1>. QED BY <1>2, FsAssumption

\* sys_open with O_TRUNC of a file.
LEMMA OpenCuts ==
  ASSUME Inv, NEW p \in Procs, NEW ok \in BOOLEAN, Open(p, ok),
         k[p].op = "trunc", Locked(k[p].ip).inode.type = "file", ok, fd[p] = 0 PROVE Inv'
<1>. USE DEF Inv
<1>. DEFINE i == k[p].ip
            x == Itrunc(dino[i])
<1>1. k[p].pc = "at" /\ ~booting /\ lock[i] = None /\ k[p].op # "linkto" BY DEF Open, AtInode, At, Up
<1>2. CASE NoType(i) BY <1>2, PanicKeeps DEF Open
<1>3. CASE ~NoType(i)
  <2>2. /\ i \in Inums /\ core[i].ref # 0 /\ k[p].pc \notin Locks
        /\ \A j \in Inums : /\ RefsBy(p, j) = Has(cwd[p], j) + Has(fd[p], j) + Has(i, j)
                            /\ Has(cwd[p], j) \in Nat /\ Has(fd[p], j) \in Nat /\ Has(i, j) \in Nat
    BY <1>1, AtFacts
  <2>3. Locked(i).inode = dino[i] /\ dino[i] \in Inodes /\ dino[i].type = "file" BY <1>1, <1>3, <2>2, LockedIs
  <2>1. /\ Update(i, x) /\ k' = [k EXCEPT ![p] = PutThen(p, <<>>, "done")] /\ fd' = [fd EXCEPT ![p] = i]
        /\ used' = Bfree(dino[i].addr) /\ cwd' = cwd /\ booting' = booting BY <1>3, <2>3 DEF Open, Keep
  <2>a. ents' = ents /\ stable' = stable /\ lock' = lock /\ missed' = missed /\ panicked' = panicked BY <1>3 DEF Open
  <2>4. x \in Inodes /\ x.type = dino[i].type /\ x.addr = None BY <2>3, InodeFields
  <2>5. PICK r \in CallRecords :
           /\ r = PutThen(p, <<>>, "done") /\ Agrees(r) /\ r.pc \in {"put", "done"} /\ r.dp = 0 /\ r.old = 0
           /\ r.pc \notin Locks
           /\ \A j \in Inums : Tokens(cwd[p], i, r, j) = Has(cwd[p], j) + Has(fd[p], j) + Has(i, j)
    BY <2>2, KeepTakes
  <2>6. Moves(p, r, cwd[p], i) BY <1>1, <2>1, <2>2, <2>5 DEF Moves, Tables
  <2>. HIDE DEF x, i
  <2>7. /\ dino'[i] = x
        /\ \A j \in Inums \ {i} : core'[j] = core[j] /\ dino'[j] = dino[j]
    BY <1>1, <1>3, <2>1, <2>2, <2>4, UpdateIs
  <2>8. Owned(dino', used')
    <3>1. used' = used \ {dino[i].addr} /\ DiskOK(dino, ents, used) /\ dino'[i].addr = None
      BY <2>1, <2>4, <2>7 DEF Bfree, DisksOK
    <3>2. \A j \in Inums \ {i} : dino'[j].addr = dino[j].addr BY <2>7
    <3>. QED BY <2>2, <3>1, <3>2, AddrsDel
  <2>9. used' \subseteq Blocks BY <2>1 DEF Bfree, Tables
  <2>10. \A j \in Inums : Tokens(cwd[p], i, r, j) = RefsBy(p, j) BY <2>2, <2>5
  <2>11. /\ i \in Inums /\ lock[i] = None /\ ~NoType(i) /\ core[i].ref # 0 /\ x \in Inodes /\ Update(i, x)
         /\ x.type = dino[i].type /\ (x.addr \in {dino[i].addr, None} \/ dino[i].type # "dir")
    BY <1>1, <1>3, <2>1, <2>2, <2>4
  <2>12. k[p].pc \notin Locks /\ r.pc \notin Locks /\ r.dp = 0 /\ (r.old = 0 \/ r.old = k[p].old) /\ Agrees(r)
    BY <2>2, <2>5
  <2>. HIDE DEF Inv
  <2>. QED BY <2>a, <2>6, <2>8, <2>9, <2>10, <2>11, <2>12, UpdateStep
<1>. QED BY <1>2, <1>3

\* filewrite of a file that has no block yet.
LEMMA WriteKeeps == ASSUME Inv, NEW p \in Procs, Write(p) PROVE Inv'
<1>. USE DEF Inv
<1>. DEFINE i == fd[p]
            x == Bmap(dino[i])
            r == [k[p] EXCEPT !.pc = "done"]
<1>1. /\ k[p].pc = "user" /\ ~booting /\ i # 0 /\ lock[i] = None /\ Locked(i).inode.type = "file"
      /\ Locked(i).inode.addr = None /\ used # Blocks
      /\ Update(i, Bmap(Locked(i).inode)) /\ used' = Balloc(FirstFree) /\ k' = [k EXCEPT ![p].pc = "done"]
  BY DEF Write, Writei, At, Up
<1>a. ents' = ents /\ stable' = stable /\ lock' = lock /\ missed' = missed /\ panicked' = panicked BY DEF Write
<1>b. cwd' = cwd /\ fd' = fd /\ booting' = booting BY DEF Write
<1>2. i \in Inums BY <1>1, Fields
<1>3. core[i].ref # 0
  <2>1. ~NotBy(p, i) BY DEF Apart
  <2>. QED BY <1>2, <2>1, HeldRef
<1>4. ~NoType(i) BY <1>1, <1>2 DEF NoType, Locked, Tables, Cores
<1>5. Locked(i).inode = dino[i] /\ dino[i] \in Inodes /\ dino[i].type = "file" /\ dino[i].addr = None
  BY <1>1, <1>2, <1>4, LockedIs
<1>6. FirstFree \in Blocks /\ FirstFree \notin used /\ FirstFree # None BY <1>1, FirstFreeIs
<1>7. x \in Inodes /\ x.type = dino[i].type /\ x.addr = FirstFree BY <1>5, <1>6, InodeFields
<1>8. k[p].puts = <<>> /\ k[p].ip = 0 /\ k[p].dp = 0 /\ k[p].old = 0 /\ k[p].op = "none" /\ k[p] \in CallRecords
  BY <1>1, CallIs, Fields DEF Puts
<1>9. /\ r \in CallRecords /\ r.pc = "done" /\ r.puts = <<>> /\ r.ip = 0 /\ r.dp = 0 /\ r.old = 0 /\ r.op = "none"
  BY <1>8 DEF CallRecords, Stages
<1>10. k' = [k EXCEPT ![p] = r] BY <1>1, <1>8 DEF Tables
<1>. HIDE DEF r
<1>11. Agrees(r) /\ r.pc \notin Locks
  <2>1. Len(<<>>) = 0 OBVIOUS
  <2>. QED BY <1>9, <2>1 DEF Agrees, Walks, Puts, Locks
<1>12. Moves(p, r, cwd[p], fd[p])
  <2>1. booting' = FALSE BY <1>1, <1>b DEF Tables
  <2>. QED BY <2>1, <1>b, <1>9, <1>10, MovesCall
<1>. HIDE DEF x, i
<1>13. Update(i, x) BY <1>1, <1>5 DEF x
<1>14. /\ dino'[i] = x
       /\ \A j \in Inums \ {i} : core'[j] = core[j] /\ dino'[j] = dino[j]
  BY <1>1, <1>2, <1>3, <1>4, <1>7, <1>13, UpdateIs
<1>15. Owned(dino', used')
  <2>1. used' = used \cup {FirstFree} /\ DiskOK(dino, ents, used) /\ dino'[i].addr = FirstFree
    BY <1>1, <1>7, <1>14 DEF Balloc, DisksOK
  <2>2. \A j \in Inums \ {i} : dino'[j].addr = dino[j].addr BY <1>14
  <2>. QED BY <1>2, <1>5, <1>6, <2>1, <2>2, AddrsAdd
<1>16. used' \subseteq Blocks BY <1>1, <1>6 DEF Balloc, Tables
<1>17. \A j \in Inums : Tokens(cwd[p], fd[p], r, j) = RefsBy(p, j) BY <1>8, <1>9, TokensNone
<1>18. /\ i \in Inums /\ lock[i] = None /\ ~NoType(i) /\ core[i].ref # 0 /\ x \in Inodes /\ Update(i, x)
       /\ x.type = dino[i].type /\ (x.addr \in {dino[i].addr, None} \/ dino[i].type # "dir")
  BY <1>1, <1>2, <1>3, <1>4, <1>5, <1>7, <1>13
<1>19. k[p].pc \notin Locks /\ r.pc \notin Locks /\ r.dp = 0 /\ (r.old = 0 \/ r.old = k[p].old) /\ Agrees(r)
  BY <1>1, <1>9, <1>11 DEF Locks
<1>. HIDE DEF Inv
<1>. QED BY <1>a, <1>12, <1>15, <1>16, <1>17, <1>18, <1>19, UpdateStep

\* sys_link's way back: the link is counted down again.
LEMMA LinkBadKeeps == ASSUME Inv, NEW p \in Procs, LinkBad(p) PROVE Inv'
<1>. USE DEF Inv
<1>. DEFINE i == k[p].old
            x == Unlinked(dino[i])
<1>1. /\ k[p].pc = "linkbad" /\ ~booting /\ lock[i] = None
      /\ Update(i, Unlinked(Locked(i).inode)) /\ k' = [k EXCEPT ![p] = PutThen(p, <<i>>, "done")]
  BY DEF LinkBad, At, Up
<1>a. ents' = ents /\ stable' = stable /\ lock' = lock /\ missed' = missed /\ panicked' = panicked BY DEF LinkBad
<1>b. cwd' = cwd /\ fd' = fd /\ booting' = booting /\ used' = used BY DEF LinkBad
<1>2. k[p].puts = <<>> /\ k[p].ip = 0 /\ k[p].dp = 0 /\ i \in Inums /\ i # 0 BY <1>1, CallIs DEF Puts, Inums
<1>3. core[i].ref # 0
  <2>1. ~NotBy(p, i) BY DEF Apart
  <2>. QED BY <1>2, <2>1, HeldRef
<1>4. ~NoType(i) BY <1>2 DEF HeldOK, NoType
<1>5. Locked(i).inode = dino[i] /\ dino[i] \in Inodes BY <1>1, <1>2, <1>4, LockedIs
<1>6. x \in Inodes /\ x.type = dino[i].type /\ x.addr = dino[i].addr BY <1>5, InodeFields
<1>7. ASSUME NEW j \in Inums
      PROVE /\ RefsBy(p, j) = Has(cwd[p], j) + Has(fd[p], j) + Has(i, j)
  <2>1. RefsBy(p, j) = Has(cwd[p], j) + Has(fd[p], j) + Has(0, j) + Has(0, j) + Has(i, j)
    BY <1>2, TokensNone
  <2>2. Has(cwd[p], j) \in Nat /\ Has(fd[p], j) \in Nat /\ Has(i, j) \in Nat /\ Has(0, j) = 0 BY HasIs DEF Has, Inums
  <2>. QED BY <2>1, <2>2
<1>. HIDE DEF x, i
<1>8. PICK r \in CallRecords :
           /\ r = PutThen(p, <<i>>, "done") /\ Agrees(r) /\ r.pc \in {"put", "done"} /\ r.dp = 0 /\ r.old = 0
           /\ r.pc \notin Locks
           /\ \A j \in Inums : Tokens(cwd[p], fd[p], r, j) = Has(cwd[p], j) + Has(fd[p], j) + Has(i, j)
  BY <1>2, KeepPuts
<1>9. Moves(p, r, cwd[p], fd[p])
  <2>1. booting' = FALSE /\ k' = [k EXCEPT ![p] = r] BY <1>1, <1>b, <1>8 DEF Tables
  <2>. QED BY <2>1, <1>b, MovesCall
<1>13. Update(i, x) BY <1>1, <1>5 DEF x
<1>14. /\ dino'[i] = x
       /\ \A j \in Inums \ {i} : core'[j] = core[j] /\ dino'[j] = dino[j]
  BY <1>1, <1>2, <1>3, <1>4, <1>6, <1>13, UpdateIs
<1>15. Owned(dino', used')
  <2>1. DiskOK(dino, ents, used) /\ used' = used BY <1>b DEF DisksOK
  <2>2. \A j \in Inums : dino'[j].addr = dino[j].addr BY <1>6, <1>14
  <2>. QED BY <2>1, <2>2, AddrsSame
<1>16. used' \subseteq Blocks BY <1>b DEF Tables
<1>17. \A j \in Inums : Tokens(cwd[p], fd[p], r, j) = RefsBy(p, j) BY <1>7, <1>8
<1>18. /\ i \in Inums /\ lock[i] = None /\ ~NoType(i) /\ core[i].ref # 0 /\ x \in Inodes /\ Update(i, x)
       /\ x.type = dino[i].type /\ (x.addr \in {dino[i].addr, None} \/ dino[i].type # "dir")
  BY <1>1, <1>2, <1>3, <1>4, <1>5, <1>6, <1>13
<1>19. k[p].pc \notin Locks /\ r.pc \notin Locks /\ r.dp = 0 /\ (r.old = 0 \/ r.old = k[p].old) /\ Agrees(r)
  BY <1>1, <1>8 DEF Locks
<1>. HIDE DEF Inv
<1>. QED BY <1>a, <1>9, <1>15, <1>16, <1>17, <1>18, <1>19, UpdateStep

\* dirlink in the new parent of a link.
LEMMA LinkMade == ASSUME Inv, NEW p \in Procs, LinkTo(p), Dirlookup(k[p].dp, Head(k[p].path)) = 0 PROVE Inv'
<1>. USE DEF Inv
<1>. DEFINE d == k[p].dp
            n == Head(k[p].path)
            o == k[p].old
<1>1. /\ k[p].pc = "parent" /\ ~booting /\ k[p].op = "linkto" /\ k' = [k EXCEPT ![p] = PutThen(p, <<d, o>>, "done")]
      /\ lock[d] = None /\ ents' = [ents EXCEPT ![d] = [ents[d] EXCEPT ![n] = o]]
  BY DEF LinkTo, At, Up, Dirlink
<1>a. stable' = stable /\ missed' = missed /\ panicked' = panicked BY DEF LinkTo
<1>b. dino' = dino /\ used' = used /\ lock' = lock /\ core' = core BY DEF LinkTo, memVars
<1>c. cwd' = cwd /\ fd' = fd /\ booting' = booting BY DEF LinkTo
<1>2. /\ d \in Inums /\ k[p].pc \notin Locks /\ dino[d].type = "dir" /\ n \in Elements
      /\ \A j \in Inums : /\ RefsBy(p, j) = Has(cwd[p], j) + Has(fd[p], j) + Has(d, j) + Has(o, j)
                          /\ Has(cwd[p], j) \in Nat /\ Has(fd[p], j) \in Nat /\ Has(d, j) \in Nat /\ Has(o, j) \in Nat
  BY <1>1, ParentFacts
<1>3. o \in Inums /\ dino[o].type \in {"file", "dev"}
  <2>1. o \in Inums /\ o # 0 BY <1>1, CallIs DEF Inums
  <2>. QED BY <2>1 DEF HeldOK
<1>. HIDE DEF d, o, n
<1>4. PICK r \in CallRecords :
           /\ r = PutThen(p, <<d, o>>, "done") /\ Agrees(r) /\ r.pc \in {"put", "done"} /\ r.dp = 0 /\ r.old = 0
           /\ r.pc \notin Locks
           /\ \A j \in Inums : Tokens(cwd[p], fd[p], r, j) = Has(cwd[p], j) + Has(fd[p], j) + Has(d, j) + Has(o, j)
  BY <1>2, <1>3, PutsBoth
<1>5. Moves(p, r, cwd[p], fd[p])
  <2>1. booting' = FALSE /\ k' = [k EXCEPT ![p] = r] BY <1>1, <1>c, <1>4 DEF Tables
  <2>. QED BY <2>1, <1>c, MovesCall
<1>6. /\ ents' \in [Inums -> [Elements -> {0} \cup Inums]]
      /\ ents'[d][n] = o /\ \A m \in Elements \ {n} : ents'[d][m] = ents[d][m]
      /\ \A j \in Inums \ {d} : ents'[j] = ents[j]
  <2>1. ents \in [Inums -> [Elements -> {0} \cup Inums]] /\ ents[d] \in [Elements -> {0} \cup Inums] BY <1>2 DEF Tables
  <2>2. PICK y \in [Elements -> {0} \cup Inums] : /\ y = [ents[d] EXCEPT ![n] = o] /\ y[n] = o
                                                  /\ \A m \in Elements \ {n} : y[m] = ents[d][m]
    <3>1. PICK e \in [Elements -> {0} \cup Inums] : e = ents[d] BY <2>1
    <3>2. n \in Elements /\ o \in {0} \cup Inums BY <1>2, <1>3
    <3>3. /\ [e EXCEPT ![n] = o] \in [Elements -> {0} \cup Inums]
          /\ [e EXCEPT ![n] = o][n] = o /\ \A m \in Elements \ {n} : [e EXCEPT ![n] = o][m] = e[m] BY <3>2
    <3>. QED BY <3>1, <3>3
  <2>. QED BY <2>1, <2>2, <1>1, <1>2
<1>7. TypesMove BY <1>6, <1>b DEF TypesMove, Tables
<1>8. RefsMove(p, r, cwd[p], fd[p]) BY <1>b, <1>2, <1>4 DEF RefsMove
<1>9. LocksMove(p, r) BY <1>2, <1>4, <1>b, LocksKeep
<1>10. CoresMove(p, r)
  <2>1. k[p].pc # "invalid" /\ r.pc # "free" BY <1>1, <1>4 DEF Locks
  <2>2. \A i \in Inums : core'[i].ref = 0 => core'[i] = NoCore BY <1>b DEF CoresOK
  <2>3. \A i \in Inums : core[i].valid => core'[i].valid BY <1>b
  <2>4. \A i \in Inums : \/ core'[i].valid = core[i].valid /\ core'[i].inode = core[i].inode /\ dino'[i] = dino[i]
                         \/ core'[i].inode = dino'[i] /\ dino'[i].type # "free" BY <1>b
  <2>. QED BY <2>1, <2>2, <2>3, <2>4, CoresWritten
<1>11. HeldMove(p, r)
  <2>1. /\ \A j \in Inums : core[j].valid => core'[j].valid
        /\ \A j \in Inums : dino'[j].type = dino[j].type
        /\ \A j \in Inums : dino'[j].addr \in {dino[j].addr, None} \/ NotNew(p, j) \/ dino[j].type # "dir"
    BY <1>b
  <2>. QED BY <2>1, <1>4, HeldEnds
<1>12. TreeMove(p, r)
  <2>1. \A x \in Inums : ents'[x] = ents[x] \/ lock[x] = None \/ lock[x] = p BY <1>1, <1>6
  <2>2. ASSUME NEW q \in Procs \ {p}, k[q].pc = "new" PROVE o # k[q].dp
    <3>1. k[q].dp \in Inums /\ k[q].dp # 0 BY <2>2, CallIs DEF Inums
    <3>2. dino[k[q].dp].type = "dir" BY <3>1 DEF HeldOK
    <3>. QED BY <3>2, <1>3
  <2>3. \A x \in Inums, m \in Names : \/ ents'[x][m] = ents[x][m] \/ ents'[x][m] = 0
                                   \/ \A q \in Procs \ {p} : k[q].pc = "new" /\ k[q].ip = x => ents'[x][m] # k[q].dp
    BY <2>2, <1>6 DEF Elements
  <2>4. r.pc # "unlink" /\ r.pc # "new" BY <1>4 DEF Locks
  <2>. QED BY <2>1, <2>3, <2>4 DEF TreeMove
<1>13. DiskOK(dino', ents', used')
  <2>0. DiskOK(dino, ents, used) BY DEF DisksOK
  <2>1. \A j \in Inums : dino'[j].type = "free" => dino'[j] = FreeInode BY <2>0, <1>b DEF DiskOK
  <2>2. \A j \in Inums : dino'[j].type # "dir" => ents'[j] = EmptyDir BY <2>0, <1>b, <1>2, <1>6 DEF DiskOK
  <2>3. Owned(dino', used')
    BY <2>0, <1>b, AddrsSame
  <2>4. ASSUME NEW a \in Inums, NEW b \in Inums, NEW l \in Names, NEW m \in Names, ents'[a][l] = b, ents'[b][m] = a PROVE FALSE
    <3>1. l \in Elements /\ m \in Elements /\ 0 \notin Inums BY DEF Elements, Inums
    <3>2. ents[o] = EmptyDir /\ ents'[o] = ents[o] BY <2>0, <1>2, <1>3, <1>6 DEF DiskOK
    <3>3. \A y \in Elements : ents'[o][y] = 0 BY <3>2 DEF EmptyDir
    <3>4. a # o /\ b # o BY <3>1, <3>3, <2>4
    <3>5. ents[a][l] = b /\ ents[b][m] = a BY <3>1, <3>4, <2>4, <1>6
    <3>. QED BY <3>5, <2>0 DEF DiskOK
  <2>. QED BY <2>1, <2>2, <2>3, <2>4 DEF DiskOK
<1>14. Agrees(r) BY <1>4
<1>. HIDE DEF Inv
<1>. QED BY <1>a, <1>5, <1>7, <1>8, <1>9, <1>10, <1>11, <1>12, <1>13, <1>14, DiskStep

\* sys_link counts the link, and namex starts again for the new name.
LEMMA LinkCounts ==
  ASSUME Inv, NEW p \in Procs, Link(p), ~NoType(k[p].ip), Locked(k[p].ip).inode.type # "dir" PROVE Inv'
<1>. USE DEF Inv
<1>. DEFINE i == k[p].ip
            s == IF k[p].new.abs THEN Root ELSE cwd[p]
            x == Linked(dino[i])
            c == [core EXCEPT ![i] = [Locked(i) EXCEPT !.inode = x]]
            r == [k[p] EXCEPT !.pc = "walk", !.op = "linkto", !.old = i, !.ip = s, !.path = k[p].new.elems]
<1>1. k[p].pc = "at" /\ ~booting /\ lock[i] = None /\ k[p].op = "link" /\ k[p].op # "linkto"
  BY DEF Link, AtInode, At, Up
<1>a. stable' = stable /\ missed' = missed /\ panicked' = panicked BY DEF Link
<1>b. ents' = ents /\ used' = used /\ lock' = lock BY DEF Link
<1>c. cwd' = cwd /\ fd' = fd /\ booting' = booting BY DEF Link
<1>2. /\ i \in Inums /\ core[i].ref # 0 /\ k[p].pc \notin Locks /\ k[p].old = 0 /\ k[p].dp = 0
      /\ \A j \in Inums : /\ RefsBy(p, j) = Has(cwd[p], j) + Has(fd[p], j) + Has(i, j)
                          /\ Has(cwd[p], j) \in Nat /\ Has(fd[p], j) \in Nat /\ Has(i, j) \in Nat
  BY <1>1, AtFacts
<1>3. /\ Locked(i) \in Cores /\ Locked(i).ref = core[i].ref /\ Locked(i).valid /\ Locked(i).inode = dino[i]
      /\ dino[i].type # "free" /\ dino[i] \in Inodes BY <1>1, <1>2, LockedIs
<1>4. dino[i].type \in {"file", "dev"} BY <1>3 DEF Inodes, Types
<1>5. x \in Inodes /\ x.type = dino[i].type /\ x.addr = dino[i].addr BY <1>3, InodeFields
<1>6. s \in Inums BY Fields, FsAssumption DEF Inums, Root
<1>7. /\ k' = [k EXCEPT ![p] = r] /\ core' = Iget(c, s) /\ dino' = [dino EXCEPT ![i] = c[i].inode]
  BY <1>3 DEF Link, LinkCount
<1>8. k[p].puts = <<>> /\ k[p] \in CallRecords /\ k[p].new \in Paths /\ k[p].new.elems # <<>>
  <2>1. k[p].pc \notin Puts BY <1>1 DEF Puts
  <2>. QED BY <2>1, <1>1, CallIs, Fields DEF CallsOK, Agrees
<1>9. k[p].new.elems \in Seq(Elements) BY <1>8 DEF Paths
<1>. HIDE DEF s, i, x
<1>10. r \in CallRecords
  <2>1. "walk" \in Stages /\ "linkto" \in Ops \cup {"none", "linkto"} /\ i \in {0} \cup Inums /\ s \in {0} \cup Inums
    BY <1>2, <1>6 DEF Stages
  <2>. QED BY <2>1, <1>8, <1>9 DEF CallRecords
<1>11. /\ r.pc = "walk" /\ r.op = "linkto" /\ r.path = k[p].new.elems /\ r.new = k[p].new /\ r.ip = s
       /\ r.dp = 0 /\ r.old = i /\ r.puts = <<>> BY <1>2, <1>8 DEF CallRecords
<1>. HIDE DEF r
<1>12. Agrees(r)
  <2>1. Len(<<>>) = 0 /\ s # 0 /\ i # 0 BY <1>2, <1>6 DEF Inums
  <2>. QED BY <2>1, <1>8, <1>11 DEF Agrees, Walks, Puts
<1>13. Moves(p, r, cwd[p], fd[p])
  <2>1. booting' = FALSE BY <1>1, <1>c DEF Tables
  <2>. QED BY <2>1, <1>c, <1>7, <1>10, MovesCall
<1>14. /\ c \in [Inums -> Cores] /\ c[i].ref = core[i].ref /\ c[i].valid /\ c[i].inode = x
       /\ \A j \in Inums \ {i} : c[j] = core[j]
  <2>1. PICK l \in Cores : l = Locked(i) /\ l.ref = core[i].ref /\ l.valid BY <1>3
  <2>2. PICK y \in Cores : y = [l EXCEPT !.inode = x] /\ y.ref = l.ref /\ y.valid = l.valid /\ y.inode = x
    <3>1. [l EXCEPT !.inode = x] \in Cores BY <1>5 DEF Cores
    <3>2. [l EXCEPT !.inode = x].ref = l.ref /\ [l EXCEPT !.inode = x].valid = l.valid /\ [l EXCEPT !.inode = x].inode = x
      BY DEF Cores
    <3>. QED BY <3>1, <3>2
  <2>3. c = [core EXCEPT ![i] = y] BY <2>1, <2>2
  <2>. HIDE DEF c
  <2>. QED BY <2>1, <2>2, <2>3, <1>2 DEF Tables
<1>. HIDE DEF c
<1>15. \A j \in Inums : c[j].ref = core[j].ref /\ (c[j].ref = 0 => c[j] = NoCore) BY <1>2, <1>14 DEF CoresOK
<1>16. /\ core' \in [Inums -> Cores]
       /\ \A j \in Inums : /\ core'[j].ref = c[j].ref + Has(s, j)
                           /\ core'[j].valid = c[j].valid /\ core'[j].inode = c[j].inode
       /\ \A j \in Inums \ {s} : core'[j] = c[j] BY <1>6, <1>7, <1>14, <1>15, IgetIs
<1>17. /\ dino' \in [Inums -> Inodes] /\ dino'[i] = x /\ \A j \in Inums \ {i} : dino'[j] = dino[j]
  BY <1>2, <1>5, <1>7, <1>14 DEF Tables
<1>18. TypesMove BY <1>16, <1>17, <1>b DEF TypesMove, Tables
<1>19. RefsMove(p, r, cwd[p], fd[p])
  <2>1. ASSUME NEW j \in Inums
        PROVE core'[j].ref + RefsBy(p, j) = core[j].ref + Tokens(cwd[p], fd[p], r, j)
    <3>1. core'[j].ref = core[j].ref + Has(s, j) /\ core[j].ref \in Nat BY <1>15, <1>16 DEF Tables, Cores
    <3>2. Tokens(cwd[p], fd[p], r, j) = Has(cwd[p], j) + Has(fd[p], j) + Has(s, j) + Has(0, j) + Has(i, j)
      BY <1>11, TokensNone
    <3>3. Has(0, j) = 0 /\ Has(s, j) \in Nat BY HasIs DEF Has, Inums
    <3>4. /\ RefsBy(p, j) = Has(cwd[p], j) + Has(fd[p], j) + Has(i, j)
          /\ Has(cwd[p], j) \in Nat /\ Has(fd[p], j) \in Nat /\ Has(i, j) \in Nat BY <1>2
    <3>. QED BY <3>1, <3>2, <3>3, <3>4
  <2>. QED BY <2>1 DEF RefsMove
<1>20. LocksMove(p, r)
  <2>1. r.pc \notin Locks BY <1>11 DEF Locks
  <2>. QED BY <2>1, <1>2, <1>b, LocksKeep
<1>21. \A j \in Inums : core[j].valid => core'[j].valid BY <1>14, <1>16
<1>22. CoresMove(p, r)
  <2>1. k[p].pc # "invalid" /\ r.pc # "free" BY <1>1, <1>11
  <2>2. ASSUME NEW j \in Inums, core'[j].ref = 0 PROVE core'[j] = NoCore
    <3>1. c[j].ref \in Nat BY <1>14 DEF Cores
    <3>2. j # s /\ c[j].ref = 0 BY <3>1, <2>2, <1>16, HasIs DEF Has
    <3>. QED BY <3>2, <1>15, <1>16
  <2>3. ASSUME NEW j \in Inums
        PROVE  \/ core'[j].valid = core[j].valid /\ core'[j].inode = core[j].inode /\ dino'[j] = dino[j]
               \/ core'[j].inode = dino'[j] /\ dino'[j].type # "free" BY <1>4, <1>5, <1>14, <1>16, <1>17
  <2>. QED BY <2>1, <2>2, <2>3, <1>21, CoresWritten
<1>23. HeldMove(p, r)
  <2>1. /\ \A j \in Inums : dino'[j].type = dino[j].type
        /\ \A j \in Inums : dino'[j].addr = dino[j].addr BY <1>5, <1>17
  <2>2. core'[i].valid /\ dino'[i].type \in {"file", "dev"} BY <1>2, <1>4, <1>5, <1>14, <1>16, <1>17
  <2>. QED BY <2>1, <2>2, <1>1, <1>11, <1>21 DEF HeldMove
<1>24. TreeMove(p, r)
  <2>1. r.pc \notin Locks BY <1>11 DEF Locks
  <2>. QED BY <2>1, <1>b, TreeKeeps
<1>25. DiskOK(dino', ents', used')
  <2>0. DiskOK(dino, ents, used) BY DEF DisksOK
  <2>1. \A j \in Inums : dino'[j].type = dino[j].type /\ dino'[j].addr = dino[j].addr BY <1>5, <1>17
  <2>2. \A j \in Inums : dino'[j].type = "free" => dino'[j] = FreeInode BY <2>0, <1>4, <1>5, <1>17 DEF DiskOK
  <2>3. Owned(dino', used')
    BY <2>0, <2>1, <1>b, AddrsSame
  <2>4. /\ \A j \in Inums : dino'[j].type # "dir" => ents'[j] = EmptyDir
        /\ \A a, e \in Inums, m, n \in Names : ~(ents'[a][m] = e /\ ents'[e][n] = a)
    BY <2>0, <2>1, <1>b DEF DiskOK
  <2>. QED BY <2>2, <2>3, <2>4 DEF DiskOK
<1>. HIDE DEF Inv
<1>. QED BY <1>a, <1>12, <1>13, <1>18, <1>19, <1>20, <1>22, <1>23, <1>24, <1>25, DiskStep

\* The call whose stage changes, and nothing else.
LEMMA StageOnly ==
  ASSUME Tables, CallsOK, NEW p \in Procs, k[p].pc \in Puts, NEW s \in Puts, k' = [k EXCEPT ![p].pc = s],
         cwd' = cwd, fd' = fd, ~booting, booting' = booting
  PROVE  \E r \in CallRecords :
           /\ Moves(p, r, cwd[p], fd[p]) /\ Agrees(r) /\ r.pc = s
           /\ r.ip = k[p].ip /\ r.dp = 0 /\ r.old = k[p].old /\ r.puts = k[p].puts
           /\ \A j \in Inums : Tokens(cwd[p], fd[p], r, j) = RefsBy(p, j)
<1>1. PICK t \in CallRecords : t = k[p] /\ Agrees(t) /\ t.dp = 0 BY Fields, CallIs DEF CallsOK
<1>. DEFINE r == [t EXCEPT !.pc = s]
<1>2. r \in CallRecords /\ r.pc = s /\ r.op = t.op /\ r.path = t.path /\ r.new = t.new BY DEF CallRecords, Stages, Puts
<1>3. r.ip = t.ip /\ r.dp = t.dp /\ r.old = t.old /\ r.puts = t.puts /\ r.after = t.after BY DEF CallRecords
<1>4. k' = [k EXCEPT ![p] = r] BY <1>1 DEF Tables
<1>. HIDE DEF r
<1>5. Agrees(r) BY <1>1, <1>2, <1>3 DEF Agrees, Puts, Walks
<1>6. Moves(p, r, cwd[p], fd[p])
  <2>1. booting' = FALSE BY DEF Tables
  <2>. QED BY <2>1, <1>2, <1>4, MovesCall
<1>7. \A j \in Inums : Tokens(cwd[p], fd[p], r, j) = RefsBy(p, j) BY <1>1, <1>3 DEF Tokens
<1>. QED BY <1>1, <1>2, <1>3, <1>5, <1>6, <1>7

\* iput finds the last reference to an inode without links: nobody has its lock.
LEMMA IputStarts == ASSUME Inv, NEW p \in Procs, Iput(p), LastOfUnlinked(Head(k[p].puts)) PROVE Inv'
<1>. USE DEF Inv
<1>. DEFINE i == Head(k[p].puts)
<1>1. /\ k[p].pc = "put" /\ ~booting /\ lock' = [lock EXCEPT ![i] = p] /\ k' = [k EXCEPT ![p].pc = "free"]
      /\ core[i].ref = 1 /\ core[i].valid BY DEF Iput, At, Up, LastOfUnlinked
<1>a. stable' = stable /\ missed' = missed /\ panicked' = panicked BY DEF Iput
<1>b. dino' = dino /\ ents' = ents /\ used' = used /\ core' = core BY DEF Iput, diskVars
<1>c. cwd' = cwd /\ fd' = fd /\ booting' = booting BY DEF Iput
<1>2. k[p].pc \in Puts /\ "free" \in Puts /\ k[p].pc \notin Locks BY <1>1 DEF Puts, Locks
<1>3. i \in Inums /\ 1 \in DOMAIN k[p].puts /\ k[p].puts[1] = i BY <1>2, CallIs
<1>4. ~NotBy(p, i) BY <1>3 DEF Apart
<1>5. PICK r \in CallRecords :
           /\ Moves(p, r, cwd[p], fd[p]) /\ Agrees(r) /\ r.pc = "free"
           /\ r.ip = k[p].ip /\ r.dp = 0 /\ r.old = k[p].old /\ r.puts = k[p].puts
           /\ \A j \in Inums : Tokens(cwd[p], fd[p], r, j) = RefsBy(p, j)
  <2>1. Tables /\ CallsOK OBVIOUS
  <2>. HIDE DEF Inv, i
  <2>. QED BY <2>1, <1>1, <1>2, <1>c, StageOnly
<1>6. /\ \A q \in Procs \ {p} : NotBy(q, i)
      /\ RefsBy(p, i) = 1 BY <1>1, <1>3, <1>4, SoleRef
<1>7. k[p].old # i
  <2>1. /\ \A j \in Inums : RefsBy(p, j) = Tokens(cwd[p], fd[p], Popped(p), j) + Has(i, j)
        /\ Popped(p).old = k[p].old BY <1>2, PoppedIs
  <2>2. Has(i, i) = 1 /\ Tokens(cwd[p], fd[p], Popped(p), i) \in Nat BY <1>3, TokensZero DEF Has
  <2>3. Tokens(cwd[p], fd[p], Popped(p), i) = 0 BY <1>3, <1>6, <2>1, <2>2
  <2>4. Apart(cwd[p], fd[p], Popped(p), i) BY <1>3, <2>3, TokensZero
  <2>. QED BY <2>1, <2>4 DEF Apart
<1>8. /\ Idle(p, i) /\ NotNew(p, i)
      /\ \A q \in Procs \ {p} : k[q].dp # i /\ k[q].old # i BY <1>3, <1>6, SoleIdle
<1>9. lock[i] = None
  <2>1. lock[i] \in Procs \cup {None} BY <1>3 DEF Tables
  <2>2. ASSUME NEW q \in Procs, lock[i] = q PROVE FALSE
    <3>1. Owns(k[q], i) BY <2>2, <1>3 DEF LocksOK
    <3>2. q # p BY <3>1, <1>1 DEF Owns
    <3>3. k[q].dp # i /\ NotBy(q, i) BY <3>2, <1>6, <1>8
    <3>4. k[q].pc \in {"free", "invalid"} /\ Head(k[q].puts) = i BY <3>1, <3>3 DEF Owns
    <3>5. 1 \in DOMAIN k[q].puts /\ k[q].puts[1] = Head(k[q].puts) BY <3>4, CallIs DEF Puts
    <3>. QED BY <3>3, <3>4, <3>5 DEF Apart
  <2>. QED BY <2>1, <2>2
<1>. HIDE DEF i
<1>10. Head(r.puts) = i BY <1>5 DEF i
<1>11. LocksMove(p, r) /\ lock' \in [Inums -> Procs \cup {None}]
  <2>1. \A j \in Inums : Owns(r, j) <=> j = i BY <1>5, <1>10 DEF Owns
  <2>. QED BY <2>1, <1>1, <1>2, <1>3, <1>9, LocksTake
<1>12. TypesMove BY <1>11, <1>b DEF TypesMove, Tables
<1>13. RefsMove(p, r, cwd[p], fd[p]) BY <1>b, <1>5 DEF RefsMove
<1>14. CoresMove(p, r) BY <1>1, <1>b, <1>5, <1>10 DEF CoresMove, CoresOK
<1>15. HeldMove(p, r)
  <2>1. k[p].old # 0 => core'[k[p].old].valid /\ dino'[k[p].old].type \in {"file", "dev"} BY <1>b DEF HeldOK
  <2>2. i # 0 BY <1>3 DEF Inums
  <2>. QED BY <2>1, <2>2, <1>b, <1>5, <1>7, <1>8, <1>10 DEF HeldMove
<1>16. TreeMove(p, r) BY <1>b, <1>5 DEF TreeMove
<1>17. DiskOK(dino', ents', used') BY <1>b DEF DisksOK
<1>18. Agrees(r) /\ Moves(p, r, cwd[p], fd[p]) BY <1>5
<1>. HIDE DEF Inv
<1>. QED BY <1>a, <1>11, <1>12, <1>13, <1>14, <1>15, <1>16, <1>17, <1>18, DiskStep

\* A process that frees an inode has its lock, and no other relies on the inode.
LEMMA FreeingFacts == ASSUME Inv, NEW p \in Procs, k[p].pc \in {"free", "invalid"}
  PROVE  /\ Head(k[p].puts) \in Inums /\ lock[Head(k[p].puts)] = p /\ core[Head(k[p].puts)].ref # 0
         /\ Idle(p, Head(k[p].puts)) /\ Head(k[p].puts) # k[p].old
         /\ \A q \in Procs \ {p} : k[q].dp # Head(k[p].puts) /\ k[q].old # Head(k[p].puts)
         /\ \A j \in Inums : Owns(k[p], j) <=> j = Head(k[p].puts)
<1>. USE DEF Inv
<1>. DEFINE i == Head(k[p].puts)
<1>1. i \in Inums /\ 1 \in DOMAIN k[p].puts /\ k[p].puts[1] = i BY CallIs DEF Puts
<1>2. ~NotBy(p, i) BY <1>1 DEF Apart
<1>3. core[i].ref # 0 BY <1>1, <1>2, HeldRef
<1>4. \A j \in Inums : Owns(k[p], j) <=> j = i BY DEF Owns
<1>5. lock[i] = p BY <1>1, <1>4 DEF LocksOK
<1>6. \A q \in Procs : k[q].dp # i /\ k[q].old # i BY DEF HeldOK
<1>7. ASSUME NEW q \in Procs \ {p}, k[q].pc = "free", Head(k[q].puts) = i PROVE FALSE
  <2>1. Owns(k[q], i) BY <1>7 DEF Owns
  <2>2. lock[i] = q BY <2>1, <1>1 DEF LocksOK
  <2>. QED BY <2>2, <1>5
<1>8. Idle(p, i) BY <1>6, <1>7 DEF Idle
<1>. QED BY <1>1, <1>3, <1>4, <1>5, <1>6, <1>8

\* The inode is truncated and freed on disk, under its lock.
LEMMA IputFreeKeeps == ASSUME Inv, NEW p \in Procs, IputFree(p) PROVE Inv'
<1>. USE DEF Inv
<1>. DEFINE i == Head(k[p].puts)
<1>1. /\ k[p].pc = "free" /\ ~booting /\ k' = [k EXCEPT ![p].pc = "invalid"] /\ Update(i, FreeInode)
      /\ ents' = [ents EXCEPT ![i] = EmptyDir] /\ used' = Bfree(core[i].inode.addr) BY DEF IputFree, At, Up
<1>a. stable' = stable /\ missed' = missed /\ panicked' = panicked BY DEF IputFree
<1>b. lock' = lock BY DEF IputFree
<1>c. cwd' = cwd /\ fd' = fd /\ booting' = booting BY DEF IputFree
<1>2. k[p].pc \in Puts /\ "invalid" \in Puts BY <1>1 DEF Puts
<1>3. /\ i \in Inums /\ lock[i] = p /\ core[i].ref # 0 /\ Idle(p, i) /\ i # k[p].old
      /\ \A q \in Procs \ {p} : k[q].dp # i /\ k[q].old # i
      /\ \A j \in Inums : Owns(k[p], j) <=> j = i BY <1>1, FreeingFacts
<1>4. NotNew(p, i) BY <1>1 DEF NotNew, HeldOK
<1>5. core[i].valid BY <1>1 DEF CoresOK
<1>6. core[i].inode = dino[i] /\ dino[i].type # "free"
  <2>1. ~Stale(i) BY <1>1, <1>3 DEF Stale, LocksOK, Owns
  <2>. QED BY <2>1, <1>3, <1>5 DEF CoresOK
<1>7. PICK r \in CallRecords :
           /\ Moves(p, r, cwd[p], fd[p]) /\ Agrees(r) /\ r.pc = "invalid"
           /\ r.ip = k[p].ip /\ r.dp = 0 /\ r.old = k[p].old /\ r.puts = k[p].puts
           /\ \A j \in Inums : Tokens(cwd[p], fd[p], r, j) = RefsBy(p, j)
  <2>1. Tables /\ CallsOK OBVIOUS
  <2>. HIDE DEF Inv, i
  <2>. QED BY <2>1, <1>1, <1>2, <1>c, StageOnly
<1>. HIDE DEF i
<1>8. Head(r.puts) = i BY <1>7 DEF i
<1>9. FreeInode \in Inodes /\ FreeInode.type = "free" /\ FreeInode.addr = None BY NoCoreIs DEF FreeInode
<1>10. /\ core' \in [Inums -> Cores] /\ dino' \in [Inums -> Inodes]
       /\ core'[i].ref = core[i].ref /\ core'[i].valid /\ dino'[i] = FreeInode
       /\ \A j \in Inums \ {i} : core'[j] = core[j] /\ dino'[j] = dino[j]
  <2>1. core \in [Inums -> Cores] /\ dino \in [Inums -> Inodes] BY DEF Tables
  <2>2. PICK l \in Cores : l = core[i] /\ l.valid /\ Locked(i) = l BY <2>1, <1>3, <1>5 DEF Locked
  <2>3. [l EXCEPT !.inode = FreeInode] \in Cores BY <1>9 DEF Cores
  <2>4. [l EXCEPT !.inode = FreeInode].ref = l.ref /\ [l EXCEPT !.inode = FreeInode].valid = l.valid BY DEF Cores
  <2>5. core' = [core EXCEPT ![i] = [l EXCEPT !.inode = FreeInode]] /\ dino' = [dino EXCEPT ![i] = FreeInode]
    BY <2>2, <1>1 DEF Update
  <2>. QED BY <2>1, <2>2, <2>3, <2>4, <2>5, <1>3, <1>9
<1>11. /\ ents' \in [Inums -> [Elements -> {0} \cup Inums]] /\ ents'[i] = EmptyDir
       /\ \A j \in Inums \ {i} : ents'[j] = ents[j]
       /\ \A n \in Names : ents'[i][n] = 0
  <2>1. EmptyDir \in [Elements -> {0} \cup Inums] /\ \A n \in Names : EmptyDir[n] = 0 BY DEF EmptyDir, Elements
  <2>. QED BY <2>1, <1>1, <1>3 DEF Tables
<1>12. used' = used \ {dino[i].addr} /\ used' \subseteq Blocks BY <1>1, <1>6 DEF Bfree, Tables
<1>13. TypesMove BY <1>10, <1>11, <1>12, <1>b DEF TypesMove, Tables
<1>14. RefsMove(p, r, cwd[p], fd[p]) BY <1>7, <1>10 DEF RefsMove
<1>15. LocksMove(p, r)
  <2>1. \A j \in Inums : Owns(r, j) <=> Owns(k[p], j) BY <1>3, <1>7, <1>8 DEF Owns, Inums
  <2>. QED BY <2>1, <1>b DEF LocksMove, LocksOK
<1>16. CoresMove(p, r)
  <2>1. \A j \in Inums : core'[j].ref = 0 => core'[j] = NoCore BY <1>3, <1>10 DEF CoresOK
  <2>2. \A j \in Inums : core[j].valid => core'[j].valid BY <1>10
  <2>3. \A j \in Inums : \/ core'[j].valid = core[j].valid /\ core'[j].inode = core[j].inode /\ dino'[j] = dino[j]
                         \/ r.pc = "invalid" /\ Head(r.puts) = j BY <1>7, <1>8, <1>10
  <2>. QED BY <2>1, <2>2, <2>3, <1>1, <1>7 DEF CoresMove
<1>17. HeldMove(p, r)
  <2>1. k[p].old # 0 => core'[k[p].old].valid /\ dino'[k[p].old].type \in {"file", "dev"}
    <3>1. HAVE k[p].old # 0
    <3>2. PICK j \in Inums : j = k[p].old /\ j # i BY <3>1, <1>3, Fields
    <3>3. core[j].valid /\ dino[j].type \in {"file", "dev"} BY <3>1, <3>2 DEF HeldOK
    <3>. QED BY <3>2, <3>3, <1>10
  <2>2. i # 0 BY <1>3 DEF Inums
  <2>3. /\ \A j \in Inums : core[j].valid => core'[j].valid \/ Idle(p, j)
        /\ \A j \in Inums : dino'[j].type = dino[j].type \/ (Idle(p, j) /\ NotNew(p, j))
        /\ \A j \in Inums : dino'[j].addr \in {dino[j].addr, None} \/ NotNew(p, j) \/ dino[j].type # "dir"
    BY <1>3, <1>4, <1>10
  <2>. QED BY <2>1, <2>2, <2>3, <1>3, <1>7, <1>8 DEF HeldMove
<1>18. TreeMove(p, r)
  <2>1. \A x \in Inums : ents'[x] = ents[x] \/ lock[x] = None \/ lock[x] = p BY <1>3, <1>11
  <2>2. \A x \in Inums, n \in Names : ents'[x][n] = ents[x][n] \/ ents'[x][n] = 0 BY <1>11
  <2>. QED BY <2>1, <2>2, <1>7 DEF TreeMove
<1>19. DiskOK(dino', ents', used')
  <2>0. DiskOK(dino, ents, used) BY DEF DisksOK
  <2>1. \A j \in Inums : dino'[j].type = "free" => dino'[j] = FreeInode BY <2>0, <1>10 DEF DiskOK
  <2>2. \A j \in Inums : dino'[j].type # "dir" => ents'[j] = EmptyDir BY <2>0, <1>10, <1>11 DEF DiskOK
  <2>3. Owned(dino', used')
    <3>1. dino'[i].addr = None /\ \A j \in Inums \ {i} : dino'[j].addr = dino[j].addr BY <1>9, <1>10
    <3>. QED BY <2>0, <3>1, <1>3, <1>12, AddrsDel
  <2>4. \A a, b \in Inums, l, m \in Names : ~(ents'[a][l] = b /\ ents'[b][m] = a)
    <3>1. 0 \notin Inums BY DEF Inums
    <3>. QED BY <2>0, <3>1, <1>11 DEF DiskOK
  <2>. QED BY <2>1, <2>2, <2>3, <2>4 DEF DiskOK
<1>20. Agrees(r) /\ Moves(p, r, cwd[p], fd[p]) BY <1>7
<1>. HIDE DEF Inv
<1>. QED BY <1>a, <1>13, <1>14, <1>15, <1>16, <1>17, <1>18, <1>19, <1>20, DiskStep

\* The copy is made invalid, and the lock released.
LEMMA IputInvalidKeeps == ASSUME Inv, NEW p \in Procs, IputInvalid(p) PROVE Inv'
<1>. USE DEF Inv
<1>. DEFINE i == Head(k[p].puts)
<1>1. /\ k[p].pc = "invalid" /\ ~booting /\ k' = [k EXCEPT ![p].pc = "drop"]
      /\ core' = [core EXCEPT ![i].valid = FALSE] /\ lock' = [lock EXCEPT ![i] = None]
  BY DEF IputInvalid, At, Up
<1>a. stable' = stable /\ missed' = missed /\ panicked' = panicked BY DEF IputInvalid
<1>b. dino' = dino /\ ents' = ents /\ used' = used BY DEF IputInvalid, diskVars
<1>c. cwd' = cwd /\ fd' = fd /\ booting' = booting BY DEF IputInvalid
<1>2. k[p].pc \in Puts /\ "drop" \in Puts BY <1>1 DEF Puts
<1>3. /\ i \in Inums /\ lock[i] = p /\ core[i].ref # 0 /\ Idle(p, i) /\ i # k[p].old
      /\ \A q \in Procs \ {p} : k[q].dp # i /\ k[q].old # i
      /\ \A j \in Inums : Owns(k[p], j) <=> j = i BY <1>1, FreeingFacts
<1>7. PICK r \in CallRecords :
           /\ Moves(p, r, cwd[p], fd[p]) /\ Agrees(r) /\ r.pc = "drop"
           /\ r.ip = k[p].ip /\ r.dp = 0 /\ r.old = k[p].old /\ r.puts = k[p].puts
           /\ \A j \in Inums : Tokens(cwd[p], fd[p], r, j) = RefsBy(p, j)
  <2>1. Tables /\ CallsOK OBVIOUS
  <2>. HIDE DEF Inv, i
  <2>. QED BY <2>1, <1>1, <1>2, <1>c, StageOnly
<1>10. /\ core' \in [Inums -> Cores] /\ core'[i].ref = core[i].ref /\ ~core'[i].valid
       /\ \A j \in Inums \ {i} : core'[j] = core[j]
  <2>. HIDE DEF i
  <2>1. core \in [Inums -> Cores] BY DEF Tables
  <2>2. PICK l \in Cores : l = core[i] BY <2>1, <1>3
  <2>3. PICK y \in Cores : y = [l EXCEPT !.valid = FALSE] /\ y.ref = l.ref /\ ~y.valid
    <3>1. [l EXCEPT !.valid = FALSE] \in Cores BY DEF Cores
    <3>2. [l EXCEPT !.valid = FALSE].ref = l.ref /\ ~[l EXCEPT !.valid = FALSE].valid BY DEF Cores
    <3>. QED BY <3>1, <3>2
  <2>4. core' = [core EXCEPT ![i] = y] BY <2>2, <2>3, <1>1
  <2>. QED BY <2>1, <2>2, <2>3, <2>4, <1>3
<1>. HIDE DEF i
<1>11. LocksMove(p, r) /\ lock' \in [Inums -> Procs \cup {None}]
  <2>1. r.pc \notin Locks BY <1>7 DEF Locks
  <2>. QED BY <2>1, <1>1, <1>3, LocksGive
<1>12. TypesMove BY <1>10, <1>11, <1>b DEF TypesMove, Tables
<1>13. RefsMove(p, r, cwd[p], fd[p]) BY <1>7, <1>10 DEF RefsMove
<1>14. CoresMove(p, r)
  <2>1. \A j \in Inums : core'[j].ref = 0 => core'[j] = NoCore BY <1>3, <1>10 DEF CoresOK
  <2>2. \A j \in Inums : core[j].valid => core'[j].valid \/ Idle(p, j) BY <1>3, <1>10
  <2>3. \A j \in Inums : \/ core'[j].valid = core[j].valid /\ core'[j].inode = core[j].inode /\ dino'[j] = dino[j]
                         \/ ~core'[j].valid BY <1>10, <1>b
  <2>4. ~core'[Head(k[p].puts)].valid /\ r.pc # "free" BY <1>7, <1>10 DEF i
  <2>. QED BY <2>1, <2>2, <2>3, <2>4 DEF CoresMove
<1>15. HeldMove(p, r)
  <2>1. k[p].old # 0 => core'[k[p].old].valid /\ dino'[k[p].old].type \in {"file", "dev"}
    <3>1. HAVE k[p].old # 0
    <3>2. PICK j \in Inums : j = k[p].old /\ j # i BY <3>1, <1>3, Fields
    <3>3. core[j].valid /\ dino[j].type \in {"file", "dev"} BY <3>1, <3>2 DEF HeldOK
    <3>. QED BY <3>2, <3>3, <1>10, <1>b
  <2>2. \A j \in Inums : core[j].valid => core'[j].valid \/ Idle(p, j) BY <1>3, <1>10
  <2>. QED BY <2>1, <2>2, <1>7, <1>b DEF HeldMove
<1>16. TreeMove(p, r) BY <1>b, <1>7 DEF TreeMove
<1>17. DiskOK(dino', ents', used') BY <1>b DEF DisksOK
<1>18. Agrees(r) /\ Moves(p, r, cwd[p], fd[p]) BY <1>7
<1>. HIDE DEF Inv
<1>. QED BY <1>a, <1>11, <1>12, <1>13, <1>14, <1>15, <1>16, <1>17, <1>18, DiskStep

\* A set of inode numbers that is not empty has a least one: what ialloc and ireclaim find.
LEMMA LeastInum == ASSUME NEW T \in SUBSET Inums, T # {} PROVE \E x \in T : \A y \in T : x <= y
<1>. DEFINE R == {s \in Nat \X Nat : s[1] < s[2]}
<1>0. T \subseteq Nat BY DEF Inums
<1>1. IsWellFoundedOn(R, Nat) BY NatLessThanWellFounded, Zenon DEF OpToRel
<1>. HIDE DEF R
<1>2. PICK x \in T : \A y \in T : ~(<<y, x>> \in R) BY <1>0, <1>1, WFMin
<1>3. \A y \in T : ~(y < x) BY <1>0, <1>2 DEF R
<1>. QED BY <1>0, <1>3

\* The parent is locked, and the call goes on with inode i as well.
LEMMA TakesInode ==
  ASSUME Inv, NEW p \in Procs, k[p].pc = "parent", k[p].op # "linkto", NEW s \in {"unlink", "new"}, NEW i \in Inums,
         s = "unlink" => Head(k[p].path) # DotDot,
         k' = [k EXCEPT ![p].pc = s, ![p].ip = i], core' = Iget(core, i), cwd' = cwd, fd' = fd,
         ~booting, booting' = booting
  PROVE  \E r \in CallRecords :
           /\ Moves(p, r, cwd[p], fd[p]) /\ Agrees(r) /\ r.pc = s
           /\ r.ip = i /\ r.dp = k[p].dp /\ r.old = 0 /\ r.op = k[p].op /\ r.path = k[p].path
           /\ RefsMove(p, r, cwd[p], fd[p])
<1>. USE DEF Inv
<1>1. PICK t \in CallRecords : t = k[p] /\ Agrees(t) /\ t.ip = 0 /\ t.old = 0 /\ t.puts = <<>>
  BY Fields, CallIs DEF CallsOK, Puts
<1>. DEFINE r == [t EXCEPT !.pc = s, !.ip = i]
<1>2. r \in CallRecords BY DEF CallRecords, Stages
<1>3. /\ r.pc = s /\ r.op = t.op /\ r.path = t.path /\ r.new = t.new /\ r.ip = i /\ r.dp = t.dp
      /\ r.old = t.old /\ r.puts = t.puts /\ r.after = t.after BY DEF CallRecords
<1>4. k' = [k EXCEPT ![p] = r] BY <1>1 DEF Tables
<1>. HIDE DEF r
<1>5. Agrees(r)
  <2>1. i # 0 BY DEF Inums
  <2>. QED BY <2>1, <1>1, <1>3 DEF Agrees, Puts, Walks
<1>6. Moves(p, r, cwd[p], fd[p])
  <2>1. booting' = FALSE BY DEF Tables
  <2>. QED BY <2>1, <1>2, <1>4, MovesCall
<1>7. RefsMove(p, r, cwd[p], fd[p])
  <2>1. ASSUME NEW j \in Inums
        PROVE core'[j].ref + RefsBy(p, j) = core[j].ref + Tokens(cwd[p], fd[p], r, j)
    <3>1. core'[j].ref = core[j].ref + Has(i, j) /\ core[j].ref \in Nat BY IgetKeeps DEF Tables, Cores
    <3>2. Tokens(cwd[p], fd[p], r, j) = Has(cwd[p], j) + Has(fd[p], j) + Has(i, j) + Has(t.dp, j) + Has(0, j)
      BY <1>1, <1>3, TokensNone
    <3>3. Tokens(cwd[p], fd[p], t, j) = Has(cwd[p], j) + Has(fd[p], j) + Has(0, j) + Has(t.dp, j) + Has(0, j)
      BY <1>1, TokensNone
    <3>4. /\ Has(0, j) = 0 /\ Has(i, j) \in Nat /\ Has(cwd[p], j) \in Nat /\ Has(fd[p], j) \in Nat
          /\ Has(t.dp, j) \in Nat BY HasIs DEF Has, Inums
    <3>. QED BY <3>1, <3>2, <3>3, <3>4, <1>1
  <2>. QED BY <2>1 DEF RefsMove
<1>. QED BY <1>1, <1>2, <1>3, <1>5, <1>6, <1>7

\* sys_unlink locks the parent and gets the inode.
LEMMA UnlinkTakes == ASSUME Inv, NEW p \in Procs, UnlinkDir(p), ~CannotUnlink(k[p].dp, Head(k[p].path)) PROVE Inv'
<1>. USE DEF Inv
<1>. DEFINE d == k[p].dp
            n == Head(k[p].path)
            i == Dirlookup(d, n)
<1>1. /\ k[p].pc = "parent" /\ ~booting /\ k[p].op # "linkto" /\ lock[d] = None
      /\ lock' = [lock EXCEPT ![d] = p] /\ core' = Iget(core, i)
      /\ k' = [k EXCEPT ![p].pc = "unlink", ![p].ip = i] /\ n # DotDot /\ i # 0
  BY DEF UnlinkDir, At, Up, CannotUnlink
<1>a. stable' = stable /\ missed' = missed /\ panicked' = panicked BY DEF UnlinkDir
<1>b. dino' = dino /\ ents' = ents /\ used' = used BY DEF UnlinkDir, diskVars
<1>c. cwd' = cwd /\ fd' = fd /\ booting' = booting BY DEF UnlinkDir
<1>2. /\ d \in Inums /\ k[p].pc \notin Locks /\ core[d].valid /\ dino[d].type = "dir" /\ i \in Inums
  BY <1>1, ParentFacts
<1>3. PICK r \in CallRecords :
           /\ Moves(p, r, cwd[p], fd[p]) /\ Agrees(r) /\ r.pc = "unlink"
           /\ r.ip = i /\ r.dp = d /\ r.old = 0 /\ r.op = k[p].op /\ r.path = k[p].path
           /\ RefsMove(p, r, cwd[p], fd[p])
  <2>. HIDE DEF Inv, i
  <2>. QED BY <1>1, <1>2, <1>c, TakesInode
<1>4. /\ core' \in [Inums -> Cores]
      /\ \A j \in Inums : /\ core'[j].ref = core[j].ref + Has(i, j)
                          /\ core'[j].valid = core[j].valid /\ core'[j].inode = core[j].inode
                          /\ core'[j].ref = 0 => core'[j] = NoCore BY <1>1, <1>2, IgetKeeps
<1>. HIDE DEF d, i
<1>5. LocksMove(p, r) /\ lock' \in [Inums -> Procs \cup {None}]
  <2>1. \A j \in Inums : Owns(r, j) <=> j = d BY <1>3 DEF Owns
  <2>. QED BY <2>1, <1>1, <1>2, LocksTake
<1>6. TypesMove BY <1>4, <1>5, <1>b DEF TypesMove, Tables
<1>7. CoresMove(p, r)
  <2>1. k[p].pc # "invalid" /\ r.pc # "free" BY <1>1, <1>3
  <2>. QED BY <2>1, <1>4, <1>b DEF CoresMove
<1>8. HeldMove(p, r)
  <2>1. core'[d].valid /\ dino'[d].type = "dir" /\ d = k[p].dp BY <1>2, <1>4, <1>b DEF d
  <2>. QED BY <2>1, <1>3, <1>4, <1>b DEF HeldMove
<1>9. TreeMove(p, r) BY <1>3, <1>b DEF TreeMove, i, Dirlookup
<1>10. DiskOK(dino', ents', used') BY <1>b DEF DisksOK
<1>11. Agrees(r) /\ Moves(p, r, cwd[p], fd[p]) /\ RefsMove(p, r, cwd[p], fd[p]) BY <1>3
<1>. HIDE DEF Inv
<1>. QED BY <1>a, <1>5, <1>6, <1>7, <1>8, <1>9, <1>10, <1>11, DiskStep

\* An inode that is free on disk is nobody's directory, new inode or inode to free.
LEMMA FreeIdle == ASSUME Inv, NEW p \in Procs, NEW i \in Inums, dino[i].type = "free"
  PROVE  /\ Idle(p, i) /\ NotNew(p, i)
         /\ \A q \in Procs \ {p} : k[q].pc = "free" => Head(k[q].puts) # i
         /\ \A q \in Procs \ {p} : k[q].dp # i
<1>. USE DEF Inv
<1>0. i # 0 BY DEF Inums
<1>1. \A q \in Procs \ {p} : k[q].dp # i /\ k[q].old # i BY <1>0 DEF HeldOK
<1>2. ASSUME NEW q \in Procs \ {p}, k[q].pc = "new" PROVE k[q].ip # i BY <1>2 DEF HeldOK, KindOf
<1>3. ASSUME NEW q \in Procs \ {p}, k[q].pc = "free", Head(k[q].puts) = i PROVE FALSE
  <2>1. lock[i] = q /\ core[i].valid BY <1>3 DEF LocksOK, Owns, CoresOK
  <2>2. ~Stale(i) BY <2>1, <1>3 DEF Stale, LocksOK, Owns
  <2>. QED BY <2>1, <2>2 DEF CoresOK
<1>. QED BY <1>1, <1>2, <1>3 DEF Idle, NotNew

\* create locks the parent, and ialloc gives it an inode.
LEMMA CreateTakes ==
  ASSUME Inv, NEW p \in Procs, CreateDir(p), Dirlookup(k[p].dp, Head(k[p].path)) = 0, FreeInums # {} PROVE Inv'
<1>. USE DEF Inv
<1>. DEFINE d == k[p].dp
            i == CHOOSE f \in FreeInums : \A g \in FreeInums : f <= g
            x == [FreeInode EXCEPT !.type = NewType(p)]
<1>1. /\ k[p].pc = "parent" /\ ~booting /\ k[p].op # "linkto" /\ lock[d] = None
      /\ k[p].op \in {"creat", "mkdir", "mknod"} BY DEF CreateDir, At, Up
<1>d. /\ lock' = [lock EXCEPT ![d] = p] /\ core' = Iget(core, i) /\ dino' = [dino EXCEPT ![i] = x]
      /\ k' = [k EXCEPT ![p].pc = "new", ![p].ip = i] BY DEF CreateDir
<1>a. stable' = stable /\ missed' = missed /\ panicked' = panicked BY DEF CreateDir
<1>b. ents' = ents /\ used' = used BY DEF CreateDir
<1>c. cwd' = cwd /\ fd' = fd /\ booting' = booting BY DEF CreateDir
<1>e. i \in Inums /\ dino[i].type = "free"
  <2>1. \E f \in FreeInums : \A g \in FreeInums : f <= g
    <3>1. FreeInums \in SUBSET Inums BY DEF FreeInums
    <3>. QED BY <3>1, LeastInum
  <2>2. i \in FreeInums BY <2>1
  <2>. QED BY <2>2 DEF FreeInums
<1>. HIDE DEF i
<1>2. /\ d \in Inums /\ k[p].pc \notin Locks /\ core[d].valid /\ dino[d].type = "dir" BY <1>1, ParentFacts
<1>f. i # d /\ i # 0 BY <1>2, <1>e DEF Inums
<1>3. PICK r \in CallRecords :
           /\ Moves(p, r, cwd[p], fd[p]) /\ Agrees(r) /\ r.pc = "new"
           /\ r.ip = i /\ r.dp = d /\ r.old = 0 /\ r.op = k[p].op /\ r.path = k[p].path
           /\ RefsMove(p, r, cwd[p], fd[p])
  <2>. HIDE DEF Inv
  <2>. QED BY <1>1, <1>2, <1>c, <1>d, <1>e, TakesInode
<1>4. /\ core' \in [Inums -> Cores]
      /\ \A j \in Inums : /\ core'[j].ref = core[j].ref + Has(i, j)
                          /\ core'[j].valid = core[j].valid /\ core'[j].inode = core[j].inode
                          /\ core'[j].ref = 0 => core'[j] = NoCore BY <1>d, <1>e, IgetKeeps
<1>g. dino[i] = FreeInode /\ ents[i] = EmptyDir BY <1>e DEF DisksOK, DiskOK
<1>h. x \in Inodes /\ x.type = KindOf(k[p].op) /\ x.addr = None /\ x.type # "free"
  <2>1. PICK t \in {"file", "dir", "dev"} : t = NewType(p) /\ t = KindOf(k[p].op) BY DEF NewType, KindOf
  <2>2. [FreeInode EXCEPT !.type = t] \in Inodes /\ [FreeInode EXCEPT !.type = t].type = t /\ [FreeInode EXCEPT !.type = t].addr = None
    BY NoCoreIs DEF Inodes, Types, FreeInode
  <2>. QED BY <2>1, <2>2
<1>. HIDE DEF d, x
<1>i. dino' \in [Inums -> Inodes] /\ dino'[i] = x /\ \A j \in Inums \ {i} : dino'[j] = dino[j]
  BY <1>d, <1>e, <1>h DEF Tables
<1>j. /\ Idle(p, i) /\ NotNew(p, i)
      /\ \A q \in Procs \ {p} : k[q].pc = "free" => Head(k[q].puts) # i
      /\ \A q \in Procs \ {p} : k[q].dp # i BY <1>e, FreeIdle
<1>5. LocksMove(p, r) /\ lock' \in [Inums -> Procs \cup {None}]
  <2>1. \A j \in Inums : Owns(r, j) <=> j = d BY <1>3 DEF Owns
  <2>. QED BY <2>1, <1>1, <1>2, <1>d, LocksTake DEF d
<1>6. TypesMove BY <1>4, <1>5, <1>b, <1>i DEF TypesMove, Tables
<1>7. CoresMove(p, r)
  <2>1. k[p].pc # "invalid" /\ r.pc # "free" BY <1>1, <1>3
  <2>2. core[i].valid => Stale(i) BY <1>e DEF CoresOK
  <2>3. \A j \in Inums : \/ core'[j].valid = core[j].valid /\ core'[j].inode = core[j].inode /\ dino'[j] = dino[j]
                         \/ ~core'[j].valid
                         \/ Stale(j) BY <2>2, <1>4, <1>i
  <2>. QED BY <2>1, <2>3, <1>4 DEF CoresMove
<1>8. HeldMove(p, r)
  <2>1. core'[d].valid /\ dino'[d].type = "dir" /\ d = k[p].dp BY <1>2, <1>4, <1>f, <1>i DEF d
  <2>2. /\ \A j \in Inums : core[j].valid => core'[j].valid \/ Idle(p, j)
        /\ \A j \in Inums : dino'[j].type = dino[j].type \/ (Idle(p, j) /\ NotNew(p, j))
        /\ \A j \in Inums : dino'[j].addr \in {dino[j].addr, None} \/ NotNew(p, j) \/ dino[j].type # "dir"
    BY <1>4, <1>i, <1>j
  <2>3. /\ dino'[i].type = KindOf(k[p].op) /\ dino'[i].addr = None BY <1>h, <1>i
  <2>. QED BY <2>1, <2>2, <2>3, <1>3, <1>f, <1>j DEF HeldMove
<1>9. TreeMove(p, r)
  <2>1. \A n \in Names : ents'[i][n] # d
    <3>1. \A n \in Names : EmptyDir[n] = 0 BY DEF EmptyDir, Elements
    <3>. QED BY <3>1, <1>2, <1>b, <1>g DEF Inums
  <2>2. ents'[d][Head(r.path)] = 0 BY <1>3, <1>b DEF d, Dirlookup
  <2>. QED BY <2>1, <2>2, <1>3, <1>b, <1>f, <1>j DEF TreeMove
<1>10. DiskOK(dino', ents', used')
  <2>0. DiskOK(dino, ents, used) BY DEF DisksOK
  <2>1. \A j \in Inums : dino'[j].addr = dino[j].addr BY <1>g, <1>h, <1>i DEF FreeInode
  <2>2. \A j \in Inums : dino'[j].type = "free" => dino'[j] = FreeInode BY <2>0, <1>h, <1>i DEF DiskOK
  <2>3. Owned(dino', used')
    BY <2>0, <2>1, <1>b, AddrsSame
  <2>4. /\ \A j \in Inums : dino'[j].type # "dir" => ents'[j] = EmptyDir
        /\ \A a, e \in Inums, m, n \in Names : ~(ents'[a][m] = e /\ ents'[e][n] = a)
    BY <2>0, <1>b, <1>g, <1>i DEF DiskOK
  <2>. QED BY <2>2, <2>3, <2>4 DEF DiskOK
<1>11. Agrees(r) /\ Moves(p, r, cwd[p], fd[p]) /\ RefsMove(p, r, cwd[p], fd[p]) BY <1>3
<1>. HIDE DEF Inv
<1>. QED BY <1>a, <1>5, <1>6, <1>7, <1>8, <1>9, <1>10, <1>11, DiskStep

\* dirlink changes one entry.
LEMMA DirlinkIs ==
  ASSUME NEW e \in [Inums -> [Elements -> {0} \cup Inums]], NEW d \in Inums, NEW n \in Elements, NEW i \in {0} \cup Inums
  PROVE  /\ Dirlink(e, d, n, i) \in [Inums -> [Elements -> {0} \cup Inums]] /\ Dirlink(e, d, n, i)[d][n] = i
         /\ \A m \in Elements \ {n} : Dirlink(e, d, n, i)[d][m] = e[d][m]
         /\ \A j \in Inums \ {d} : Dirlink(e, d, n, i)[j] = e[j]
<1>1. PICK t \in [Elements -> {0} \cup Inums] : t = e[d] OBVIOUS
<1>2. PICK y \in [Elements -> {0} \cup Inums] : y = [t EXCEPT ![n] = i] OBVIOUS
<1>3. y[n] = i /\ \A m \in Elements \ {n} : y[m] = t[m] BY <1>2
<1>4. Dirlink(e, d, n, i) = [e EXCEPT ![d] = y] BY <1>1, <1>2 DEF Dirlink
<1>. QED BY <1>1, <1>3, <1>4

\* A call that has the lock of the parent, and wants the one of the inode, which is free.
LEMMA BothFacts == ASSUME Inv, NEW p \in Procs, k[p].pc \in {"unlink", "new"}, lock[k[p].ip] = None
  PROVE  /\ k[p].ip \in Inums /\ k[p].dp \in Inums /\ k[p].ip # k[p].dp
         /\ core[k[p].ip].ref # 0 /\ core[k[p].dp].ref # 0
         /\ core[k[p].dp].valid /\ core[k[p].dp].inode = dino[k[p].dp]
         /\ dino[k[p].dp].type = "dir" /\ dino[k[p].dp] \in Inodes
         /\ lock[k[p].dp] = p /\ \A j \in Inums : Owns(k[p], j) <=> j = k[p].dp
         /\ Head(k[p].path) \in Elements
         /\ \A j \in Inums : /\ RefsBy(p, j) = Has(cwd[p], j) + Has(fd[p], j) + Has(k[p].ip, j) + Has(k[p].dp, j)
                             /\ Has(cwd[p], j) \in Nat /\ Has(fd[p], j) \in Nat /\ Has(k[p].ip, j) \in Nat
                             /\ Has(k[p].dp, j) \in Nat
<1>. USE DEF Inv
<1>. DEFINE i == k[p].ip
            d == k[p].dp
<1>1. /\ i \in Inums /\ d \in Inums /\ k[p].puts = <<>> /\ k[p].path \in Seq(Elements) BY CallIs, Fields DEF Puts
<1>2. k[p].path # <<>> /\ k[p].op # "linkto" BY DEF CallsOK, Agrees
<1>3. k[p].old = 0 BY <1>2, CallIs
<1>4. Head(k[p].path) \in Elements BY <1>1, <1>2
<1>5. \A j \in Inums : Owns(k[p], j) <=> j = d BY <1>1 DEF Owns
<1>6. lock[d] = p BY <1>1, <1>5 DEF LocksOK
<1>7. i # d
  <2>1. None \notin Procs BY FsAssumption
  <2>. QED BY <2>1, <1>6
<1>8. core[d].valid /\ dino[d].type = "dir" BY <1>1 DEF HeldOK, Inums
<1>9. core[d].inode = dino[d]
  <2>1. ~Stale(d) BY <1>1, <1>6 DEF Stale, LocksOK, Owns
  <2>. QED BY <2>1, <1>1, <1>8 DEF CoresOK
<1>10. core[i].ref # 0 /\ core[d].ref # 0
  <2>1. ~NotBy(p, i) /\ ~NotBy(p, d) BY DEF Apart
  <2>. QED BY <2>1, <1>1, HeldRef
<1>11. ASSUME NEW j \in Inums
       PROVE  /\ RefsBy(p, j) = Has(cwd[p], j) + Has(fd[p], j) + Has(i, j) + Has(d, j)
              /\ Has(cwd[p], j) \in Nat /\ Has(fd[p], j) \in Nat /\ Has(i, j) \in Nat /\ Has(d, j) \in Nat
  <2>1. RefsBy(p, j) = Has(cwd[p], j) + Has(fd[p], j) + Has(i, j) + Has(d, j) + Has(0, j)
    BY <1>1, <1>3, TokensNone
  <2>2. Has(cwd[p], j) \in Nat /\ Has(fd[p], j) \in Nat /\ Has(i, j) \in Nat /\ Has(d, j) \in Nat /\ Has(0, j) = 0
    BY HasIs DEF Has, Inums
  <2>. QED BY <2>1, <2>2
<1>12. dino[d] \in Inodes BY <1>1 DEF Tables
<1>. QED BY <1>1, <1>4, <1>5, <1>6, <1>7, <1>8, <1>9, <1>10, <1>11, <1>12

\* Both written in one step, the parent's with its lock held before.
LEMMA BothWritten ==
  ASSUME Tables, LocksOK, CoresOK, NEW i \in Inums, NEW d \in Inums, i # d, lock[i] = None, ~NoType(i),
         core[d].valid, NEW x \in Inodes, NEW y \in Inodes,
         core' = [core EXCEPT ![i] = [Locked(i) EXCEPT !.inode = x], ![d].inode = y],
         dino' = [dino EXCEPT ![i] = x, ![d] = y] PROVE Writes(i, d, x, y)
<1>1. Locked(i) \in Cores /\ Locked(i).ref = core[i].ref /\ Locked(i).valid BY LockedIs
<1>2. core \in [Inums -> Cores] /\ dino \in [Inums -> Inodes] BY DEF Tables
<1>3. PICK l \in Cores : l = [Locked(i) EXCEPT !.inode = x] /\ l.ref = core[i].ref /\ l.valid /\ l.inode = x
  <2>1. PICK t \in Cores : t = Locked(i) /\ t.ref = core[i].ref /\ t.valid BY <1>1
  <2>2. [t EXCEPT !.inode = x] \in Cores BY DEF Cores
  <2>3. [t EXCEPT !.inode = x].ref = t.ref /\ [t EXCEPT !.inode = x].valid = t.valid /\ [t EXCEPT !.inode = x].inode = x
    BY DEF Cores
  <2>. QED BY <2>1, <2>2, <2>3
<1>4. PICK m \in Cores : m = [core[d] EXCEPT !.inode = y] /\ m.ref = core[d].ref /\ m.valid /\ m.inode = y
  <2>1. PICK t \in Cores : t = core[d] /\ t.valid BY <1>2
  <2>2. [t EXCEPT !.inode = y] \in Cores BY DEF Cores
  <2>3. [t EXCEPT !.inode = y].ref = t.ref /\ [t EXCEPT !.inode = y].valid = t.valid /\ [t EXCEPT !.inode = y].inode = y
    BY DEF Cores
  <2>. QED BY <2>1, <2>2, <2>3
<1>5. core' = [core EXCEPT ![i] = l, ![d] = m] BY <1>2, <1>3, <1>4
<1>6. /\ core' \in [Inums -> Cores] /\ core'[i] = l /\ core'[d] = m
      /\ \A j \in Inums \ {i, d} : core'[j] = core[j] BY <1>2, <1>5
<1>7. /\ dino' \in [Inums -> Inodes] /\ dino'[i] = x /\ dino'[d] = y
      /\ \A j \in Inums \ {i, d} : dino'[j] = dino[j] BY <1>2
<1>. QED BY <1>3, <1>4, <1>6, <1>7 DEF Writes

\* A step that ends such a call and releases the parent.
LEMMA BothStep ==
  ASSUME Inv, NEW p \in Procs, NEW r, NEW w, NEW f, Moves(p, r, w, f),
         NEW i \in Inums, NEW d \in Inums, i # d, core[i].ref # 0, core[d].ref # 0,
         \A j \in Inums : Owns(k[p], j) <=> j = d, k[p].pc # "invalid",
         NEW x, NEW y, Writes(i, d, x, y), x.type = dino[i].type, x.type # "free", y.type = "dir", dino[d].type = "dir",
         y.addr = dino[d].addr, x.addr \in {dino[i].addr, None} \/ NotNew(p, i),
         ents' \in [Inums -> [Elements -> {0} \cup Inums]], used' \subseteq Blocks,
         stable' = stable, lock' = [lock EXCEPT ![d] = None], missed' = missed, panicked' = panicked,
         Agrees(r), r.pc \notin Locks, r.dp = 0, r.old = 0,
         \A j \in Inums : Tokens(w, f, r, j) = RefsBy(p, j),
         TreeMove(p, r), DiskOK(dino', ents', used') PROVE Inv'
<1>. USE DEF Inv
<1>1. /\ core' \in [Inums -> Cores] /\ dino' \in [Inums -> Inodes]
      /\ core'[i].ref = core[i].ref /\ core'[i].valid /\ core'[i].inode = x /\ dino'[i] = x
      /\ core'[d].ref = core[d].ref /\ core'[d].valid /\ core'[d].inode = y /\ dino'[d] = y
      /\ \A j \in Inums \ {i, d} : core'[j] = core[j] /\ dino'[j] = dino[j] BY DEF Writes
<1>2. LocksMove(p, r) /\ lock' \in [Inums -> Procs \cup {None}] BY LocksGive
<1>3. TypesMove BY <1>1, <1>2 DEF TypesMove
<1>4. RefsMove(p, r, w, f)
  <2>1. \A j \in Inums : core'[j].ref = core[j].ref BY <1>1
  <2>. QED BY <2>1 DEF RefsMove
<1>5. \A j \in Inums : core[j].valid => core'[j].valid BY <1>1
<1>6. CoresMove(p, r)
  <2>1. r.pc # "free" BY DEF Locks
  <2>2. \A j \in Inums : core'[j].ref = 0 => core'[j] = NoCore BY <1>1 DEF CoresOK
  <2>3. \A j \in Inums : \/ core'[j].valid = core[j].valid /\ core'[j].inode = core[j].inode /\ dino'[j] = dino[j]
                         \/ core'[j].inode = dino'[j] /\ dino'[j].type # "free" BY <1>1
  <2>. QED BY <2>1, <2>2, <2>3, <1>5, CoresWritten
<1>7. HeldMove(p, r)
  <2>1. \A j \in Inums : dino'[j].type = dino[j].type BY <1>1
  <2>2. \A j \in Inums : dino'[j].addr \in {dino[j].addr, None} \/ NotNew(p, j) \/ dino[j].type # "dir" BY <1>1
  <2>. QED BY <2>1, <2>2, <1>5, HeldEnds
<1>. HIDE DEF Inv
<1>. QED BY <1>2, <1>3, <1>4, <1>6, <1>7, DiskStep

\* sys_unlink of a directory that is not empty.
LEMMA UnlinkFull ==
  ASSUME Inv, NEW p \in Procs, Unlink(p), ~NoType(k[p].ip), ~(Locked(k[p].ip).inode.nlink < 1),
         Locked(k[p].ip).inode.type = "dir" /\ ~IsDirEmpty(k[p].ip) PROVE Inv'
<1>. USE DEF Inv
<1>. DEFINE i == k[p].ip
            d == k[p].dp
<1>1. /\ k[p].pc = "unlink" /\ ~booting /\ lock[i] = None /\ k' = [k EXCEPT ![p] = PutThen(p, <<i, d>>, "done")]
  BY DEF Unlink, AtInode, At, Up
<1>a. /\ stable' = stable /\ missed' = missed /\ panicked' = panicked /\ lock' = [lock EXCEPT ![d] = None] BY DEF Unlink
<1>b. /\ core' = [core EXCEPT ![i] = Locked(i)] /\ dino' = dino /\ ents' = ents /\ used' = used BY DEF Unlink
<1>c. cwd' = cwd /\ fd' = fd /\ booting' = booting BY DEF Unlink
<1>2. /\ i \in Inums /\ d \in Inums /\ i # d /\ core[i].ref # 0 /\ core[d].ref # 0
      /\ core[d].valid /\ core[d].inode = dino[d] /\ dino[d].type = "dir" /\ dino[d] \in Inodes
      /\ lock[d] = p /\ \A j \in Inums : Owns(k[p], j) <=> j = d
      /\ \A j \in Inums : /\ RefsBy(p, j) = Has(cwd[p], j) + Has(fd[p], j) + Has(i, j) + Has(d, j)
                          /\ Has(cwd[p], j) \in Nat /\ Has(fd[p], j) \in Nat /\ Has(i, j) \in Nat /\ Has(d, j) \in Nat
  BY <1>1, BothFacts
<1>3. /\ Locked(i) \in Cores /\ Locked(i).ref = core[i].ref /\ Locked(i).valid /\ Locked(i).inode = dino[i]
      /\ dino[i].type # "free" /\ dino[i] \in Inodes BY <1>1, <1>2, LockedIs
<1>4. Writes(i, d, dino[i], dino[d])
  <2>. HIDE DEF i, d
  <2>1. core \in [Inums -> Cores] /\ dino \in [Inums -> Inodes] BY DEF Tables
  <2>. QED BY <2>1, <1>b, <1>2, <1>3 DEF Writes
<1>. HIDE DEF i, d
<1>5. PICK r \in CallRecords :
           /\ r = PutThen(p, <<i, d>>, "done") /\ Agrees(r) /\ r.pc \in {"put", "done"} /\ r.dp = 0 /\ r.old = 0
           /\ r.pc \notin Locks
           /\ \A j \in Inums : Tokens(cwd[p], fd[p], r, j) = Has(cwd[p], j) + Has(fd[p], j) + Has(i, j) + Has(d, j)
  BY <1>2, PutsBoth
<1>6. Moves(p, r, cwd[p], fd[p])
  <2>1. booting' = FALSE /\ k' = [k EXCEPT ![p] = r] BY <1>1, <1>c, <1>5 DEF Tables
  <2>. QED BY <2>1, <1>c, MovesCall
<1>7. \A j \in Inums : Tokens(cwd[p], fd[p], r, j) = RefsBy(p, j) BY <1>2, <1>5
<1>8. TreeMove(p, r) BY <1>b, <1>5, TreeKeeps
<1>9. DiskOK(dino', ents', used') /\ ents' \in [Inums -> [Elements -> {0} \cup Inums]] /\ used' \subseteq Blocks
  BY <1>b DEF DisksOK, Tables
<1>10. /\ k[p].pc # "invalid" /\ dino[i].type = dino[i].type /\ dino[d].addr = dino[d].addr
       /\ dino[i].addr \in {dino[i].addr, None} \/ NotNew(p, i) BY <1>1
<1>11. PICK x \in Inodes, y \in Inodes : x = dino[i] /\ y = dino[d] BY <1>2, <1>3
<1>12. /\ Writes(i, d, x, y) /\ x.type = dino[i].type /\ x.type # "free" /\ y.type = "dir" /\ dino[d].type = "dir"
       /\ y.addr = dino[d].addr /\ (x.addr \in {dino[i].addr, None} \/ NotNew(p, i))
  BY <1>11, <1>2, <1>3, <1>4
<1>13. Agrees(r) /\ r.pc \notin Locks /\ r.dp = 0 /\ r.old = 0 BY <1>5
<1>14. /\ i \in Inums /\ d \in Inums /\ i # d /\ core[i].ref # 0 /\ core[d].ref # 0
       /\ \A j \in Inums : Owns(k[p], j) <=> j = d BY <1>2
<1>. HIDE DEF Inv
<1>. QED BY <1>a, <1>6, <1>7, <1>8, <1>9, <1>10, <1>12, <1>13, <1>14, BothStep

\* Otherwise it takes the name away.
LEMMA UnlinkDone ==
  ASSUME Inv, NEW p \in Procs, Unlink(p), ~NoType(k[p].ip), ~(Locked(k[p].ip).inode.nlink < 1),
         ~(Locked(k[p].ip).inode.type = "dir" /\ ~IsDirEmpty(k[p].ip)) PROVE Inv'
<1>. USE DEF Inv
<1>. DEFINE i == k[p].ip
            d == k[p].dp
            n == Head(k[p].path)
            c == Locked(i).inode
            x == Unlinked(c)
            y == IF c.type = "dir" THEN Unlinked(core[d].inode) ELSE core[d].inode
<1>1. /\ k[p].pc = "unlink" /\ ~booting /\ lock[i] = None /\ k' = [k EXCEPT ![p] = PutThen(p, <<d, i>>, "done")]
  BY DEF Unlink, AtInode, At, Up
<1>a. /\ stable' = stable /\ missed' = missed /\ panicked' = panicked /\ lock' = [lock EXCEPT ![d] = None] BY DEF Unlink
<1>b. /\ core' = [core EXCEPT ![i] = [Locked(i) EXCEPT !.inode = x], ![d].inode = y]
      /\ dino' = [dino EXCEPT ![i] = x, ![d] = y] /\ ents' = Dirlink(ents, d, n, 0) /\ used' = used
  BY DEF Unlink, Dirlink
<1>c. cwd' = cwd /\ fd' = fd /\ booting' = booting BY DEF Unlink
<1>2. /\ i \in Inums /\ d \in Inums /\ i # d /\ core[i].ref # 0 /\ core[d].ref # 0
      /\ core[d].valid /\ core[d].inode = dino[d] /\ dino[d].type = "dir" /\ dino[d] \in Inodes
      /\ lock[d] = p /\ \A j \in Inums : Owns(k[p], j) <=> j = d
      /\ n \in Elements
      /\ \A j \in Inums : /\ RefsBy(p, j) = Has(cwd[p], j) + Has(fd[p], j) + Has(i, j) + Has(d, j)
                          /\ Has(cwd[p], j) \in Nat /\ Has(fd[p], j) \in Nat /\ Has(i, j) \in Nat /\ Has(d, j) \in Nat
  BY <1>1, BothFacts
<1>3. c = dino[i] /\ dino[i].type # "free" /\ dino[i] \in Inodes BY <1>1, <1>2, LockedIs
<1>x. x \in Inodes /\ x.type = dino[i].type /\ x.addr = dino[i].addr BY <1>3, InodeFields
<1>y. y \in Inodes /\ y.type = "dir" /\ y.addr = dino[d].addr
  <2>1. core[d].inode \in Inodes /\ core[d].inode.type = "dir" /\ core[d].inode.addr = dino[d].addr BY <1>2
  <2>2. /\ Unlinked(core[d].inode) \in Inodes /\ Unlinked(core[d].inode).type = "dir"
        /\ Unlinked(core[d].inode).addr = dino[d].addr BY <2>1, InodeFields
  <2>. QED BY <2>1, <2>2
<1>. HIDE DEF x, y, i, d, n
<1>4. Writes(i, d, x, y) BY <1>1, <1>2, <1>b, <1>x, <1>y, BothWritten DEF i
<1>5. PICK r \in CallRecords :
           /\ r = PutThen(p, <<d, i>>, "done") /\ Agrees(r) /\ r.pc \in {"put", "done"} /\ r.dp = 0 /\ r.old = 0
           /\ r.pc \notin Locks
           /\ \A j \in Inums : Tokens(cwd[p], fd[p], r, j) = Has(cwd[p], j) + Has(fd[p], j) + Has(d, j) + Has(i, j)
  BY <1>2, PutsBoth
<1>6. Moves(p, r, cwd[p], fd[p])
  <2>1. booting' = FALSE /\ k' = [k EXCEPT ![p] = r] BY <1>1, <1>c, <1>5 DEF Tables
  <2>. QED BY <2>1, <1>c, MovesCall
<1>7. \A j \in Inums : Tokens(cwd[p], fd[p], r, j) = RefsBy(p, j) BY <1>2, <1>5
<1>8. /\ ents' \in [Inums -> [Elements -> {0} \cup Inums]]
      /\ ents'[d][n] = 0 /\ \A m \in Elements \ {n} : ents'[d][m] = ents[d][m]
      /\ \A j \in Inums \ {d} : ents'[j] = ents[j]
  <2>1. ents \in [Inums -> [Elements -> {0} \cup Inums]] /\ 0 \in {0} \cup Inums BY DEF Tables
  <2>. QED BY <2>1, <1>b, <1>2, DirlinkIs
<1>9. \A j \in Inums, m \in Elements : ents'[j][m] = ents[j][m] \/ ents'[j][m] = 0 BY <1>8
<1>10. TreeMove(p, r)
  <2>1. \A j \in Inums : ents'[j] = ents[j] \/ lock[j] = None \/ lock[j] = p BY <1>2, <1>8
  <2>2. r.pc # "unlink" /\ r.pc # "new" BY <1>5 DEF Locks
  <2>. QED BY <2>1, <2>2, <1>9 DEF TreeMove, Elements
<1>11. DiskOK(dino', ents', used')
  <2>0. DiskOK(dino, ents, used) BY DEF DisksOK
  <2>a. \A j \in Inums : dino'[j].type = dino[j].type /\ dino'[j].addr = dino[j].addr
    BY <1>2, <1>4, <1>x, <1>y DEF Writes
  <2>1. \A j \in Inums : dino'[j].type = "free" => dino'[j] = FreeInode
    BY <2>0, <1>2, <1>3, <1>4, <1>x, <1>y DEF DiskOK, Writes
  <2>2. \A j \in Inums : dino'[j].type # "dir" => ents'[j] = EmptyDir BY <2>0, <2>a, <1>2, <1>8 DEF DiskOK
  <2>3. Owned(dino', used')
    BY <2>0, <2>a, <1>b, AddrsSame
  <2>4. ASSUME NEW a \in Inums, NEW b \in Inums, NEW l \in Names, NEW m \in Names, ents'[a][l] = b, ents'[b][m] = a PROVE FALSE
    <3>1. l \in Elements /\ m \in Elements /\ 0 \notin Inums BY DEF Elements, Inums
    <3>2. ents[a][l] = b /\ ents[b][m] = a BY <3>1, <2>4, <1>9
    <3>. QED BY <3>2, <2>0 DEF DiskOK
  <2>. QED BY <2>1, <2>2, <2>3, <2>4 DEF DiskOK
<1>12. k[p].pc # "invalid" /\ used' \subseteq Blocks /\ ents' \in [Inums -> [Elements -> {0} \cup Inums]]
  BY <1>1, <1>b, <1>8 DEF Tables
<1>13. Agrees(r) /\ r.pc \notin Locks /\ r.dp = 0 /\ r.old = 0 BY <1>5
<1>14. /\ i \in Inums /\ d \in Inums /\ i # d /\ core[i].ref # 0 /\ core[d].ref # 0
       /\ \A j \in Inums : Owns(k[p], j) <=> j = d BY <1>2
<1>15. /\ x.type = dino[i].type /\ x.type # "free" /\ y.type = "dir" /\ dino[d].type = "dir"
       /\ y.addr = dino[d].addr /\ (x.addr \in {dino[i].addr, None} \/ NotNew(p, i)) BY <1>2, <1>3, <1>x, <1>y
<1>. HIDE DEF Inv
<1>. QED BY <1>a, <1>4, <1>6, <1>7, <1>10, <1>11, <1>12, <1>13, <1>14, <1>15, BothStep

\* sys_unlink, with both locks.
LEMMA UnlinkKeeps == ASSUME Inv, NEW p \in Procs, Unlink(p) PROVE Inv'
<1>1. CASE NoType(k[p].ip) \/ Locked(k[p].ip).inode.nlink < 1 BY <1>1, PanicKeeps DEF Unlink
<1>. QED BY <1>1, UnlinkFull, UnlinkDone

\* How the call goes on that has made inode i in directory d: with i as its open
\* file, or without.
LEMMA NewEnds ==
  ASSUME Tables, NEW p \in Procs, NEW i \in Inums, NEW d \in Inums, booting' = FALSE, cwd' = cwd,
         \/ fd[p] = 0 /\ fd' = [fd EXCEPT ![p] = i] /\ k' = [k EXCEPT ![p] = PutThen(p, <<d>>, "done")]
         \/ fd' = fd /\ k' = [k EXCEPT ![p] = PutThen(p, <<d, i>>, "done")]
  PROVE  \E r \in CallRecords, f \in {0} \cup Inums :
           /\ Moves(p, r, cwd[p], f) /\ Agrees(r) /\ r.dp = 0 /\ r.old = 0 /\ r.pc \notin Locks
           /\ \A j \in Inums : Tokens(cwd[p], f, r, j) = Has(cwd[p], j) + Has(fd[p], j) + Has(i, j) + Has(d, j)
<1>0. \A j \in Inums : /\ Has(cwd[p], j) \in Nat /\ Has(fd[p], j) \in Nat /\ Has(i, j) \in Nat
                       /\ Has(d, j) \in Nat BY HasIs
<1>1. CASE fd[p] = 0 /\ fd' = [fd EXCEPT ![p] = i] /\ k' = [k EXCEPT ![p] = PutThen(p, <<d>>, "done")]
  <2>1. PICK r \in CallRecords : /\ r = PutThen(p, <<d>>, "done") /\ Agrees(r) /\ r.pc = "put" /\ r.ip = 0
                               /\ r.dp = 0 /\ r.old = 0 /\ r.puts = <<d>> BY EndsOne
  <2>2. Moves(p, r, cwd[p], i) BY <1>1, <2>1 DEF Moves, Tables
  <2>3. ASSUME NEW j \in Inums PROVE Tokens(cwd[p], i, r, j) = Has(cwd[p], j) + Has(fd[p], j) + Has(i, j) + Has(d, j)
    <3>1. Tokens(cwd[p], i, r, j) = Has(cwd[p], j) + Has(i, j) + Has(d, j) BY <2>1, EndTokens
    <3>2. Has(fd[p], j) = 0 BY <1>1 DEF Has, Inums
    <3>. QED BY <3>1, <3>2, <1>0
  <2>4. r.pc \notin Locks BY <2>1 DEF Locks
  <2>. QED BY <2>1, <2>2, <2>3, <2>4
<1>2. CASE fd' = fd /\ k' = [k EXCEPT ![p] = PutThen(p, <<d, i>>, "done")]
  <2>1. PICK r \in CallRecords :
           /\ r = PutThen(p, <<d, i>>, "done") /\ Agrees(r) /\ r.pc \in {"put", "done"} /\ r.dp = 0 /\ r.old = 0
           /\ r.pc \notin Locks
           /\ \A j \in Inums : Tokens(cwd[p], fd[p], r, j) = Has(cwd[p], j) + Has(fd[p], j) + Has(d, j) + Has(i, j)
    BY PutsBoth
  <2>2. Moves(p, r, cwd[p], fd[p]) BY <1>2, <2>1, MovesCall
  <2>3. \A j \in Inums : Tokens(cwd[p], fd[p], r, j) = Has(cwd[p], j) + Has(fd[p], j) + Has(i, j) + Has(d, j)
    BY <2>1, <1>0
  <2>4. fd[p] \in {0} \cup Inums BY DEF Tables
  <2>. QED BY <2>1, <2>2, <2>3, <2>4
<1>. QED BY <1>1, <1>2

\* The entry for a new inode is none that another call depends on.
LEMMA NewEntry ==
  ASSUME NEW p \in Procs, NEW r, r.pc \notin Locks,
         NEW i \in Inums, NEW d \in Inums, NEW n \in Elements, i # d, lock[i] = None, lock[d] = p, Enters(i, d, n),
         \A q \in Procs \ {p} : k[q].pc = "new" /\ k[q].ip = d => k[q].dp # i PROVE TreeMove(p, r)
<1>0. /\ ents'[d][n] = i /\ \A m \in Elements \ {n} : ents'[d][m] = ents[d][m]
      /\ \A j \in Inums \ {i, d} : ents'[j] = ents[j]
      /\ \A m \in Names : ents'[i][m] = ents[i][m] BY DEF Enters
<1>1. \A j \in Inums : ents'[j] = ents[j] \/ lock[j] = None \/ lock[j] = p BY <1>0
<1>2. ASSUME NEW j \in Inums, NEW m \in Names
      PROVE  \/ ents'[j][m] = ents[j][m] \/ ents'[j][m] = 0
             \/ \A q \in Procs \ {p} : k[q].pc = "new" /\ k[q].ip = j => ents'[j][m] # k[q].dp
  <2>1. m \in Elements BY DEF Elements
  <2>2. CASE j = d /\ m = n BY <2>2, <1>0
  <2>3. CASE ~(j = d /\ m = n) BY <2>1, <2>3, <1>0
  <2>. QED BY <2>2, <2>3
<1>3. r.pc # "unlink" /\ r.pc # "new" BY DEF Locks
<1>. QED BY <1>1, <1>2, <1>3 DEF TreeMove

\* It makes no directory an ancestor of itself in two steps.
LEMMA NewDisk ==
  ASSUME DiskOK(dino, ents, used), NEW i \in Inums, NEW d \in Inums, NEW n \in Elements, i # d, dino[d].type = "dir",
         \A m \in Names : ents[i][m] # d, Enters(i, d, n),
         NEW x, NEW y, Writes(i, d, x, y), x.type = dino[i].type, x.type # "free", y.type = "dir",
         used' = {dino'[j].addr : j \in Inums} \ {None},
         \A j, l \in Inums : j # l /\ dino'[j].addr = dino'[l].addr => dino'[j].addr = None
  PROVE DiskOK(dino', ents', used')
<1>0. /\ ents'[d][n] = i /\ \A m \in Elements \ {n} : ents'[d][m] = ents[d][m]
      /\ \A j \in Inums \ {i, d} : ents'[j] = ents[j]
      /\ \A m \in Names : ents'[i][m] = ents[i][m]
      /\ dino[i].type = "dir" \/ ents'[i] = ents[i] BY DEF Enters
<1>1. dino'[i].type = dino[i].type /\ dino'[i].type # "free" /\ dino'[d].type = "dir" /\ \A j \in Inums \ {i, d} : dino'[j] = dino[j]
  BY DEF Writes
<1>2. \A j \in Inums : dino'[j].type = "free" => dino'[j] = FreeInode BY <1>1 DEF DiskOK
<1>3. ASSUME NEW j \in Inums, dino'[j].type # "dir" PROVE ents'[j] = EmptyDir
  <2>1. j # d BY <1>3, <1>1
  <2>2. dino[j].type # "dir" /\ ents'[j] = ents[j] BY <1>3, <2>1, <1>0, <1>1
  <2>. QED BY <2>2 DEF DiskOK
<1>4. ASSUME NEW a \in Inums, NEW b \in Inums, NEW l \in Names, NEW m \in Names, ents'[a][l] = b, ents'[b][m] = a PROVE FALSE
  <2>1. l \in Elements /\ m \in Elements BY DEF Elements
  <2>2. CASE a = d /\ l = n BY <2>2, <1>4, <1>0
  <2>3. CASE b = d /\ m = n BY <2>3, <1>4, <1>0
  <2>4. CASE ~(a = d /\ l = n) /\ ~(b = d /\ m = n)
    <3>1. ents[a][l] = b /\ ents[b][m] = a BY <2>1, <2>4, <1>4, <1>0
    <3>. QED BY <3>1 DEF DiskOK
  <2>. QED BY <2>2, <2>3, <2>4
<1>. QED BY <1>2, <1>3, <1>4 DEF DiskOK

\* The link count of a new inode.
LEMMA FirstLink == ASSUME NEW x \in Inodes, NEW n \in Int
  PROVE  /\ [x EXCEPT !.nlink = n] \in Inodes
         /\ [x EXCEPT !.nlink = n].type = x.type /\ [x EXCEPT !.nlink = n].addr = x.addr
<1>1. [x EXCEPT !.nlink = n] \in Inodes BY DEF Inodes
<1>. QED BY <1>1 DEF Inodes

\* mkdir without a block for the new directory: the inode is put without links.
LEMMA CreateFails ==
  ASSUME Inv, NEW p \in Procs, NEW ok \in BOOLEAN, CreateNew(p, ok), ~NoType(k[p].ip), k[p].op = "mkdir" /\ used = Blocks
  PROVE Inv'
<1>. USE DEF Inv
<1>. DEFINE i == k[p].ip
            d == k[p].dp
            x == [Locked(i).inode EXCEPT !.nlink = 0]
            y == dino[d]
<1>1. /\ k[p].pc = "new" /\ ~booting /\ lock[i] = None /\ k' = [k EXCEPT ![p] = PutThen(p, <<i, d>>, "done")]
  BY DEF CreateNew, AtInode, At, Up
<1>a. /\ stable' = stable /\ missed' = missed /\ panicked' = panicked /\ lock' = [lock EXCEPT ![d] = None]
  BY DEF CreateNew
<1>b. Update(i, x) /\ ents' = ents /\ used' = used BY DEF CreateNew
<1>c. cwd' = cwd /\ fd' = fd /\ booting' = booting BY DEF CreateNew
<1>2. /\ i \in Inums /\ d \in Inums /\ i # d /\ core[i].ref # 0 /\ core[d].ref # 0
      /\ core[d].valid /\ core[d].inode = dino[d] /\ dino[d].type = "dir" /\ dino[d] \in Inodes
      /\ lock[d] = p /\ \A j \in Inums : Owns(k[p], j) <=> j = d
      /\ \A j \in Inums : /\ RefsBy(p, j) = Has(cwd[p], j) + Has(fd[p], j) + Has(i, j) + Has(d, j)
                          /\ Has(cwd[p], j) \in Nat /\ Has(fd[p], j) \in Nat /\ Has(i, j) \in Nat /\ Has(d, j) \in Nat
  BY <1>1, BothFacts
<1>3. Locked(i).inode = dino[i] /\ dino[i].type # "free" /\ dino[i] \in Inodes BY <1>1, <1>2, LockedIs
<1>x. x \in Inodes /\ x.type = dino[i].type /\ x.addr = dino[i].addr BY <1>3, FirstLink
<1>. HIDE DEF x, i, d
<1>4. Writes(i, d, x, y)
  <2>1. ~NoType(i) BY DEF i
  <2>2. /\ core' \in [Inums -> Cores] /\ dino' \in [Inums -> Inodes]
        /\ core'[i].valid /\ core'[i].inode = x /\ dino'[i] = x
        /\ \A j \in Inums \ {i} : core'[j] = core[j] /\ dino'[j] = dino[j]
        /\ \A j \in Inums : core'[j].ref = core[j].ref BY <2>1, <1>1, <1>2, <1>b, <1>x, UpdateIs
  <2>. QED BY <2>2, <1>2 DEF Writes
<1>5. PICK r \in CallRecords :
           /\ r = PutThen(p, <<i, d>>, "done") /\ Agrees(r) /\ r.pc \in {"put", "done"} /\ r.dp = 0 /\ r.old = 0
           /\ r.pc \notin Locks
           /\ \A j \in Inums : Tokens(cwd[p], fd[p], r, j) = Has(cwd[p], j) + Has(fd[p], j) + Has(i, j) + Has(d, j)
  BY <1>2, PutsBoth
<1>6. Moves(p, r, cwd[p], fd[p])
  <2>1. booting' = FALSE /\ k' = [k EXCEPT ![p] = r] BY <1>1, <1>c, <1>5 DEF Tables
  <2>. QED BY <2>1, <1>c, MovesCall
<1>7. \A j \in Inums : Tokens(cwd[p], fd[p], r, j) = RefsBy(p, j) BY <1>2, <1>5
<1>8. TreeMove(p, r) BY <1>b, <1>5, TreeKeeps
<1>9. DiskOK(dino', ents', used')
  <2>0. DiskOK(dino, ents, used) BY DEF DisksOK
  <2>a. \A j \in Inums : dino'[j].type = dino[j].type /\ dino'[j].addr = dino[j].addr BY <1>2, <1>4, <1>x DEF Writes
  <2>1. \A j \in Inums : dino'[j].type = "free" => dino'[j] = FreeInode
    BY <2>0, <1>2, <1>3, <1>4, <1>x DEF DiskOK, Writes
  <2>3. Owned(dino', used')
    BY <2>0, <2>a, <1>b, AddrsSame
  <2>. QED BY <2>0, <2>a, <2>1, <2>3, <1>b DEF DiskOK
<1>12. k[p].pc # "invalid" /\ used' \subseteq Blocks /\ ents' \in [Inums -> [Elements -> {0} \cup Inums]]
  BY <1>1, <1>b DEF Tables
<1>13. Agrees(r) /\ r.pc \notin Locks /\ r.dp = 0 /\ r.old = 0 BY <1>5
<1>14. /\ i \in Inums /\ d \in Inums /\ i # d /\ core[i].ref # 0 /\ core[d].ref # 0
       /\ \A j \in Inums : Owns(k[p], j) <=> j = d BY <1>2
<1>15. /\ x.type = dino[i].type /\ x.type # "free" /\ y.type = "dir" /\ dino[d].type = "dir"
       /\ y.addr = dino[d].addr /\ (x.addr \in {dino[i].addr, None} \/ NotNew(p, i)) BY <1>2, <1>3, <1>x
<1>. HIDE DEF Inv, y
<1>. QED BY <1>a, <1>4, <1>6, <1>7, <1>8, <1>9, <1>12, <1>13, <1>14, <1>15, BothStep

\* The bitmap, if only the new inode may get a block.
LEMMA NewBlock ==
  ASSUME DiskOK(dino, ents, used), NEW i \in Inums, NEW d \in Inums, NEW x, NEW y, i # d,
         Writes(i, d, x, y), y.addr = dino[d].addr,
         \/ used' = used /\ x.addr = dino[i].addr
         \/ used' = used \cup {x.addr} /\ x.addr \notin used /\ x.addr # None /\ dino[i].addr = None
  PROVE  Owned(dino', used')
<1>1. dino'[i].addr = x.addr /\ \A j \in Inums \ {i} : dino'[j].addr = dino[j].addr BY DEF Writes
<1>2. CASE used' = used /\ x.addr = dino[i].addr
  <2>1. \A j \in Inums : dino'[j].addr = dino[j].addr BY <1>1, <1>2
  <2>. QED BY <1>2, <2>1, AddrsSame
<1>3. CASE used' = used \cup {x.addr} /\ x.addr \notin used /\ x.addr # None /\ dino[i].addr = None
  BY <1>1, <1>3, AddrsAdd
<1>. QED BY <1>2, <1>3

\* Otherwise the inode gets its first link, the directory its entry, and a directory
\* inode a block and the way back.
LEMMA CreateMakes ==
  ASSUME Inv, NEW p \in Procs, NEW ok \in BOOLEAN, CreateNew(p, ok), ~NoType(k[p].ip), ~(k[p].op = "mkdir" /\ used = Blocks)
  PROVE Inv'
<1>. USE DEF Inv
<1>. DEFINE i == k[p].ip
            d == k[p].dp
            n == Head(k[p].path)
            isdir == k[p].op = "mkdir"
            g == [Locked(i).inode EXCEPT !.nlink = 1]
            x == IF isdir THEN Bmap(g) ELSE g
            y == IF isdir THEN Linked(core[d].inode) ELSE core[d].inode
            e == IF isdir THEN Dirlink(ents, i, DotDot, d) ELSE ents
<1>1. k[p].pc = "new" /\ ~booting /\ lock[i] = None BY DEF CreateNew, AtInode, At, Up
<1>a. /\ stable' = stable /\ missed' = missed /\ panicked' = panicked /\ lock' = [lock EXCEPT ![d] = None]
  BY DEF CreateNew
<1>b. /\ core' = [core EXCEPT ![i] = [Locked(i) EXCEPT !.inode = x], ![d].inode = y]
      /\ dino' = [dino EXCEPT ![i] = x, ![d] = y]
      /\ ents' = Dirlink(e, d, n, i) /\ used' = IF isdir THEN Balloc(x.addr) ELSE used BY DEF CreateNew
<1>c. /\ cwd' = cwd /\ booting' = booting /\ Keep(p, i, ok /\ k[p].op = "creat", <<d>>) BY DEF CreateNew
<1>2. /\ i \in Inums /\ d \in Inums /\ i # d /\ core[i].ref # 0 /\ core[d].ref # 0
      /\ core[d].valid /\ core[d].inode = dino[d] /\ dino[d].type = "dir" /\ dino[d] \in Inodes
      /\ lock[d] = p /\ \A j \in Inums : Owns(k[p], j) <=> j = d
      /\ n \in Elements
      /\ \A j \in Inums : /\ RefsBy(p, j) = Has(cwd[p], j) + Has(fd[p], j) + Has(i, j) + Has(d, j)
                          /\ Has(cwd[p], j) \in Nat /\ Has(fd[p], j) \in Nat /\ Has(i, j) \in Nat /\ Has(d, j) \in Nat
  BY <1>1, BothFacts
<1>3. Locked(i).inode = dino[i] /\ dino[i].type # "free" /\ dino[i] \in Inodes BY <1>1, <1>2, LockedIs
<1>4. /\ isdir => dino[i].type = "dir" /\ dino[i].addr = None
      /\ NotNew(p, i) BY <1>1 DEF HeldOK, NotNew, KindOf
<1>x. /\ x \in Inodes /\ x.type = dino[i].type
      /\ isdir => x.addr \notin used /\ x.addr # None /\ x.addr \in Blocks
      /\ ~isdir => x.addr = dino[i].addr
  <2>1. g \in Inodes /\ g.type = dino[i].type /\ g.addr = dino[i].addr BY <1>3, FirstLink
  <2>2. CASE isdir
    <3>1. FirstFree \in Blocks /\ FirstFree \notin used /\ FirstFree # None BY <2>2, FirstFreeIs
    <3>. HIDE DEF g
    <3>2. Bmap(g) \in Inodes /\ Bmap(g).type = g.type /\ Bmap(g).addr = FirstFree BY <2>1, <3>1, InodeFields
    <3>. QED BY <2>1, <2>2, <3>1, <3>2
  <2>. HIDE DEF g
  <2>. QED BY <2>1, <2>2
<1>y. y \in Inodes /\ y.type = "dir" /\ y.addr = dino[d].addr
  <2>1. core[d].inode \in Inodes /\ core[d].inode.type = "dir" /\ core[d].inode.addr = dino[d].addr BY <1>2
  <2>2. /\ Linked(core[d].inode) \in Inodes /\ Linked(core[d].inode).type = "dir"
        /\ Linked(core[d].inode).addr = dino[d].addr BY <2>1, InodeFields
  <2>. QED BY <2>1, <2>2
<1>e. /\ e \in [Inums -> [Elements -> {0} \cup Inums]]
      /\ \A j \in Inums \ {i} : e[j] = ents[j]
      /\ \A m \in Names : e[i][m] = ents[i][m]
      /\ isdir \/ e[i] = ents[i]
  <2>. HIDE DEF i, d
  <2>1. ents \in [Inums -> [Elements -> {0} \cup Inums]] /\ DotDot \in Elements /\ d \in {0} \cup Inums /\ i \in Inums
    BY <1>2 DEF Tables, Elements
  <2>2. /\ Dirlink(ents, i, DotDot, d) \in [Inums -> [Elements -> {0} \cup Inums]]
        /\ \A m \in Elements \ {DotDot} : Dirlink(ents, i, DotDot, d)[i][m] = ents[i][m]
        /\ \A j \in Inums \ {i} : Dirlink(ents, i, DotDot, d)[j] = ents[j] BY <2>1, DirlinkIs
  <2>3. \A m \in Names : m \in Elements \ {DotDot} BY FsAssumption DEF Elements
  <2>. QED BY <2>1, <2>2, <2>3
<1>u. used' \subseteq Blocks BY <1>b, <1>x DEF Tables, Balloc
<1>o. \/ used' = used /\ x.addr = dino[i].addr
      \/ used' = used \cup {x.addr} /\ x.addr \notin used /\ x.addr # None /\ dino[i].addr = None
  BY <1>b, <1>x, <1>4 DEF Balloc
<1>d. dino[i].type = "dir" \/ e[i] = ents[i] BY <1>e, <1>4
<1>k. \/ fd[p] = 0 /\ fd' = [fd EXCEPT ![p] = i] /\ k' = [k EXCEPT ![p] = PutThen(p, <<d>>, "done")]
      \/ fd' = fd /\ k' = [k EXCEPT ![p] = PutThen(p, <<d, i>>, "done")]
  <2>1. <<d>> \o <<i>> = <<d, i>> BY <1>2, PutsAre
  <2>. QED BY <1>c, <2>1 DEF Keep
<1>. HIDE DEF x, y, e, i, d, n, isdir
<1>5. Writes(i, d, x, y) BY <1>1, <1>2, <1>b, <1>x, <1>y, BothWritten DEF i
<1>6. PICK r \in CallRecords, f \in {0} \cup Inums :
           /\ Moves(p, r, cwd[p], f) /\ Agrees(r) /\ r.dp = 0 /\ r.old = 0 /\ r.pc \notin Locks
           /\ \A j \in Inums : Tokens(cwd[p], f, r, j) = Has(cwd[p], j) + Has(fd[p], j) + Has(i, j) + Has(d, j)
  <2>1. booting' = FALSE BY <1>1, <1>c DEF Tables
  <2>2. i \in Inums /\ d \in Inums /\ cwd' = cwd BY <1>2, <1>c
  <2>. QED BY <2>1, <2>2, <1>k, NewEnds
<1>7. \A j \in Inums : Tokens(cwd[p], f, r, j) = RefsBy(p, j) BY <1>2, <1>6
<1>8. Owned(dino', used')
  <2>1. DiskOK(dino, ents, used) BY DEF DisksOK
  <2>. QED BY <2>1, <1>2, <1>5, <1>o, <1>y, NewBlock
<1>9. Enters(i, d, n)
  <2>1. /\ Dirlink(e, d, n, i) \in [Inums -> [Elements -> {0} \cup Inums]] /\ Dirlink(e, d, n, i)[d][n] = i
        /\ \A m \in Elements \ {n} : Dirlink(e, d, n, i)[d][m] = e[d][m]
        /\ \A j \in Inums \ {d} : Dirlink(e, d, n, i)[j] = e[j]
    <3>1. e \in [Inums -> [Elements -> {0} \cup Inums]] /\ d \in Inums /\ n \in Elements /\ i \in {0} \cup Inums
      BY <1>2, <1>e
    <3>. QED BY <3>1, DirlinkIs
  <2>. QED BY <2>1, <1>2, <1>b, <1>d, <1>e DEF Enters
<1>10. TreeMove(p, r)
  <2>1. \A q \in Procs \ {p} : k[q].pc = "new" /\ k[q].ip = d => k[q].dp # i BY <1>1 DEF TreeOK, i, d
  <2>2. r.pc \notin Locks /\ i \in Inums /\ d \in Inums /\ n \in Elements /\ i # d /\ lock[i] = None /\ lock[d] = p
    BY <1>1, <1>2, <1>6
  <2>. QED BY <2>1, <2>2, <1>9, NewEntry
<1>11. DiskOK(dino', ents', used')
  <2>1. DiskOK(dino, ents, used) /\ \A m \in Names : ents[i][m] # d BY <1>1 DEF DisksOK, TreeOK, i, d
  <2>2. /\ x.type = dino[i].type /\ x.type # "free" /\ y.type = "dir"
        /\ i \in Inums /\ d \in Inums /\ n \in Elements /\ i # d /\ dino[d].type = "dir"
    BY <1>2, <1>3, <1>x, <1>y
  <2>. QED BY <2>1, <2>2, <1>5, <1>8, <1>9, NewDisk
<1>12. k[p].pc # "invalid" /\ used' \subseteq Blocks /\ ents' \in [Inums -> [Elements -> {0} \cup Inums]]
  BY <1>1, <1>u, <1>9 DEF Enters
<1>13. Moves(p, r, cwd[p], f) /\ Agrees(r) /\ r.pc \notin Locks /\ r.dp = 0 /\ r.old = 0 BY <1>6
<1>14. /\ i \in Inums /\ d \in Inums /\ i # d /\ core[i].ref # 0 /\ core[d].ref # 0
       /\ \A j \in Inums : Owns(k[p], j) <=> j = d BY <1>2
<1>15. /\ x.type = dino[i].type /\ x.type # "free" /\ y.type = "dir" /\ dino[d].type = "dir"
       /\ y.addr = dino[d].addr /\ (x.addr \in {dino[i].addr, None} \/ NotNew(p, i))
  BY <1>2, <1>3, <1>4, <1>x, <1>y
<1>. HIDE DEF Inv
<1>. QED BY <1>a, <1>5, <1>7, <1>10, <1>11, <1>12, <1>13, <1>14, <1>15, BothStep

\* create, with the parent locked and the new inode.
LEMMA CreateNewKeeps == ASSUME Inv, NEW p \in Procs, NEW ok \in BOOLEAN, CreateNew(p, ok) PROVE Inv'
<1>1. CASE NoType(k[p].ip) BY <1>1, PanicKeeps DEF CreateNew
<1>. QED BY <1>1, CreateFails, CreateMakes

----
(* end_op, crashes and recovery *)

\* The last call commits what the disk has now, the others nothing.
LEMMA EndOpKeeps == ASSUME Inv, NEW p \in Procs, EndOp(p) PROVE Inv'
<1>. USE DEF Inv
<1>1. /\ k[p].pc = "done" /\ ~booting /\ k' = [k EXCEPT ![p] = NoCall]
      /\ stable' = <<dino, ents, used>> \/ stable' = stable BY DEF EndOp, At, Up, diskVars
<1>2. /\ dino' = dino /\ ents' = ents /\ used' = used /\ core' = core /\ lock' = lock
      /\ missed' = missed /\ panicked' = panicked BY DEF EndOp, diskVars, memVars
<1>3. cwd' = cwd /\ fd' = fd /\ booting' = booting BY DEF EndOp
<1>4. /\ NoCall \in CallRecords /\ Agrees(NoCall) /\ NoCall.pc = "user" /\ NoCall.ip = 0 /\ NoCall.dp = 0
      /\ NoCall.old = 0 /\ NoCall.puts = <<>> BY NoCallIs DEF NoCall
<1>5. Moves(p, NoCall, cwd[p], fd[p])
  <2>1. booting' = FALSE BY <1>1, <1>3 DEF Tables
  <2>. QED BY <2>1, <1>1, <1>3, <1>4, MovesCall
<1>6. /\ \A q \in Procs : k[q].pc \in {"free", "invalid"} => Head(k[q].puts) \in Inums
      /\ \A q \in Procs : k[q].pc = "free" => Head(k[q].puts) \in Inums
      /\ \A q \in Procs : k[q].pc = "new" => k[q].ip \in Inums
      /\ \A q \in Procs : k[q].pc \in {"unlink", "new"} => k[q].dp \in Inums /\ k[q].ip \in Inums BY OthersAre
<1>7. Tables'
  <2>1. /\ dino' \in [Inums -> Inodes] /\ ents' \in [Inums -> [Elements -> {0} \cup Inums]]
        /\ used' \subseteq Blocks /\ lock' \in [Inums -> Procs \cup {None}] /\ core' \in [Inums -> Cores]
        /\ missed' \subseteq Inums /\ panicked' \in BOOLEAN BY <1>2 DEF Tables
  <2>. QED BY <2>1, <1>5, TypeStep
<1>8. StableOK' BY <1>1 DEF StableOK, Tables
<1>9. CallsOK' BY <1>4, <1>5, CallsStep
<1>10. RefsOK'
  <2>1. ASSUME NEW j \in Inums PROVE RefsBy(p, j) = Tokens(cwd[p], fd[p], NoCall, j)
    <3>1. k[p].puts = <<>> /\ k[p].ip = 0 /\ k[p].dp = 0 /\ k[p].old = 0 BY <1>1, CallIs DEF Puts
    <3>. QED BY <3>1, <1>4 DEF Tokens
  <2>2. core' \in [Inums -> Cores] BY <1>2 DEF Tables
  <2>3. \A j \in Inums : core'[j].ref + RefsBy(p, j) = core[j].ref + Tokens(cwd[p], fd[p], NoCall, j)
    BY <1>2, <2>1
  <2>. QED BY <2>2, <2>3, <1>5, RefsStep
<1>11. LocksOK'
  <2>1. /\ k[p].pc \notin {"unlink", "new", "free", "invalid"}
        /\ NoCall.pc \notin {"unlink", "new", "free", "invalid"} /\ lock' = lock BY <1>1, <1>2, <1>4
  <2>. QED BY <2>1, <1>5, LocksSame
<1>12. CoresOK'
  <2>1. /\ \A j \in Inums : core'[j].ref = 0 => core'[j] = NoCore
        /\ \A j \in Inums : core[j].valid => core'[j].valid \/ Idle(p, j) BY <1>2 DEF CoresOK
  <2>2. \A i \in Inums : \/ core'[i].valid = core[i].valid /\ core'[i].inode = core[i].inode /\ dino'[i] = dino[i]
                         \/ core'[i].inode = dino'[i] /\ dino'[i].type # "free"
                         \/ ~core'[i].valid
                         \/ NoCall.pc = "invalid" /\ Head(NoCall.puts) = i
                         \/ Stale(i) BY <1>2
  <2>3. k[p].pc # "invalid" /\ NoCall.pc # "free" BY <1>1, <1>4
  <2>. QED BY <2>1, <2>2, <2>3, <1>5, <1>6, CoresStep
<1>13. HeldOK'
  <2>1. /\ \A j \in Inums : core[j].valid => core'[j].valid \/ Idle(p, j)
        /\ \A i \in Inums : dino'[i].type = dino[i].type \/ (Idle(p, i) /\ NotNew(p, i))
        /\ \A i \in Inums : dino'[i].addr \in {dino[i].addr, None} \/ NotNew(p, i) \/ dino[i].type # "dir"
    BY <1>2
  <2>2. /\ NoCall.dp = 0 /\ NoCall.old = 0 /\ NoCall.pc # "new" /\ NoCall.pc \notin {"free", "invalid"}
        /\ NoCall.pc # "free" BY <1>4
  <2>. QED BY <2>1, <2>2, <1>5, <1>6, HeldStep
<1>14. DisksOK' BY <1>1, <1>2 DEF DisksOK
<1>15. TreeOK'
  <2>1. NoCall.pc # "new" /\ NoCall.pc # "unlink" BY <1>4
  <2>. QED BY <2>1, <1>2, <1>5, <1>6, TreeStep
<1>16. Quiet' BY <1>5 DEF Quiet, Moves
<1>. QED BY <1>7, <1>8, <1>9, <1>10, <1>11, <1>12, <1>13, <1>14, <1>15, <1>16

\* The inode table at boot.
LEMMA BootedCores ==
  ASSUME NEW C, C = [i \in Inums |-> IF i = Root THEN [NoCore EXCEPT !.ref = Cardinality(Procs)] ELSE NoCore]
  PROVE  /\ C \in [Inums -> Cores] /\ \A i \in Inums : ~C[i].valid
         /\ \A i \in Inums : C[i].ref = IF i = Root THEN Cardinality(Procs) ELSE 0
         /\ \A i \in Inums : C[i].ref = 0 => C[i] = NoCore
<1>. DEFINE n == Cardinality(Procs)
            b == [NoCore EXCEPT !.ref = n]
<1>1. n \in Nat BY FsAssumption, FS_CardinalityType
<1>. HIDE DEF n
<1>2. PICK t \in Cores : t = NoCore /\ t.ref = 0 /\ ~t.valid BY NoCoreIs
<1>3. [t EXCEPT !.ref = n] \in Cores BY <1>1 DEF Cores
<1>4. [t EXCEPT !.ref = n].ref = n /\ [t EXCEPT !.ref = n].valid = t.valid BY DEF Cores
<1>5. n = 0 => [t EXCEPT !.ref = n] = t BY <1>2 DEF Cores
<1>6. b \in Cores /\ b.ref = n /\ ~b.valid /\ (n = 0 => b = NoCore) BY <1>2, <1>3, <1>4, <1>5
<1>7. \A i \in Inums : C[i] = IF i = Root THEN b ELSE NoCore BY DEF n
<1>8. C \in [Inums -> Cores] BY <1>2, <1>6 DEF n
<1>. HIDE DEF b
<1>9. /\ \A i \in Inums : ~C[i].valid /\ C[i].ref = IF i = Root THEN n ELSE 0
      /\ \A i \in Inums : C[i].ref = 0 => C[i] = NoCore BY <1>2, <1>6, <1>7
<1>. QED BY <1>8, <1>9 DEF n

\* Such a state satisfies the invariant.
LEMMA BootInv == BootState => Inv
<1>. HAVE BootState
<1>. USE DEF BootState, Booted
<1>1. /\ core \in [Inums -> Cores] /\ \A i \in Inums : ~core[i].valid
      /\ \A i \in Inums : core[i].ref = IF i = Root THEN Cardinality(Procs) ELSE 0
      /\ \A i \in Inums : core[i].ref = 0 => core[i] = NoCore BY BootedCores
<1>2. /\ NoCall \in CallRecords /\ Agrees(NoCall) /\ NoCall.pc = "user" /\ NoCall.ip = 0 /\ NoCall.dp = 0
      /\ NoCall.old = 0 /\ NoCall.puts = <<>> BY NoCallIs DEF NoCall
<1>3. Root \in Inums /\ None \notin Procs BY FsAssumption DEF Root, Inums
<1>4. \A p \in Procs : k[p] = NoCall OBVIOUS
<1>5. Tables
  <2>1. k \in [Procs -> CallRecords] BY <1>2
  <2>2. cwd \in [Procs -> Inums] /\ fd \in [Procs -> {0} \cup Inums] /\ lock \in [Inums -> Procs \cup {None}] BY <1>3
  <2>. QED BY <1>1, <2>1, <2>2 DEF Tables
<1>6. CallsOK BY <1>2, <1>4 DEF CallsOK
<1>7. RefsOK
  <2>1. ASSUME NEW i \in Inums PROVE core[i].ref = Holders(i)
    <3>1. Count(cwd, fd, k, i) = IF i = Root THEN Cardinality(Procs) ELSE 0 BY CountInit
    <3>. QED BY <3>1, <1>1, HoldersIs
  <2>. QED BY <2>1 DEF RefsOK
<1>8. LocksOK
  <2>1. \A i \in Inums, p \in Procs : lock[i] # p /\ ~Owns(k[p], i) BY <1>2, <1>3, <1>4 DEF Owns
  <2>. QED BY <2>1 DEF LocksOK
<1>9. CoresOK BY <1>1, <1>2, <1>4 DEF CoresOK
<1>10. HeldOK BY <1>2, <1>4 DEF HeldOK
<1>11. TreeOK BY <1>2, <1>4 DEF TreeOK
<1>12. Quiet BY <1>1, <1>2, <1>4 DEF Quiet
<1>. QED BY <1>5, <1>6, <1>7, <1>8, <1>9, <1>10, <1>11, <1>12 DEF Inv

\* The machine comes back with the last commit.
LEMMA CrashBoots == ASSUME Inv, Crash PROVE BootState'
<1>1. /\ dino' = stable[1] /\ ents' = stable[2] /\ used' = stable[3] /\ stable' = stable
      /\ missed' = {} /\ booting' = TRUE /\ panicked' = panicked BY DEF Crash
<1>2. Booted(cwd', fd', k', core', lock') BY DEF Crash, Booted
<1>3. StableOK' BY <1>1 DEF Inv, StableOK
<1>4. DisksOK' BY <1>1 DEF Inv, DisksOK
<1>5. dino' \in [Inums -> Inodes] /\ ents' \in [Inums -> [Elements -> {0} \cup Inums]] /\ used' \subseteq Blocks
  BY <1>1 DEF Inv, StableOK
<1>6. missed' = {} /\ booting' \in BOOLEAN /\ panicked' \in BOOLEAN BY <1>1 DEF Inv, Tables
<1>. QED BY <1>2, <1>3, <1>4, <1>5, <1>6 DEF BootState

\* So a crash keeps the invariant.
LEMMA CrashKeeps == ASSUME Inv, Crash PROVE Inv'
<1>1. BootState' BY CrashBoots
<1>. QED BY <1>1, BootInv, PTL

\* mkfs's disk is a good one.
LEMMA InitBoots == Init => BootState
<1>. HAVE Init
<1>1. /\ dino = [i \in Inums |-> IF i = Root THEN [type |-> "dir", nlink |-> 1, addr |-> RootBlock] ELSE FreeInode]
      /\ ents = [i \in Inums |-> IF i = Root THEN [EmptyDir EXCEPT ![DotDot] = Root] ELSE EmptyDir]
      /\ used = {RootBlock} /\ stable = <<dino, ents, used>> BY DEF Init, diskVars
<1>2. Root \in Inums /\ RootBlock \in Blocks /\ RootBlock # None /\ DotDot \notin Names BY FsAssumption DEF Root, Inums
<1>3. dino \in [Inums -> Inodes]
  <2>1. FreeInode \in Inodes /\ [type |-> "dir", nlink |-> 1, addr |-> RootBlock] \in Inodes
    BY <1>2, NoCoreIs DEF Inodes, Types
  <2>. QED BY <1>1, <2>1
<1>4. ents \in [Inums -> [Elements -> {0} \cup Inums]]
  <2>1. EmptyDir \in [Elements -> {0} \cup Inums] /\ [EmptyDir EXCEPT ![DotDot] = Root] \in [Elements -> {0} \cup Inums]
    BY <1>2 DEF EmptyDir, Elements
  <2>. QED BY <1>1, <2>1
<1>5. used \subseteq Blocks BY <1>1, <1>2
<1>6. DiskOK(dino, ents, used)
  <2>1. /\ dino[Root].type = "dir" /\ dino[Root].addr = RootBlock
        /\ \A i \in Inums \ {Root} : dino[i] = FreeInode /\ dino[i].addr = None /\ ents[i] = EmptyDir
    BY <1>1, <1>2 DEF FreeInode
  <2>2. ASSUME NEW i \in Inums, NEW n \in Names PROVE ents[i][n] = 0 BY <1>1, <1>2 DEF EmptyDir, Elements
  <2>3. \A i \in Inums : dino[i].type = "free" => dino[i] = FreeInode BY <2>1
  <2>4. \A i \in Inums : dino[i].type # "dir" => ents[i] = EmptyDir BY <2>1
  <2>5. used = {dino[i].addr : i \in Inums} \ {None} BY <1>1, <1>2, <2>1
  <2>6. \A i, j \in Inums : i # j /\ dino[i].addr = dino[j].addr => dino[i].addr = None BY <1>2, <2>1
  <2>7. \A d, e \in Inums, m, n \in Names : ~(ents[d][m] = e /\ ents[e][n] = d) BY <2>2 DEF Inums
  <2>. QED BY <2>3, <2>4, <2>5, <2>6, <2>7 DEF DiskOK
<1>7. StableOK BY <1>1, <1>3, <1>4, <1>5 DEF StableOK
<1>8. DisksOK BY <1>1, <1>6 DEF DisksOK
<1>9. Booted(cwd, fd, k, core, lock) BY DEF Init, Booted
<1>10. missed = {} /\ booting \in BOOLEAN /\ panicked \in BOOLEAN BY DEF Init
<1>. QED BY <1>3, <1>4, <1>5, <1>7, <1>8, <1>9, <1>10 DEF BootState

\* And so it satisfies the invariant.
LEMMA InitInv == Init => Inv BY InitBoots, BootInv

\* ireclaim frees an inode that has no links, or finds none.
LEMMA IreclaimKeeps == ASSUME Inv, Ireclaim PROVE Inv'
<1>. USE DEF Inv
<1>1. booting /\ core' = core /\ lock' = lock /\ cwd' = cwd /\ fd' = fd /\ k' = k /\ missed' = missed /\ panicked' = panicked
  BY DEF Ireclaim, memVars
<1>2. /\ \A p \in Procs : k[p].pc = "user" /\ k[p].dp = 0 /\ k[p].old = 0
      /\ \A i \in Inums : ~core[i].valid BY <1>1, CallIs DEF Quiet
<1>3. CallsOK' /\ LocksOK' BY <1>1 DEF CallsOK, LocksOK
<1>4. RefsOK'
  <2>1. ASSUME NEW i \in Inums PROVE core'[i].ref = Holders(i)'
    <3>1. core[i].ref = Holders(i) BY DEF RefsOK
    <3>. QED BY <3>1, <1>1, HoldersIs
  <2>. QED BY <2>1 DEF RefsOK
<1>5. CoresOK'
  <2>1. \A i \in Inums : core'[i].ref = 0 => core'[i] = NoCore BY <1>1 DEF CoresOK
  <2>2. \A i \in Inums : ~core'[i].valid BY <1>1, <1>2
  <2>3. \A p \in Procs : k'[p].pc # "free" BY <1>1, <1>2
  <2>. QED BY <2>1, <2>2, <2>3 DEF CoresOK
<1>6. HeldOK' /\ TreeOK'
  <2>1. \A p \in Procs : k'[p].pc = "user" /\ k'[p].dp = 0 /\ k'[p].old = 0 BY <1>1, <1>2
  <2>. QED BY <2>1 DEF HeldOK, TreeOK
<1>7. Quiet' BY <1>1, <1>2 DEF Quiet
<1>8. DiskOK(dino, ents, used) BY DEF DisksOK
<1>9. CASE Orphans = {}
  <2>1. dino' = dino /\ ents' = ents /\ used' = used /\ stable' = stable /\ booting' = FALSE
    BY <1>9 DEF Ireclaim, diskVars
  <2>2. Tables' BY <1>1, <2>1 DEF Tables
  <2>3. StableOK' /\ DisksOK' BY <2>1 DEF StableOK, DisksOK
  <2>. QED BY <2>2, <2>3, <1>3, <1>4, <1>5, <1>6, <1>7
<1>10. CASE Orphans # {}
  <2>. DEFINE i == CHOOSE j \in Orphans : \A l \in Orphans : j <= l
  <2>1. i \in Inums
    <3>1. Orphans \in SUBSET Inums BY DEF Orphans
    <3>2. \E j \in Orphans : \A l \in Orphans : j <= l BY <3>1, <1>10, LeastInum
    <3>3. i \in Orphans BY <3>2
    <3>. QED BY <3>1, <3>3
  <2>2. /\ dino' = [dino EXCEPT ![i] = FreeInode] /\ ents' = [ents EXCEPT ![i] = EmptyDir]
        /\ used' = used \ {dino[i].addr} /\ stable' = <<dino', ents', used'>> /\ booting' = booting
    BY <1>10 DEF Ireclaim, Bfree
  <2>. HIDE DEF i
  <2>3. /\ dino' \in [Inums -> Inodes] /\ dino'[i] = FreeInode /\ \A j \in Inums \ {i} : dino'[j] = dino[j]
    BY <2>1, <2>2, NoCoreIs DEF Tables
  <2>4. /\ ents' \in [Inums -> [Elements -> {0} \cup Inums]] /\ ents'[i] = EmptyDir
        /\ \A j \in Inums \ {i} : ents'[j] = ents[j]
    <3>1. EmptyDir \in [Elements -> {0} \cup Inums] BY DEF EmptyDir
    <3>. QED BY <2>1, <2>2, <3>1 DEF Tables
  <2>5. used' \subseteq Blocks BY <2>2 DEF Tables
  <2>6. Tables' BY <1>1, <2>2, <2>3, <2>4, <2>5 DEF Tables
  <2>7. StableOK' BY <2>2, <2>3, <2>4, <2>5 DEF StableOK
  <2>8. DiskOK(dino', ents', used')
    <3>0. FreeInode.addr = None BY DEF FreeInode
    <3>1. \A j \in Inums : dino'[j].type = "free" => dino'[j] = FreeInode BY <1>8, <2>3 DEF DiskOK
    <3>2. \A j \in Inums : dino'[j].type # "dir" => ents'[j] = EmptyDir BY <1>8, <2>3, <2>4 DEF DiskOK
    <3>3. Owned(dino', used')
      <4>1. dino'[i].addr = None /\ \A j \in Inums \ {i} : dino'[j].addr = dino[j].addr BY <3>0, <2>3
      <4>2. used' = used \ {dino[i].addr} BY <2>2
      <4>. HIDE DEF Inv
      <4>. QED BY <4>1, <4>2, <1>8, <2>1, AddrsDel
    <3>4. ASSUME NEW a \in Inums, NEW b \in Inums, NEW l \in Names, NEW m \in Names, ents'[a][l] = b, ents'[b][m] = a PROVE FALSE
      <4>1. l \in Elements /\ m \in Elements /\ 0 \notin Inums BY DEF Elements, Inums
      <4>2. a # i /\ b # i BY <4>1, <3>4, <2>4 DEF EmptyDir
      <4>3. ents[a][l] = b /\ ents[b][m] = a BY <4>2, <3>4, <2>4
      <4>. QED BY <4>3, <1>8 DEF DiskOK
    <3>. QED BY <3>1, <3>2, <3>3, <3>4 DEF DiskOK
  <2>9. DisksOK' BY <2>2, <2>8 DEF DisksOK
  <2>. QED BY <2>6, <2>7, <2>9, <1>3, <1>4, <1>5, <1>6, <1>7
<1>. QED BY <1>9, <1>10

----
(* The invariant and the theorems *)

\* A step of a process keeps the invariant.
LEMMA ProcessStep ==
  ASSUME Inv, NEW p \in Procs,
         \/ \E c \in Calls[p] : Begin(p, c)
         \/ Namex(p) \/ Iput(p) \/ IputFree(p) \/ IputInvalid(p) \/ IputDrop(p)
         \/ \E ok \in BOOLEAN : Open(p, ok) \/ CreateOld(p, ok) \/ CreateNew(p, ok)
         \/ Chdir(p) \/ Write(p) \/ Close(p)
         \/ Link(p) \/ LinkTo(p) \/ LinkBad(p) \/ UnlinkDir(p) \/ Unlink(p) \/ CreateDir(p)
         \/ EndOp(p) PROVE Inv'
<1>1. ASSUME NEW c \in Calls[p], Begin(p, c) PROVE Inv' BY <1>1, BeginKeeps
<1>2. CASE Namex(p) BY <1>2, NamexKeeps
<1>3. CASE Iput(p) BY <1>3, IputPlain, IputStarts
<1>4. CASE IputFree(p) BY <1>4, IputFreeKeeps
<1>5. CASE IputInvalid(p) BY <1>5, IputInvalidKeeps
<1>6. CASE IputDrop(p) BY <1>6, IputDropKeeps
<1>7. ASSUME NEW ok \in BOOLEAN, Open(p, ok) PROVE Inv'
  <2>1. CASE k[p].op = "trunc" /\ Locked(k[p].ip).inode.type = "file" /\ ok /\ fd[p] = 0 BY <2>1, <1>7, OpenCuts
  <2>2. CASE ~(k[p].op = "trunc" /\ Locked(k[p].ip).inode.type = "file" /\ ok /\ fd[p] = 0) BY <2>2, <1>7, OpenKeeps
  <2>. QED BY <2>1, <2>2
<1>8. ASSUME NEW ok \in BOOLEAN, CreateOld(p, ok) PROVE Inv' BY <1>8, CreateOldKeeps
<1>9. ASSUME NEW ok \in BOOLEAN, CreateNew(p, ok) PROVE Inv' BY <1>9, CreateNewKeeps
<1>10. CASE Chdir(p) BY <1>10, ChdirKeeps
<1>11. CASE Write(p) BY <1>11, WriteKeeps
<1>12. CASE Close(p) BY <1>12, CloseKeeps
<1>13. CASE Link(p) BY <1>13, LinkDirKeeps, LinkCounts
<1>14. CASE LinkTo(p) BY <1>14, LinkTaken, LinkMade
<1>15. CASE LinkBad(p) BY <1>15, LinkBadKeeps
<1>16. CASE UnlinkDir(p) BY <1>16, UnlinkNone, UnlinkTakes
<1>17. CASE Unlink(p) BY <1>17, UnlinkKeeps
<1>18. CASE CreateDir(p) BY <1>18, CreateFound, CreateFull, CreateTakes
<1>19. CASE EndOp(p) BY <1>19, EndOpKeeps
<1>. QED BY <1>1, <1>2, <1>3, <1>4, <1>5, <1>6, <1>7, <1>8, <1>9, <1>10, <1>11, <1>12, <1>13, <1>14, <1>15,
     <1>16, <1>17, <1>18, <1>19

\* Every step keeps the invariant.
LEMMA NextInv == Inv /\ [Next]_vars => Inv'
<1>. SUFFICES ASSUME Inv, [Next]_vars PROVE Inv' OBVIOUS
<1>1. CASE Next
  <2>1. CASE Crash BY <2>1, CrashKeeps
  <2>2. CASE Ireclaim BY <2>2, IreclaimKeeps
  <2>. QED BY <1>1, <2>1, <2>2, ProcessStep DEF Next, Step
<1>2. CASE UNCHANGED vars
  <2>1. /\ dino' = dino /\ ents' = ents /\ used' = used /\ stable' = stable /\ core' = core /\ lock' = lock
        /\ cwd' = cwd /\ fd' = fd /\ k' = k /\ missed' = missed /\ booting' = booting /\ panicked' = panicked
    BY <1>2 DEF vars, diskVars, memVars
  <2>2. RefsOK'
    <3>1. ASSUME NEW i \in Inums PROVE core'[i].ref = Holders(i)'
      <4>1. core[i].ref = Holders(i) BY DEF Inv, RefsOK
      <4>. QED BY <4>1, <2>1, HoldersIs
    <3>. QED BY <3>1 DEF RefsOK
  <2>3. Tables' /\ StableOK' /\ CallsOK' /\ LocksOK' /\ DisksOK' /\ TreeOK' /\ Quiet'
    BY <2>1 DEF Inv, Tables, StableOK, CallsOK, LocksOK, DisksOK, TreeOK, Quiet
  <2>4. CoresOK' /\ HeldOK' BY <2>1 DEF Inv, CoresOK, Stale, HeldOK
  <2>. QED BY <2>2, <2>3, <2>4 DEF Inv
<1>. QED BY <1>1, <1>2 DEF Next

\* The inductive invariant of the file system, for any number of processes, inodes,
\* blocks and names, any system calls, and any crashes.
THEOREM FsInvariant == Spec => []Inv
<1>1. Init => Inv BY InitInv
<1>2. Inv /\ [Next]_vars => Inv' BY NextInv
<1>. QED BY <1>1, <1>2, PTL DEF Spec

\* bitmap and dinodes: balloc and bfree (kernel/fs.c) keep every data block with at most
\* one inode, and marked exactly while it has one, across truncation, iput's itrunc,
\* failed mkdirs, crashes and ireclaim.
THEOREM BlocksOwned == Spec => []BlocksOwnedOnce
<1>1. Inv => BlocksOwnedOnce BY DEF Inv, DisksOK, DiskOK, BlocksOwnedOnce
<1>. QED BY <1>1, FsInvariant, PTL

\* A process that waits for an inode lock while it has one waits for the child of the
\* directory it has, which the entry it found there, or made, still names.
LEMMA WaitsFacts == ASSUME Inv, NEW p \in Procs, NEW q \in Procs, WaitsFor(p, q), WaitsFor(q, p)
  PROVE k[p].pc \in {"unlink", "new"} /\ k[q].pc \in {"unlink", "new"} /\ k[p].ip = k[q].dp
<1>. USE DEF Inv
<1>1. ASSUME NEW s \in Procs PROVE Wants(s) \subseteq Inums
  <2>1. /\ k[s].pc \in {"walk", "at", "old", "unlink", "new"} => k[s].ip \in Inums
        /\ k[s].pc = "parent" => k[s].dp \in Inums
        /\ k[s].pc = "linkbad" => k[s].old \in Inums BY CallIs DEF Walks
  <2>. QED BY <2>1 DEF Wants
<1>2. PICK i \in Wants(p) : lock[i] = q BY DEF WaitsFor
<1>3. PICK j \in Wants(q) : lock[j] = p BY DEF WaitsFor
<1>4. Owns(k[q], i) /\ Owns(k[p], j) BY <1>1, <1>2, <1>3 DEF LocksOK
<1>5. \A s \in Procs : Wants(s) # {} => k[s].pc \notin {"free", "invalid"} BY DEF Wants
<1>6. k[p].pc \in {"unlink", "new"} /\ k[q].pc \in {"unlink", "new"} /\ k[q].dp = i BY <1>2, <1>3, <1>4, <1>5 DEF Owns
<1>7. Wants(p) = {k[p].ip} BY <1>6 DEF Wants
<1>. QED BY <1>2, <1>6, <1>7

\* No deadlock of two sleep locks: sys_unlink and create (kernel/sysfile.c) lock the parent
\* and then the child, and no sequence of calls makes two inodes each other's parent, or
\* one its own, while their locks are held.
THEOREM NoDeadlock == Spec => []NoLockCycle
<1>1. ASSUME Inv, NEW p \in Procs, NEW q \in Procs, WaitsFor(p, q), WaitsFor(q, p) PROVE FALSE
  <2>1. /\ k[p].pc \in {"unlink", "new"} /\ k[q].pc \in {"unlink", "new"} /\ k[p].ip = k[q].dp /\ k[q].ip = k[p].dp
    BY <1>1, WaitsFacts
  <2>. USE <1>1 DEF Inv
  <2>2. /\ k[p].ip \in Inums /\ k[p].dp \in Inums /\ k[q].ip \in Inums /\ k[q].dp \in Inums BY <2>1, CallIs
  <2>3. ASSUME NEW s \in Procs, k[s].pc = "unlink"
        PROVE Head(k[s].path) \in Names /\ ents[k[s].dp][Head(k[s].path)] = k[s].ip
    <3>1. k[s].path \in Seq(Elements) /\ k[s].path # <<>> /\ Head(k[s].path) # DotDot
      BY <2>3, Fields DEF CallsOK, Agrees
    <3>2. Head(k[s].path) \in Elements BY <3>1
    <3>. QED BY <3>1, <3>2, <2>3 DEF Elements, TreeOK
  <2>4. CASE k[p].pc = "new" /\ k[q].pc = "new" BY <2>1, <2>4 DEF TreeOK
  <2>5. CASE k[p].pc = "new" /\ k[q].pc = "unlink" BY <2>1, <2>3, <2>5 DEF TreeOK
  <2>6. CASE k[p].pc = "unlink" /\ k[q].pc = "new" BY <2>1, <2>3, <2>6 DEF TreeOK
  <2>7. CASE k[p].pc = "unlink" /\ k[q].pc = "unlink" BY <2>1, <2>2, <2>3, <2>7 DEF DisksOK, DiskOK
  <2>. QED BY <2>1, <2>4, <2>5, <2>6, <2>7
<1>2. Inv => NoLockCycle BY <1>1 DEF NoLockCycle
<1>. QED BY <1>2, FsInvariant, PTL

\* The history variable has its type.
LEMMA FlagAlways == Spec => []Flag
<1>1. Init => Flag BY DEF Init, Flag
<1>2. Flag /\ [Next]_vars => Flag' BY DEF Next, vars, Flag
<1>. QED BY <1>1, <1>2, PTL DEF Spec

\* ip->ref (kernel/fs.c) is the number of references that the processes really hold:
\* every path through namex, the calls and iput, the failing ones too, puts what it got.
THEOREM ReferencesCounted == Spec => [](TypeOK /\ RefsOK)
<1>1. Inv /\ Flag => TypeOK /\ RefsOK BY DEF Inv, Flag, TypeOK
<1>. QED BY <1>1, FsInvariant, FlagAlways, PTL

\* The copy of an inode in the table is the one on disk whenever it is marked valid and its
\* iput is not between iupdate and ip->valid = 0, and then it is of an allocated inode.
THEOREM CopiesCurrent == Spec => []CoresOK
<1>1. Inv => CoresOK BY DEF Inv
<1>. QED BY <1>1, FsInvariant, PTL
----
(* References and names *)

\* What a call has to put, by the length of the sequence.
LEMMA PutsOf == ASSUME NEW c
  PROVE  /\ c.puts = <<>> => Fst(c) = 0 /\ Snd(c) = 0
         /\ \A a : c.puts = <<a>> => Fst(c) = a /\ Snd(c) = 0
         /\ \A a, b : c.puts = <<a, b>> => Fst(c) = a /\ Snd(c) = b
<1>1. c.puts = <<>> => Fst(c) = 0 /\ Snd(c) = 0 BY DEF Fst, Snd
<1>2. ASSUME NEW a, c.puts = <<a>> PROVE Fst(c) = a /\ Snd(c) = 0
  <2>1. 1 \in DOMAIN <<a>> /\ 2 \notin DOMAIN <<a>> /\ <<a>>[1] = a OBVIOUS
  <2>. QED BY <2>1, <1>2 DEF Fst, Snd
<1>3. ASSUME NEW a, NEW b, c.puts = <<a, b>> PROVE Fst(c) = a /\ Snd(c) = b
  <2>1. 1 \in DOMAIN <<a, b>> /\ 2 \in DOMAIN <<a, b>> /\ <<a, b>>[1] = a /\ <<a, b>>[2] = b OBVIOUS
  <2>. QED BY <2>1, <1>3 DEF Fst, Snd
<1>. QED BY <1>1, <1>2, <1>3

\* The three kinds of references.
LEMMA UsesHolds == ASSUME NEW w, NEW f, NEW c, NEW x
  PROVE  /\ Uses(w, f, c, x) => Holds(w, f, c, x)
         /\ Firm(w, f, c, x) => Holds(w, f, c, x)
         /\ Holds(w, f, c, x) => Uses(w, f, c, x) \/ (x = Fst(c) /\ c.pc \in Leaving) BY DEF Uses, Holds, Firm

\* Holds is the contrary of Apart.
LEMMA HoldsApart == ASSUME NEW w, NEW f, NEW c, NEW x \in Inums PROVE Holds(w, f, c, x) <=> ~Apart(w, f, c, x)
<1>1. x # 0 BY DEF Inums
<1>. QED BY <1>1 DEF Holds, Apart, Fst, Snd

\* What a process has to put at each stage.
LEMMA FstIs == ASSUME Tables, CallsOK, NEW p \in Procs
  PROVE  /\ k[p].pc \in Puts => Fst(k[p]) = Head(k[p].puts) /\ Fst(k[p]) \in Inums
         /\ k[p].pc \notin Puts => Fst(k[p]) = 0 /\ Snd(k[p]) = 0
<1>1. /\ k[p].pc \in Puts => Head(k[p].puts) \in Inums /\ 1 \in DOMAIN k[p].puts /\ k[p].puts[1] = Head(k[p].puts)
      /\ k[p].pc \notin Puts => k[p].puts = <<>> BY CallIs
<1>. QED BY <1>1, PutsOf DEF Fst

\* So RefsOK says.
LEMMA HoldersRef == Tables /\ RefsOK => HeldCounted
<1>1. SUFFICES ASSUME Tables, RefsOK, NEW p \in Procs, NEW x \in Inums, HeldBy(p, x)
               PROVE core[x].ref # 0 /\ core[x].ref \in Nat BY DEF HeldCounted
<1>2. ~NotBy(p, x) BY <1>1, HoldsApart
<1>. QED BY <1>1, <1>2, HeldRef

\* And so it is after a step.
LEMMA HoldersNext == ASSUME Inv'
  PROVE \A q \in Procs, x \in Inums : HeldBy(q, x)' => core'[x].ref # 0 /\ core'[x].ref \in Nat
<1>1. (Tables /\ RefsOK)' BY DEF Inv
<1>2. (Tables /\ RefsOK)' => HeldCounted' BY HoldersRef, PTL
<1>. QED BY <1>1, <1>2 DEF HeldCounted

\* The names of an inode are finitely many, and so are the links under way.
LEMMA NamesFinite == ASSUME NEW dn, NEW en, NEW K, NEW i
  PROVE  /\ IsFiniteSet(NamesOf(dn, en, i)) /\ NameCount(dn, en, i) \in Nat
         /\ IsFiniteSet(Linking(K, i)) /\ Cardinality(Linking(K, i)) \in Nat
<1>1. IsFiniteSet(Inums) BY FsAssumption, FS_Interval DEF Inums
<1>2. IsFiniteSet(Elements)
  <2>1. IsFiniteSet({DotDot}) /\ IsFiniteSet(Names) BY FsAssumption, FS_Singleton
  <2>. QED BY <2>1, FS_Union DEF Elements
<1>3. IsFiniteSet(Inums \X Elements) BY <1>1, <1>2, FS_Product
<1>4. NamesOf(dn, en, i) \in SUBSET (Inums \X Elements) /\ Linking(K, i) \in SUBSET Procs BY DEF NamesOf, Linking
<1>5. IsFiniteSet(Procs) BY FsAssumption
<1>6. IsFiniteSet(NamesOf(dn, en, i)) /\ IsFiniteSet(Linking(K, i)) BY <1>3, <1>4, <1>5, FS_Subset
<1>. QED BY <1>6, FS_CardinalityType

\* A finite set that loses or gains one element.
LEMMA CardSteps == ASSUME NEW S, NEW T, IsFiniteSet(S), IsFiniteSet(T)
  PROVE  /\ Cardinality(S) \in Nat /\ Cardinality(T) \in Nat
         /\ T \subseteq S => Cardinality(T) <= Cardinality(S)
         /\ \A e : T \subseteq S \cup {e} => Cardinality(T) <= Cardinality(S) + 1
         /\ \A e \in S : T \subseteq S \ {e} => Cardinality(T) + 1 <= Cardinality(S)
<1>1. Cardinality(S) \in Nat /\ Cardinality(T) \in Nat BY FS_CardinalityType
<1>2. T \subseteq S => Cardinality(T) <= Cardinality(S) BY FS_Subset
<1>3. ASSUME NEW e, T \subseteq S \cup {e} PROVE Cardinality(T) <= Cardinality(S) + 1
  <2>1. /\ IsFiniteSet(S \cup {e})
        /\ Cardinality(S \cup {e}) = IF e \in S THEN Cardinality(S) ELSE Cardinality(S) + 1 BY FS_AddElement
  <2>2. Cardinality(T) <= Cardinality(S \cup {e}) BY <2>1, <1>3, FS_Subset
  <2>. QED BY <2>1, <2>2, <1>1
<1>4. ASSUME NEW e \in S, T \subseteq S \ {e} PROVE Cardinality(T) + 1 <= Cardinality(S)
  <2>1. /\ IsFiniteSet(S \ {e})
        /\ Cardinality(S \ {e}) = IF e \in S THEN Cardinality(S) - 1 ELSE Cardinality(S) BY FS_RemoveElement
  <2>2. Cardinality(T) <= Cardinality(S \ {e}) BY <2>1, <1>4, FS_Subset
  <2>. QED BY <2>1, <2>2, <1>1
<1>. QED BY <1>1, <1>2, <1>3, <1>4

\* The subdirectories of a directory are finitely many.
LEMMA SubsFinite ==
  ASSUME NEW dn, NEW en, NEW i PROVE IsFiniteSet(Subs(dn, en, i)) /\ Cardinality(Subs(dn, en, i)) \in Nat
<1>1. Subs(dn, en, i) \subseteq Names /\ IsFiniteSet(Names) BY FsAssumption DEF Subs
<1>. QED BY <1>1, FS_Subset, FS_CardinalityType

\* They are the same in two disks with the same kinds, if the names are.
LEMMA SubsSame ==
  ASSUME NEW dn, NEW dm, NEW en, NEW em, NEW i, \A x \in Inums : dm[x].type = dn[x].type,
         \A n \in Names : em[i][n] = en[i][n] /\ en[i][n] \in {0} \cup Inums
  PROVE Subs(dm, em, i) = Subs(dn, en, i)
<1>1. ASSUME NEW n \in Names
      PROVE (em[i][n] # 0 /\ dm[em[i][n]].type = "dir") <=> (en[i][n] # 0 /\ dn[en[i][n]].type = "dir")
  OBVIOUS
<1>. QED BY <1>1 DEF Subs

\* What an entry names has links, but perhaps for the ".." of a directory without links,
\* and the root has.
LEMMA NamedIs == ASSUME Inv, Kept
  PROVE  /\ \A d \in Inums, n \in Elements, i \in Inums :
              ents[d][n] = i /\ (n # DotDot \/ dino[d].nlink >= 1) => dino[i].nlink >= 1
         /\ Root \in Inums /\ dino[Root].nlink >= 1 /\ dino[Root].type = "dir"
         /\ \A i \in Inums : dino[i].nlink >= 0 /\ dino[i].nlink \in Int
         /\ \A i \in Inums : dino[i].nlink >= 1 => dino[i].type # "free"
         /\ \A p \in Procs : k[p].old \in Inums => dino[k[p].old].nlink >= 1
<1>0. Root \in Inums BY FsAssumption DEF Inums, Root
<1>1. dino \in [Inums -> Inodes] /\ \A i \in Inums : dino[i].nlink \in Int BY DEF Inv, Tables, Inodes
<1>2. ASSUME NEW i \in Inums
      PROVE  /\ Counted(dino, ents, k, i)
             /\ NameCount(dino, ents, i) \in Nat /\ Cardinality(Linking(k, i)) \in Nat /\ Has(i, Root) \in Nat
  BY NamesFinite, HasIs DEF Kept, NlinksOK
<1>a. ASSUME NEW m \in Int, NEW a \in Nat, NEW b \in Nat, NEW c \in Nat, m >= a + b + c, a # 0 \/ b # 0 \/ c # 0
      PROVE m >= 1 BY <1>a
<1>3. ASSUME NEW i \in Inums PROVE dino[i].nlink >= 0 BY <1>1, <1>2
<1>4. dino[Root].nlink >= 1
  <2>1. Has(Root, Root) = 1 BY DEF Has
  <2>. QED BY <2>1, <1>0, <1>1, <1>2
<1>5. ASSUME NEW d \in Inums, NEW n \in Elements, NEW i \in Inums, ents[d][n] = i, n # DotDot \/ dino[d].nlink >= 1
      PROVE dino[i].nlink >= 1
  <2>1. CASE n = DotDot /\ d = i BY <1>5, <2>1
  <2>2. CASE ~(n = DotDot /\ d = i)
    <3>1. dino[d].type = "dir"
      <4>1. EmptyDir[n] = 0 /\ i # 0 BY DEF EmptyDir, Inums
      <4>. QED BY <4>1, <1>5 DEF Inv, DisksOK, DiskOK
    <3>a. n = DotDot => dino[d].nlink > 0 /\ d # i BY <1>1, <1>5, <2>2
    <3>2. <<d, n>> \in NamesOf(dino, ents, i) BY <3>1, <3>a, <1>5 DEF NamesOf
    <3>3. IsFiniteSet(NamesOf(dino, ents, i)) BY NamesFinite
    <3>4. NameCount(dino, ents, i) # 0 BY <3>2, <3>3, FS_EmptySet
    <3>. QED BY <3>4, <1>1, <1>2, <1>a
  <2>. QED BY <2>1, <2>2
<1>6. ASSUME NEW i \in Inums, dino[i].nlink >= 1 PROVE dino[i].type # "free"
  <2>1. dino[i].type = "free" => dino[i] = FreeInode BY DEF Inv, DisksOK, DiskOK
  <2>2. FreeInode.nlink = 0 BY DEF FreeInode
  <2>. QED BY <2>1, <2>2, <1>6
<1>7. ASSUME NEW p \in Procs, k[p].old \in Inums PROVE dino[k[p].old].nlink >= 1
  <2>. DEFINE i == k[p].old
  <2>1. p \in Linking(k, i) BY DEF Linking
  <2>2. i \in Inums BY <1>7
  <2>. HIDE DEF i
  <2>3. IsFiniteSet(Linking(k, i)) BY NamesFinite
  <2>4. Cardinality(Linking(k, i)) # 0 BY <2>1, <2>3, FS_EmptySet
  <2>5. dino[i].nlink >= 1 BY <2>2, <2>4, <1>1, <1>2, <1>a
  <2>. QED BY <2>5 DEF i
<1>8. dino[Root].type = "dir" BY DEF Kept, BothTree, Tree
<1>. QED BY <1>0, <1>1, <1>3, <1>4, <1>5, <1>6, <1>7, <1>8

\* So has what a ".." names, if its directory and the one it names are not both removed.
LEMMA FoundIs ==
  ASSUME Inv, Kept, NEW d \in Inums, NEW n \in Elements, NEW i \in Inums, ents[d][n] = i,
         n = DotDot => ~Lost(d) PROVE dino[i].nlink >= 1
<1>1. dino[i].nlink >= 0 /\ dino[i].nlink \in Int /\ dino[d].nlink >= 0 /\ dino[d].nlink \in Int /\ i # 0
  BY NamedIs DEF Inums
<1>2. CASE n # DotDot \/ dino[d].nlink >= 1 BY <1>2, NamedIs
<1>3. CASE n = DotDot /\ ~(dino[d].nlink >= 1)
  <2>1. dino[d].nlink = 0 BY <1>1, <1>3
  <2>2. dino[i].nlink # 0 BY <2>1, <1>1, <1>3 DEF Lost
  <2>. QED BY <2>2, <1>1
<1>. QED BY <1>2, <1>3

----
(* What a step of p has to show of the references *)

\* InUse, if no inode becomes free that somebody still uses.
LEMMA InUseStep ==
  ASSUME Inv, Kept, NEW p \in Procs, Others(p), Takes(p),
         \A x \in Inums : Made(p, x) => dino'[x].type # "free",
         \A x \in Inums : \/ dino[x].type = "free" \/ dino'[x].type # "free"
                          \/ \A q \in Procs : ~UsedBy(q, x)' PROVE InUse'
<1>1. ASSUME NEW q \in Procs, NEW x \in Inums, UsedBy(q, x)' PROVE dino'[x].type # "free"
  <2>1. CASE q = p
    <3>1. dino[x].type # "free" \/ Made(p, x) BY <1>1, <2>1, NamedIs DEF Takes, Kept, InUse
    <3>. QED BY <3>1, <1>1
  <2>2. CASE q # p
    <3>1. UsedBy(q, x) BY <1>1, <2>2 DEF Others
    <3>2. dino[x].type # "free" BY <3>1 DEF Kept, InUse
    <3>. QED BY <3>2, <1>1
  <2>. QED BY <2>1, <2>2
<1>. QED BY <1>1 DEF InUse

\* Parented, if p comes to directories through names, and no directory in use loses its "..".
LEMMA ParentedStep ==
  ASSUME Inv, Kept, NEW p \in Procs, Others(p),
         \A x \in Inums : Treads(cwd'[p], k'[p], x) => Treads(cwd[p], k[p], x) \/ dino[x].nlink >= 1,
         \A x \in Inums : dino'[x].type = "dir" => \/ dino[x].type = "dir" /\ (ents'[x][DotDot] # 0 \/ ents'[x][DotDot] = ents[x][DotDot])
                                                 \/ \A q \in Procs : ~Treads(cwd'[q], k'[q], x)
  PROVE Parented'
<1>1. ASSUME NEW q \in Procs, NEW x \in Inums, Treads(cwd'[q], k'[q], x), dino'[x].type = "dir"
      PROVE ents'[x][DotDot] # 0
  <2>1. dino[x].type = "dir" /\ (ents'[x][DotDot] # 0 \/ ents'[x][DotDot] = ents[x][DotDot]) BY <1>1
  <2>2. Treads(cwd[q], k[q], x) \/ dino[x].nlink >= 1 BY <1>1 DEF Others
  <2>3. CASE Treads(cwd[q], k[q], x) BY <2>1, <2>3 DEF Kept, Parented
  <2>4. CASE dino[x].nlink >= 1 BY <2>1, <2>4 DEF Kept, BothTree, Tree
  <2>. QED BY <2>2, <2>3, <2>4
<1>. QED BY <1>1 DEF Parented

\* Fresh, if nobody touches the inodes the others are making.
LEMMA FreshStep ==
  ASSUME Inv, Kept, NEW p \in Procs, Others(p), Takes(p),
         \A x \in Inums : (dino'[x].nlink = dino[x].nlink /\ ents'[x] = ents[x]) \/ NotNew(p, x),
         k'[p].pc = "new" => /\ dino'[k'[p].ip].nlink = 0 /\ ents'[k'[p].ip] = EmptyDir
                             /\ k'[p].ip \notin {cwd'[p], fd'[p]} /\ Head(k'[p].path) # DotDot
                             /\ \A q \in Procs \ {p} : ~Uses(cwd[q], fd[q], k[q], k'[p].ip) PROVE Fresh'
<1>0. \A q \in Procs : k[q].pc = "new" => k[q].ip \in Inums BY OthersAre DEF Inv
<1>1. ASSUME NEW q \in Procs, k'[q].pc = "new"
      PROVE  /\ dino'[k'[q].ip].nlink = 0 /\ ents'[k'[q].ip] = EmptyDir
             /\ k'[q].ip \notin {cwd'[q], fd'[q]} /\ Head(k'[q].path) # DotDot
             /\ \A s \in Procs \ {q} : ~Uses(cwd'[s], fd'[s], k'[s], k'[q].ip)
  <2>1. CASE q = p BY <1>1, <2>1 DEF Others
  <2>2. CASE q # p
    <3>1. k[q].pc = "new" /\ k'[q] = k[q] /\ cwd'[q] = cwd[q] /\ fd'[q] = fd[q] /\ q \in Procs \ {p}
      BY <1>1, <2>2 DEF Others
    <3>2. PICK i \in Inums : i = k[q].ip BY <3>1, <1>0
    <3>3. /\ dino[i].nlink = 0 /\ ents[i] = EmptyDir /\ i \notin {cwd[q], fd[q]} /\ Head(k[q].path) # DotDot
          /\ \A s \in Procs \ {q} : ~UsedBy(s, i) BY <3>1, <3>2 DEF Kept, Fresh
    <3>4. dino'[i].nlink = dino[i].nlink /\ ents'[i] = ents[i]
      <4>1. ~NotNew(p, i) BY <3>1, <3>2 DEF NotNew
      <4>. QED BY <4>1
    <3>5. dino[i].type # "free"
      <4>1. UsedBy(q, i) BY <3>2 DEF Uses
      <4>. QED BY <4>1 DEF Kept, InUse
    <3>6. ASSUME NEW s \in Procs \ {q} PROVE ~Uses(cwd'[s], fd'[s], k'[s], i)
      <4>1. CASE s = p
        <5>1. ~Made(p, i) /\ ~(dino[i].nlink >= 1) BY <3>3, <3>5 DEF Made
        <5>. QED BY <4>1, <5>1, <3>3, <2>2 DEF Takes
      <4>2. CASE s # p BY <4>2, <3>3 DEF Others
      <4>. QED BY <4>1, <4>2
    <3>. QED BY <3>1, <3>2, <3>3, <3>4, <3>6
  <2>. QED BY <2>1, <2>2
<1>. QED BY <1>1 DEF Fresh

\* Going, if nobody touches or takes the inodes the others are freeing.
LEMMA GoingStep ==
  ASSUME Inv, Kept, NEW p \in Procs, Others(p), Takes(p),
         \A x \in Inums : dino'[x].nlink = dino[x].nlink \/ NotGoing(p, x),
         k[p].pc = "new" => lock[k[p].ip] = None,
         k'[p].pc \in {"free", "invalid"} =>
           /\ dino'[Fst(k'[p])].nlink = 0
           /\ Fst(k'[p]) \notin {cwd'[p], fd'[p], k'[p].ip, k'[p].dp, k'[p].old, Snd(k'[p])}
           /\ \A q \in Procs \ {p} : Holds(cwd[q], fd[q], k[q], Fst(k'[p])) =>
                k'[p].pc = "invalid" /\ k[q].pc = "new" /\ k[q].ip = Fst(k'[p]) PROVE Going'
<1>1. ASSUME NEW q \in Procs, k'[q].pc \in {"free", "invalid"}
      PROVE  /\ dino'[Fst(k'[q])].nlink = 0
             /\ Fst(k'[q]) \notin {cwd'[q], fd'[q], k'[q].ip, k'[q].dp, k'[q].old, Snd(k'[q])}
             /\ \A s \in Procs \ {q} : Holds(cwd'[s], fd'[s], k'[s], Fst(k'[q])) =>
                  k'[q].pc = "invalid" /\ k'[s].pc = "new" /\ k'[s].ip = Fst(k'[q])
  <2>1. CASE q = p BY <1>1, <2>1 DEF Others
  <2>2. CASE q # p
    <3>1. /\ k[q].pc \in {"free", "invalid"} /\ k'[q] = k[q] /\ cwd'[q] = cwd[q] /\ fd'[q] = fd[q]
          /\ q \in Procs \ {p} BY <1>1, <2>2 DEF Others
    <3>2. PICK i \in Inums : i = Fst(k[q]) /\ i = Head(k[q].puts) BY <3>1, FstIs DEF Inv, Puts
    <3>3. /\ dino[i].nlink = 0 /\ i \notin {cwd[q], fd[q], k[q].ip, k[q].dp, k[q].old, Snd(k[q])}
          /\ \A s \in Procs \ {q} : HeldBy(s, i) =>
               k[q].pc = "invalid" /\ k[s].pc = "new" /\ k[s].ip = i
      <4>1. Going BY DEF Kept
      <4>2. /\ dino[Fst(k[q])].nlink = 0 /\ Fst(k[q]) \notin {cwd[q], fd[q], k[q].ip, k[q].dp, k[q].old, Snd(k[q])}
            /\ \A s \in Procs \ {q} : Holds(cwd[s], fd[s], k[s], Fst(k[q])) =>
                 k[q].pc = "invalid" /\ k[s].pc = "new" /\ k[s].ip = Fst(k[q]) BY <4>1, <3>1, Zenon DEF Going
      <4>. QED BY <4>2, <3>2
    <3>4. dino'[i].nlink = dino[i].nlink
      <4>1. ~NotGoing(p, i) BY <3>1, <3>2 DEF NotGoing
      <4>. QED BY <4>1
    <3>5. k[q].pc = "free" => dino[i].type # "free"
      <4>1. k[q].pc = "free" => UsedBy(q, i) BY <3>2 DEF Uses, Leaving
      <4>. QED BY <4>1 DEF Kept, InUse
    <3>6. ~HeldBy(p, i)
      <4>1. lock[i] = q BY <3>1, <3>2 DEF Inv, LocksOK, Owns
      <4>2. q # None BY FsAssumption
      <4>3. p \in Procs \ {q} BY <2>2
      <4>4. HeldBy(p, i) => k[p].pc = "new" /\ k[p].ip = i BY <3>3, <4>3
      <4>. QED BY <4>1, <4>2, <4>4
    <3>7. ASSUME NEW s \in Procs \ {q}, Holds(cwd'[s], fd'[s], k'[s], i)
          PROVE k[q].pc = "invalid" /\ k'[s].pc = "new" /\ k'[s].ip = i
      <4>1. CASE s = p
        <5>1. Holds(cwd'[p], fd'[p], k'[p], i) /\ ~(dino[i].nlink >= 1) BY <3>3, <3>7, <4>1
        <5>2. Made(p, i) BY <5>1, <3>6 DEF Takes
        <5>. QED BY <5>2, <4>1, <3>1, <3>5 DEF Made
      <4>2. CASE s # p
        <5>1. k'[s] = k[s] /\ cwd'[s] = cwd[s] /\ fd'[s] = fd[s] BY <4>2 DEF Others
        <5>. QED BY <5>1, <3>3, <3>7
      <4>. QED BY <4>1, <4>2
    <3>. QED BY <3>1, <3>2, <3>3, <3>4, <3>7
  <2>. QED BY <2>1, <2>2
<1>. QED BY <1>1 DEF Going

\* Read, if a copy becomes invalid only when nobody has the inode any more.
LEMMA ReadStep ==
  ASSUME Inv, Kept, NEW p \in Procs, Others(p),
         \A x \in Inums : FirmBy(p, x)' => FirmNow(p, x),
         \A x \in Inums : core[x].valid => core'[x].valid \/ \A q \in Procs : ~FirmBy(q, x)'
  PROVE Read'
<1>1. ASSUME NEW q \in Procs, NEW x \in Inums, FirmBy(q, x)' PROVE x = Root \/ core'[x].valid
  <2>1. CASE q = p
    <3>1. FirmBy(p, x) => x = Root \/ core[x].valid BY DEF Kept, Read
    <3>. QED BY <1>1, <2>1, <3>1
  <2>2. CASE q # p
    <3>1. FirmBy(q, x) BY <1>1, <2>2 DEF Others
    <3>2. x = Root \/ core[x].valid BY <3>1 DEF Kept, Read
    <3>. QED BY <3>2, <1>1
  <2>. QED BY <2>1, <2>2
<1>. QED BY <1>1 DEF Read

\* Gone, if free inodes become allocated in the hands of p only, which then has read them.
LEMMA GoneStep ==
  ASSUME Inv, Kept, NEW p \in Procs, Others(p),
         \A x \in Inums : dino[x].type = "free" => dino'[x].type = "free" \/ Made(p, x),
         \A x \in Inums : core[x].valid => core'[x].valid \/ \A q \in Procs \ {p} : k[q].pc = "drop" => Fst(k[q]) # x,
         k[p].pc = "new" => lock[k[p].ip] = None /\ core'[k[p].ip].valid,
         k'[p].pc \in Leaving => \/ dino'[Fst(k'[p])].type = "free"
                                 \/ k'[p].pc = "drop" /\ core'[Fst(k'[p])].valid
                                 \/ \E q \in Procs \ {p} : k[q].pc = "new" /\ k[q].ip = Fst(k'[p]) PROVE Gone'
<1>1. ASSUME NEW q \in Procs, k'[q].pc \in Leaving
      PROVE  \/ dino'[Fst(k'[q])].type = "free"
             \/ k'[q].pc = "drop" /\ core'[Fst(k'[q])].valid
             \/ \E s \in Procs : k'[s].pc = "new" /\ k'[s].ip = Fst(k'[q])
  <2>1. CASE q = p BY <1>1, <2>1 DEF Others
  <2>2. CASE q # p
    <3>1. k[q].pc \in Leaving /\ k'[q] = k[q] /\ q \in Procs \ {p} BY <1>1, <2>2 DEF Others
    <3>2. PICK i \in Inums : i = Fst(k[q]) /\ i = Head(k[q].puts) BY <3>1, FstIs DEF Inv, Puts, Leaving
    <3>3. \/ dino[i].type = "free"
          \/ k[q].pc = "drop" /\ core[i].valid
          \/ \E s \in Procs : k[s].pc = "new" /\ k[s].ip = i
      <4>1. Gone BY DEF Kept
      <4>2. \/ dino[Fst(k[q])].type = "free"
            \/ k[q].pc = "drop" /\ core[Fst(k[q])].valid
            \/ \E s \in Procs : k[s].pc = "new" /\ k[s].ip = Fst(k[q]) BY <4>1, <3>1, Zenon DEF Gone
      <4>. QED BY <4>2, <3>2
    <3>4. CASE dino[i].type = "free"
      <4>1. dino'[i].type = "free" \/ Made(p, i) BY <3>4
      <4>. QED BY <4>1, <3>1, <3>2 DEF Made
    <3>5. CASE k[q].pc = "drop" /\ core[i].valid
      <4>1. core'[i].valid BY <3>1, <3>2, <3>5
      <4>. QED BY <4>1, <3>1, <3>2, <3>5
    <3>6. CASE \E s \in Procs : k[s].pc = "new" /\ k[s].ip = i
      <4>1. PICK s \in Procs : k[s].pc = "new" /\ k[s].ip = i BY <3>6
      <4>2. CASE s = p
        <5>1. lock[i] = None /\ core'[i].valid BY <4>1, <4>2
        <5>2. k[q].pc # "invalid"
          <6>1. k[q].pc = "invalid" => lock[i] = q BY <3>1, <3>2 DEF Inv, LocksOK, Owns
          <6>2. q # None BY FsAssumption
          <6>. QED BY <6>1, <6>2, <5>1
        <5>3. k[q].pc = "drop" BY <5>2, <3>1 DEF Leaving
        <5>. QED BY <5>1, <5>3, <3>1, <3>2
      <4>3. CASE s # p
        <5>1. k'[s] = k[s] BY <4>3 DEF Others
        <5>. QED BY <5>1, <4>1, <3>1, <3>2
      <4>. QED BY <4>2, <4>3
    <3>. QED BY <3>3, <3>4, <3>5, <3>6
  <2>. QED BY <2>1, <2>2
<1>. QED BY <1>1 DEF Gone

\* The links are the names that the runs count.
LEMMA NamesIs == ASSUME NEW i PROVE NamesOf(dino, ents, i) = Links(i) BY DEF NamesOf, Links

\* The names of an inode depend on the kinds, the links and the entries only.
LEMMA TreeSame == ASSUME Inv, Kept, SameNames
  PROVE BothTree' /\ StableNlinks' /\ \A i : NamesOf(dino', ents', i) = NamesOf(dino, ents, i)
<1>1. Tree(dino', ents')
  <2>1. \A x \in Inums : dino'[x].type = dino[x].type /\ dino'[x].nlink = dino[x].nlink BY DEF SameNames
  <2>2. ents' = ents /\ \A x \in Inums, n \in Names : ents[x][n] \in {0} \cup Inums
    BY DEF SameNames, Inv, Tables, Elements
  <2>3. \A x \in Inums : Subs(dino', ents', x) = Subs(dino, ents, x) BY <2>1, <2>2, SubsSame
  <2>4. Root \in Inums BY FsAssumption DEF Inums, Root
  <2>. QED BY <2>1, <2>2, <2>3, <2>4 DEF Kept, BothTree, Tree
<1>2. Tree(stable'[1], stable'[2]) /\ StableNlinks'
  <2>1. CASE stable' = stable BY <2>1 DEF Kept, BothTree, StableNlinks
  <2>2. CASE stable' = diskVars
    <3>1. stable'[1] = dino /\ stable'[2] = ents BY <2>2 DEF diskVars
    <3>2. ASSUME NEW i \in Inums PROVE dino[i].nlink >= NameCount(dino, ents, i) + Has(i, Root)
      <4>. DEFINE v == NameCount(dino, ents, i)
                  x == Cardinality(Linking(k, i))
                  h == Has(i, Root)
                  n == dino[i].nlink
      <4>1. n >= v + x + h /\ n \in Int BY DEF Kept, NlinksOK, Inv, Tables, Inodes
      <4>2. v \in Nat /\ x \in Nat /\ h \in Nat BY NamesFinite, HasIs
      <4>. HIDE DEF v, x, h, n
      <4>3. n >= v + h BY <4>1, <4>2
      <4>. QED BY <4>3 DEF v, h, n
    <3>3. StableNlinks' BY <3>1, <3>2 DEF StableNlinks
    <3>. QED BY <3>1, <3>3 DEF Kept, BothTree
  <2>. QED BY <2>1, <2>2 DEF SameNames
<1>3. ASSUME NEW i PROVE NamesOf(dino', ents', i) = NamesOf(dino, ents, i) BY DEF SameNames, NamesOf
<1>. QED BY <1>1, <1>2, <1>3 DEF BothTree

\* The links under way, when p starts none.
LEMMA LinkingLess == ASSUME NEW p \in Procs, Others(p), k'[p].old \in {0, k[p].old}, NEW i \in Inums
  PROVE Linking(k', i) \subseteq Linking(k, i)
<1>1. i # 0 BY DEF Inums
<1>2. ASSUME NEW q \in Procs, k'[q].old = i PROVE k[q].old = i
  <2>1. CASE q = p BY <2>1, <1>1, <1>2
  <2>2. CASE q # p BY <2>2, <1>2 DEF Others
  <2>. QED BY <2>1, <2>2
<1>. QED BY <1>2 DEF Linking

\* NlinksOK, if for every inode nlink changes by no less than its names and its
\* links under way do.
LEMMA LinksStep ==
  ASSUME Kept, NEW i \in Inums, NEW a \in Int, NEW b \in Int, NEW m \in Int, NEW n \in Int, b + m <= a,
         dino[i].nlink = n, dino'[i].nlink >= n + a, dino'[i].nlink \in Int,
         NameCount(dino', ents', i) <= NameCount(dino, ents, i) + b,
         Cardinality(Linking(k', i)) <= Cardinality(Linking(k, i)) + m
  PROVE Counted(dino', ents', k', i)
<1>. DEFINE v == NameCount(dino, ents, i)
            x == Cardinality(Linking(k, i))
            h == Has(i, Root)
            v1 == NameCount(dino', ents', i)
            x1 == Cardinality(Linking(k', i))
            n1 == dino'[i].nlink
<1>1. n >= v + x + h BY DEF Kept, NlinksOK
<1>2. v \in Nat /\ x \in Nat BY NamesFinite
<1>3. v1 \in Nat /\ x1 \in Nat BY NamesFinite
<1>4. h \in Nat BY HasIs
<1>5. v1 <= v + b /\ x1 <= x + m /\ n1 >= n + a /\ n1 \in Int OBVIOUS
<1>. HIDE DEF v, x, h, v1, x1, n1
<1>6. n1 >= v1 + x1 + h BY <1>1, <1>2, <1>3, <1>4, <1>5
<1>. QED BY <1>6 DEF v1, x1, n1, h

\* In particular if neither names nor links under way become more, and nlink does not
\* become less.
LEMMA LinksLess ==
  ASSUME Inv, Kept, NEW i \in Inums, dino'[i].nlink = dino[i].nlink,
         NamesOf(dino', ents', i) \subseteq NamesOf(dino, ents, i), Linking(k', i) \subseteq Linking(k, i)
  PROVE Counted(dino', ents', k', i)
<1>1. dino[i].nlink \in Int BY DEF Inv, Tables, Inodes
<1>2. IsFiniteSet(NamesOf(dino, ents, i)) /\ IsFiniteSet(NamesOf(dino', ents', i)) BY NamesFinite
<1>3. IsFiniteSet(Linking(k, i)) /\ IsFiniteSet(Linking(k', i)) BY NamesFinite
<1>4. /\ NameCount(dino', ents', i) <= NameCount(dino, ents, i)
      /\ NameCount(dino', ents', i) \in Nat /\ NameCount(dino, ents, i) \in Nat
  BY <1>2, CardSteps
<1>5. /\ Cardinality(Linking(k', i)) <= Cardinality(Linking(k, i))
      /\ Cardinality(Linking(k', i)) \in Nat /\ Cardinality(Linking(k, i)) \in Nat BY <1>3, CardSteps
<1>6. PICK n \in Int : n = dino[i].nlink BY <1>1
<1>7. /\ NameCount(dino', ents', i) <= NameCount(dino, ents, i) + 0
      /\ Cardinality(Linking(k', i)) <= Cardinality(Linking(k, i)) + 0
      /\ dino'[i].nlink >= n + 0 /\ dino[i].nlink = n /\ dino'[i].nlink \in Int /\ 0 + 0 <= 0 /\ 0 \in Int
  BY <1>4, <1>5, <1>6
<1>. QED BY <1>7, LinksStep

\* Accounted, if an inode without names has a holder after the step, or had one
\* that it has not lost.
LEMMA OrphansStep ==
  ASSUME Inv', Kept, NEW p \in Procs, ~booting, missed \subseteq missed',
         \A x \in Inums : dino'[x].type # "free" /\ dino'[x].nlink = 0 =>
           \/ HeldBy(p, x)' \/ x \in missed'
           \/ /\ dino[x].type # "free" /\ dino[x].nlink = 0
              /\ core[x].ref > 0 => core'[x].ref # 0 PROVE Accounted'
<1>1. \A q \in Procs, x \in Inums : HeldBy(q, x)' => core'[x].ref # 0 /\ core'[x].ref \in Nat
  BY HoldersNext
<1>2. ASSUME NEW x \in Inums, dino'[x].type # "free", dino'[x].nlink = 0 PROVE core'[x].ref > 0 \/ x \in missed'
  <2>1. core'[x].ref \in Nat BY DEF Inv, Tables, Cores
  <2>2. CASE HeldBy(p, x)' BY <2>1, <2>2, <1>1
  <2>3. CASE dino[x].type # "free" /\ dino[x].nlink = 0 /\ (core[x].ref > 0 => core'[x].ref # 0)
    <3>1. core[x].ref > 0 \/ x \in missed BY <2>3 DEF Kept, Accounted, Nameless
    <3>. QED BY <3>1, <2>1, <2>3
  <2>. QED BY <2>2, <2>3, <1>2
<1>. QED BY <1>2 DEF Accounted, Nameless

\* Names and links after a step that leaves the names alone and starts no link.
LEMMA NamesKept == ASSUME Inv, Kept, NEW p \in Procs, Others(p), SameNames, k'[p].old \in {0, k[p].old}
  PROVE BothTree' /\ StableNlinks' /\ NlinksOK'
<1>1. BothTree' /\ StableNlinks' /\ \A i : NamesOf(dino', ents', i) = NamesOf(dino, ents, i) BY TreeSame
<1>2. ASSUME NEW i \in Inums
      PROVE Counted(dino', ents', k', i)
  <2>1. Linking(k', i) \subseteq Linking(k, i) BY LinkingLess
  <2>2. dino'[i].nlink = dino[i].nlink /\ NamesOf(dino', ents', i) \subseteq NamesOf(dino, ents, i)
    BY <1>1 DEF SameNames
  <2>. QED BY <2>1, <2>2, LinksLess
<1>. QED BY <1>1, <1>2 DEF NlinksOK

\* The invariant after such a step.
LEMMA PlainKept == ASSUME Inv, Kept, Inv', NEW p \in Procs, Plain(p) PROVE Kept'
<1>1. \A q \in Procs, x \in Inums : HeldBy(q, x)' => core'[x].ref # 0 /\ core'[x].ref \in Nat
  BY HoldersNext
<1>2. BothTree' /\ StableNlinks' /\ NlinksOK' BY NamesKept DEF Plain
<1>3. Parented'
  <2>1. \A x \in Inums : dino'[x].type = dino[x].type /\ ents'[x] = ents[x] BY DEF Plain, SameNames
  <2>2. \A x \in Inums : Treads(cwd'[p], k'[p], x) => Treads(cwd[p], k[p], x) \/ dino[x].nlink >= 1 BY DEF Plain
  <2>3. Others(p) BY DEF Plain
  <2>. QED BY <2>1, <2>2, <2>3, ParentedStep
<1>5. Others(p) /\ Takes(p) /\ \A x \in Inums : dino'[x].type = dino[x].type /\ dino'[x].nlink = dino[x].nlink /\ ents'[x] = ents[x]
  BY DEF Plain, SameNames
<1>6. k'[p].pc \notin {"new", "free", "invalid", "drop"} /\ k[p].pc # "new" /\ k'[p].pc \notin Leaving
  BY DEF Plain, Leaving
<1>7. InUse'
  <2>1. \A x \in Inums : ~Made(p, x) BY <1>6 DEF Made
  <2>2. \A x \in Inums : dino[x].type = "free" \/ dino'[x].type # "free" BY <1>5
  <2>. QED BY <1>5, <2>1, <2>2, InUseStep
<1>8. Fresh' BY <1>5, <1>6, FreshStep
<1>9. Going' BY <1>5, <1>6, GoingStep
<1>10. \A x \in Inums : core[x].valid => core'[x].valid \/ \A q \in Procs : ~HeldBy(q, x)'
  BY <1>1 DEF Plain
<1>11. Read'
  <2>1. \A x \in Inums : core[x].valid => core'[x].valid \/ \A q \in Procs : ~FirmBy(q, x)'
    BY <1>10, UsesHolds
  <2>2. \A x \in Inums : FirmBy(p, x)' => FirmNow(p, x)
    BY DEF Plain
  <2>. QED BY <1>5, <2>1, <2>2, ReadStep
<1>12. Gone'
  <2>1. ASSUME NEW x \in Inums, core[x].valid
        PROVE core'[x].valid \/ \A q \in Procs \ {p} : k[q].pc = "drop" => Fst(k[q]) # x
    <3>1. ASSUME NEW q \in Procs \ {p}, Fst(k[q]) = x PROVE HeldBy(q, x)'
      BY <3>1, <1>5 DEF Others, Holds
    <3>. QED BY <3>1, <2>1, <1>10
  <2>2. \A x \in Inums : dino[x].type = "free" => dino'[x].type = "free" BY <1>5
  <2>. QED BY <1>5, <1>6, <2>1, <2>2, GoneStep
<1>13. NoPanic' /\ AtRoot' BY DEF Plain, Kept, NoPanic, AtRoot
<1>14. Accounted'
  <2>1. ASSUME NEW x \in Inums, dino'[x].type # "free", dino'[x].nlink = 0
        PROVE  x \in missed' \/ /\ dino[x].type # "free" /\ dino[x].nlink = 0
                                /\ core[x].ref > 0 => core'[x].ref # 0 BY <2>1, <1>5 DEF Plain
  <2>2. ~booting /\ missed \subseteq missed' BY DEF Plain
  <2>. QED BY <2>1, <2>2, OrphansStep
<1>. QED BY <1>2, <1>3, <1>7, <1>8, <1>9, <1>11, <1>12, <1>13, <1>14 DEF Kept

----
(* Steps that neither make, name nor free an inode *)

\* A step of a call that puts nothing yet: what it holds after it, it held or found by name.
LEMMA PlainMove ==
  ASSUME Inv, Kept, Inv', NEW p \in Procs, Others(p), SameNames, Grows, Steady,
         k[p].pc \notin Puts, k[p].pc # "new", k'[p].pc \notin {"new", "free", "invalid", "drop"},
         k'[p].old \in {0, k[p].old},
         \A x \in Inums : Treads(cwd'[p], k'[p], x) => Treads(cwd[p], k[p], x) \/ dino[x].nlink >= 1,
         \A x \in Inums : HeldBy(p, x)' => HeldBy(p, x) \/ dino[x].nlink >= 1,
         \A x \in Inums : FirmBy(p, x)' => FirmNow(p, x)
  PROVE Kept'
<1>1. ASSUME NEW x \in Inums
      PROVE  /\ UsedBy(p, x) <=> HeldBy(p, x)
             /\ UsedBy(p, x)' => HeldBy(p, x)'
  <2>1. k[p].pc \notin Leaving BY DEF Puts, Leaving
  <2>. QED BY <2>1, UsesHolds
<1>2. Takes(p) BY <1>1 DEF Takes
<1>3. \A x \in Inums : core[x].valid => core'[x].valid \/ core'[x].ref = 0 BY DEF Grows
<1>4. \A x \in Inums : core[x].ref > 0 /\ core'[x].ref = 0 => FALSE BY DEF Grows
<1>5. Plain(p) BY <1>2, <1>3, <1>4 DEF Plain, Steady
<1>. QED BY <1>5, PlainKept

\* The call that ends, as PutThen has it.
LEMMA EndedIs == ASSUME Tables, NEW p \in Procs, NEW a \in Inums, NEW b \in Inums
  PROVE  /\ k' = [k EXCEPT ![p] = PutThen(p, <<>>, "done")] => Ended(p, 0, 0)
         /\ k' = [k EXCEPT ![p] = PutThen(p, <<a>>, "done")] => Ended(p, a, 0)
         /\ k' = [k EXCEPT ![p] = PutThen(p, <<a, b>>, "done")] => Ended(p, a, b)
<1>1. k \in [Procs -> CallRecords] BY DEF Tables
<1>2. ASSUME NEW r, k' = [k EXCEPT ![p] = r] PROVE k'[p] = r /\ \A q \in Procs \ {p} : k'[q] = k[q] BY <1>1, <1>2
<1>3. ASSUME k' = [k EXCEPT ![p] = PutThen(p, <<>>, "done")] PROVE Ended(p, 0, 0)
  <2>1. k'[p] = PutThen(p, <<>>, "done") /\ \A q \in Procs \ {p} : k'[q] = k[q] BY <1>2, <1>3, Zenon
  <2>2. /\ k'[p].pc = "done" /\ k'[p].op = "none" /\ k'[p].ip = 0 /\ k'[p].dp = 0 /\ k'[p].old = 0
        /\ k'[p].puts = <<>> BY <2>1, EndsNone, Zenon
  <2>3. Fst(k'[p]) = 0 /\ Snd(k'[p]) = 0 BY <2>2, PutsOf
  <2>. QED BY <2>1, <2>2, <2>3 DEF Ended
<1>4. ASSUME k' = [k EXCEPT ![p] = PutThen(p, <<a>>, "done")] PROVE Ended(p, a, 0)
  <2>1. k'[p] = PutThen(p, <<a>>, "done") /\ \A q \in Procs \ {p} : k'[q] = k[q] BY <1>2, <1>4, Zenon
  <2>2. /\ k'[p].pc = "put" /\ k'[p].op = "none" /\ k'[p].ip = 0 /\ k'[p].dp = 0 /\ k'[p].old = 0
        /\ k'[p].puts = <<a>> BY <2>1, EndsOne, Zenon
  <2>3. Fst(k'[p]) = a /\ Snd(k'[p]) = 0 BY <2>2, PutsOf
  <2>. QED BY <2>1, <2>2, <2>3 DEF Ended
<1>5. ASSUME k' = [k EXCEPT ![p] = PutThen(p, <<a, b>>, "done")] PROVE Ended(p, a, b)
  <2>1. k'[p] = PutThen(p, <<a, b>>, "done") /\ \A q \in Procs \ {p} : k'[q] = k[q] BY <1>2, <1>5, Zenon
  <2>2. /\ k'[p].pc = "put" /\ k'[p].op = "none" /\ k'[p].ip = 0 /\ k'[p].dp = 0 /\ k'[p].old = 0
        /\ k'[p].puts = <<a, b>>
    <3>1. /\ PutThen(p, <<a, b>>, "done").pc = "put"
          /\ PutThen(p, <<a, b>>, "done").op = "none" /\ PutThen(p, <<a, b>>, "done").ip = 0
          /\ PutThen(p, <<a, b>>, "done").dp = 0 /\ PutThen(p, <<a, b>>, "done").old = 0
          /\ PutThen(p, <<a, b>>, "done").puts = <<a, b>> BY EndsTwo
    <3>. QED BY <2>1, <3>1
  <2>3. Fst(k'[p]) = a /\ Snd(k'[p]) = b BY <2>2, PutsOf
  <2>. QED BY <2>1, <2>2, <2>3 DEF Ended
<1>. QED BY <1>3, <1>4, <1>5

\* The call that goes on, as PutThen has it.
LEMMA GoesOn ==
  ASSUME Tables, NEW p \in Procs, NEW a \in Inums, NEW stage \in Stages, stage # "done", NEW i, NEW t
  PROVE  /\ k'[p] = PutThen(p, <<a>>, stage) => Went(p, 0, a, stage)
         /\ k'[p] = [PutThen(p, <<a>>, stage) EXCEPT !.ip = i] => Went(p, i, a, stage)
         /\ k'[p] = [PutThen(p, <<a>>, stage) EXCEPT !.ip = i, !.path = t] => Went(p, i, a, stage)
<1>. DEFINE o == On(k[p], 0, k[p].path, <<a>>, stage)
<1>1. PutThen(p, <<a>>, stage) = o BY PutThenOn
<1>2. ASSUME NEW r, r.pc = "put", r.op = k[p].op, NEW j, r.ip = j, r.dp = 0, r.old = k[p].old, r.after = stage, r.puts = <<a>>,
             k'[p] = r PROVE Went(p, j, a, stage)
  <2>1. Fst(r) = a /\ Snd(r) = 0 BY <1>2, PutsOf
  <2>. QED BY <2>1, <1>2 DEF Went
<1>3. /\ o.pc = "put" /\ o.op = k[p].op /\ o.ip = 0 /\ o.dp = 0 /\ o.old = k[p].old /\ o.after = stage /\ o.puts = <<a>>
  BY DEF On
<1>4. LET r == [o EXCEPT !.ip = i] IN
      /\ r.pc = "put" /\ r.op = k[p].op /\ r.ip = i /\ r.dp = 0 /\ r.old = k[p].old /\ r.after = stage /\ r.puts = <<a>>
  BY DEF On
<1>5. LET r == [o EXCEPT !.ip = i, !.path = t] IN
      /\ r.pc = "put" /\ r.op = k[p].op /\ r.ip = i /\ r.dp = 0 /\ r.old = k[p].old /\ r.after = stage /\ r.puts = <<a>>
  BY DEF On
<1>. HIDE DEF o
<1>6. k'[p] = o => Went(p, 0, a, stage) BY <1>2, <1>3
<1>7. k'[p] = [o EXCEPT !.ip = i] => Went(p, i, a, stage) BY <1>2, <1>4
<1>8. k'[p] = [o EXCEPT !.ip = i, !.path = t] => Went(p, i, a, stage) BY <1>2, <1>5
<1>. QED BY <1>1, <1>6, <1>7, <1>8

\* A step that leaves the inode table alone, reads an inode or takes one more reference.
LEMMA GrowsBy == ASSUME Tables, NEW c, SameTable(c)
  PROVE  /\ core' = c => Grows
         /\ \A n \in Inums : core' = Iget(c, n) => Grows /\ \A x \in Inums : c[x].valid => core'[x].valid
<1>1. /\ c \in [Inums -> Cores]
      /\ \A j \in Inums : c[j].ref = core[j].ref /\ (core[j].valid => c[j].valid) /\ (c[j].ref = 0 => c[j] = NoCore)
  BY DEF SameTable
<1>2. \A j \in Inums : core[j].ref \in Nat BY DEF Tables, Cores
<1>3. core' = c => Grows BY <1>1, <1>2 DEF Grows
<1>4. ASSUME NEW n \in Inums, core' = Iget(c, n) PROVE Grows /\ \A x \in Inums : c[x].valid => core'[x].valid
  <2>1. \A j \in Inums : core'[j].ref = c[j].ref + Has(n, j) /\ core'[j].valid = c[j].valid BY <1>1, <1>4, IgetIs
  <2>2. ASSUME NEW j \in Inums, core[j].ref > 0 PROVE core'[j].ref # 0
    <3>1. Has(n, j) \in Nat BY HasIs
    <3>. QED BY <3>1, <2>1, <2>2, <1>1, <1>2
  <2>. QED BY <2>1, <2>2, <1>1 DEF Grows
<1>. QED BY <1>3, <1>4

\* A process in a call does not find a free inode.
LEMMA TypeThere ==
  ASSUME Inv, Kept, NEW p \in Procs, k[p].ip \in Inums PROVE ~NoType(k[p].ip) /\ dino[k[p].ip].type # "free"
<1>1. Uses(cwd[p], fd[p], k[p], k[p].ip) BY DEF Uses
<1>. QED BY <1>1 DEF Kept, InUse, NoType

\* The table with inode i read.
LEMMA LockedThere == ASSUME Inv, Kept, NEW p \in Procs, k[p].ip \in Inums, lock[k[p].ip] = None
  PROVE  /\ SameTable([core EXCEPT ![k[p].ip] = Locked(k[p].ip)])
         /\ [core EXCEPT ![k[p].ip] = Locked(k[p].ip)][k[p].ip].valid
         /\ Locked(k[p].ip).inode = dino[k[p].ip] /\ Locked(k[p].ip).valid
         /\ Locked(k[p].ip) \in Cores /\ Locked(k[p].ip).ref = core[k[p].ip].ref
<1>. DEFINE i == k[p].ip
            c == [core EXCEPT ![i] = Locked(i)]
<1>1. i \in Inums /\ lock[i] = None /\ ~NoType(i) BY TypeThere
<1>2. core[i].ref # 0
  <2>1. ~NotBy(p, i) BY DEF Apart
  <2>. QED BY <1>1, <2>1, HeldRef DEF Inv
<1>3. Tables /\ LocksOK /\ CoresOK BY DEF Inv
<1>. HIDE DEF i
<1>4. SameTable(c) /\ c[i].valid BY <1>1, <1>2, <1>3, LockedTable
<1>5. Locked(i).inode = dino[i] /\ Locked(i).valid /\ Locked(i) \in Cores /\ Locked(i).ref = core[i].ref
  BY <1>1, <1>3, LockedIs
<1>. QED BY <1>4, <1>5 DEF i

\* begin_op and the start of namex.
LEMMA BeginKept == ASSUME Inv, Kept, Inv', NEW p \in Procs, NEW c \in Calls[p], Begin(p, c) PROVE Kept'
<1>. DEFINE i == IF c.path.abs THEN Root ELSE cwd[p]
            r == [NoCall EXCEPT !.pc = "walk", !.op = c.op, !.path = c.path.elems, !.new = c.new, !.ip = i]
<1>1. /\ k[p].pc = "user" /\ ~booting /\ core' = Iget(core, i) /\ k' = [k EXCEPT ![p] = r]
      /\ dino' = dino /\ ents' = ents /\ stable' = stable
      /\ cwd' = cwd /\ fd' = fd /\ missed' = missed /\ booting' = booting /\ panicked' = panicked
  BY DEF Begin, At, Up, diskVars
<1>2. i \in Inums /\ i \in {Root, cwd[p]} BY Fields, FsAssumption DEF Inums, Root, Inv
<1>. HIDE DEF i
<1>4. /\ r.pc = "walk" /\ r.op = c.op /\ r.path = c.path.elems /\ r.ip = i /\ r.dp = 0 /\ r.old = 0 /\ r.puts = <<>>
  BY DEF NoCall
<1>5. Fst(r) = 0 /\ Snd(r) = 0 BY <1>4, PutsOf
<1>. HIDE DEF r
<1>6. k'[p] = r /\ \A q \in Procs \ {p} : k'[q] = k[q] BY <1>1 DEF Inv, Tables
<1>7. Others(p) /\ SameNames /\ Steady BY <1>1, <1>6 DEF Others, SameNames, Steady
<1>8. Grows BY <1>1, <1>2, CoreIsTable, GrowsBy DEF Inv
<1>9. ASSUME NEW x \in Inums
      PROVE  /\ HeldBy(p, x)' => HeldBy(p, x) \/ dino[x].nlink >= 1
             /\ FirmBy(p, x)' => FirmBy(p, x)
             /\ Treads(cwd'[p], k'[p], x) => Treads(cwd[p], k[p], x) \/ dino[x].nlink >= 1
  <2>1. dino[Root].nlink >= 1 /\ x # 0 BY NamedIs DEF Inums
  <2>. QED BY <2>1, <1>1, <1>2, <1>4, <1>5, <1>6 DEF Holds, Firm, Treads
<1>10. k[p].pc \notin Puts /\ k[p].pc # "new" /\ k'[p].pc \notin {"new", "free", "invalid", "drop"}
       /\ k'[p].old \in {0, k[p].old} BY <1>1, <1>4, <1>6 DEF Puts
<1>. QED BY <1>7, <1>8, <1>9, <1>10, PlainMove

\* A step that ends a call: what p keeps and what it puts are inodes it had.
LEMMA EndMove ==
  ASSUME Inv, Kept, Inv', NEW p \in Procs, NEW a, NEW b, Ended(p, a, b),
         cwd'[p] \in {cwd[p], k[p].ip} /\ \A q \in Procs \ {p} : cwd'[q] = cwd[q] /\ fd'[q] = fd[q],
         SameNames, Grows, Steady, k[p].pc \notin Puts, k[p].pc # "new",
         \A x \in Inums : x \in {cwd'[p], fd'[p], a, b} =>
           Known(p, x)
  PROVE Kept'
<1>1. /\ k'[p].pc \in {"put", "done", "user"} /\ k'[p].ip = 0 /\ k'[p].dp = 0 /\ k'[p].old = 0
      /\ Fst(k'[p]) = a /\ Snd(k'[p]) = b
      /\ \A q \in Procs \ {p} : k'[q] = k[q] BY DEF Ended
<1>2. Others(p) BY <1>1 DEF Others
<1>3. ASSUME NEW x \in Inums
      PROVE  /\ HeldBy(p, x)' => x \in {cwd'[p], fd'[p], a, b}
             /\ FirmBy(p, x)' => x \in {cwd'[p], fd'[p], a, b}
  <2>1. x # 0 BY DEF Inums
  <2>. QED BY <2>1, <1>1 DEF Holds, Firm
<1>4. \A x \in Inums : HeldBy(p, x)' => HeldBy(p, x) \/ dino[x].nlink >= 1 BY <1>3
<1>5. \A x \in Inums : FirmBy(p, x)' => FirmNow(p, x)
  BY <1>3
<1>6. k'[p].pc \notin {"new", "free", "invalid", "drop"} /\ k'[p].old \in {0, k[p].old} BY <1>1
<1>7. \A x \in Inums : Treads(cwd'[p], k'[p], x) => Treads(cwd[p], k[p], x) \/ dino[x].nlink >= 1
  BY <1>1 DEF Treads, Inums
<1>. QED BY <1>1, <1>2, <1>4, <1>5, <1>6, <1>7, PlainMove

\* A path element found, not found, or the last but for the name.
LEMMA NamexKept == ASSUME Inv, Kept, Inv', NEW p \in Procs, Namex(p), ~Strays(p) PROVE Kept'
<1>. DEFINE i == k[p].ip
            last == Len(k[p].path) = 1
            next == Dirlookup(i, Head(k[p].path))
            c == [core EXCEPT ![i] = Locked(i)]
            isdir == Locked(i).inode.type = "dir"
<1>1. /\ k[p].pc = "walk" /\ ~booting /\ lock[i] = None BY DEF Namex, At, Up
<1>2. /\ i \in Inums /\ k[p].dp = 0 /\ k[p].path # <<>> /\ k[p].path \in Seq(Elements)
      /\ k[p].pc \notin Puts /\ Fst(k[p]) = 0 /\ Snd(k[p]) = 0
  <2>1. k[p].pc \in Walks /\ k[p].pc \notin Puts BY <1>1 DEF Walks, Puts
  <2>2. k[p].path # <<>> BY <1>1 DEF Inv, CallsOK, Agrees
  <2>. QED BY <2>1, <2>2, CallIs, Fields, FstIs DEF Inv
<1>3. ~NoType(i) BY <1>2, TypeThere
<1>4. /\ \/ isdir /\ last /\ WantsParent(p) /\ core' = c /\ k' = [k EXCEPT ![p].pc = "parent", ![p].dp = i, ![p].ip = 0]
         \/ /\ isdir /\ ~(last /\ WantsParent(p)) /\ next # 0
            /\ core' = Iget(c, next)
            /\ k' = [k EXCEPT ![p] = [PutThen(p, <<i>>, IF last THEN "at" ELSE "walk")
                                        EXCEPT !.ip = next, !.path = Tail(k[p].path)]]
         \/ ~(isdir /\ last /\ WantsParent(p)) /\ core' = c /\ k' = [k EXCEPT ![p] = PutThen(p, <<i>>, Failed(p))]
      /\ dino' = dino /\ ents' = ents /\ stable' = stable
      /\ cwd' = cwd /\ fd' = fd /\ missed' = missed /\ booting' = booting /\ panicked' = panicked
  BY <1>3 DEF Namex, diskVars
<1>5. SameTable(c) /\ c[i].valid BY <1>1, <1>2, LockedThere
<1>7. SameNames /\ Steady /\ Tables /\ k \in [Procs -> CallRecords] BY <1>1, <1>4 DEF SameNames, Steady, Inv, Tables
<1>8. k[p].pc # "new" /\ i # 0 BY <1>1, <1>2 DEF Inums
<1>. HIDE DEF c
<1>9. CASE isdir /\ last /\ WantsParent(p) /\ core' = c /\ k' = [k EXCEPT ![p].pc = "parent", ![p].dp = i, ![p].ip = 0]
  <2>1. /\ k'[p].pc = "parent" /\ k'[p].op = k[p].op /\ k'[p].ip = 0 /\ k'[p].dp = i /\ k'[p].old = k[p].old
        /\ k'[p].puts = k[p].puts
        /\ \A q \in Procs \ {p} : k'[q] = k[q] BY <1>7, <1>9 DEF CallRecords
  <2>2. Fst(k'[p]) = 0 /\ Snd(k'[p]) = 0 BY <2>1, <1>2 DEF Fst, Snd
  <2>3. Others(p) BY <2>1, <1>4 DEF Others
  <2>4. Grows /\ core'[i].valid BY <1>5, <1>7, <1>9, GrowsBy
  <2>5. ASSUME NEW x \in Inums
        PROVE  /\ HeldBy(p, x)' => HeldBy(p, x) \/ dino[x].nlink >= 1
               /\ FirmBy(p, x)' => FirmNow(p, x)
               /\ Treads(cwd'[p], k'[p], x) => Treads(cwd[p], k[p], x) \/ dino[x].nlink >= 1
    <3>1. x # 0 BY DEF Inums
    <3>. QED BY <3>1, <2>1, <2>2, <2>4, <1>1, <1>4 DEF Holds, Firm, Treads
  <2>6. k'[p].pc \notin {"new", "free", "invalid", "drop"} /\ k'[p].old \in {0, k[p].old} BY <2>1
  <2>. QED BY <1>2, <1>7, <1>8, <2>3, <2>4, <2>5, <2>6, PlainMove
<1>10. CASE /\ isdir /\ ~(last /\ WantsParent(p)) /\ next # 0
            /\ core' = Iget(c, next)
            /\ k' = [k EXCEPT ![p] = [PutThen(p, <<i>>, IF last THEN "at" ELSE "walk")
                                        EXCEPT !.ip = next, !.path = Tail(k[p].path)]]
  <2>. DEFINE stage == IF last THEN "at" ELSE "walk"
              t == Tail(k[p].path)
              r == [PutThen(p, <<i>>, stage) EXCEPT !.ip = next, !.path = t]
  <2>2. stage \in Stages /\ stage # "done" BY DEF Stages
  <2>3. k'[p] = r /\ \A q \in Procs \ {p} : k'[q] = k[q] BY <1>7, <1>10
  <2>. HIDE DEF stage, next, t, i
  <2>4. Went(p, next, i, stage) BY <1>2, <1>7, <2>2, <2>3, GoesOn
  <2>5. /\ k'[p].pc = "put" /\ k'[p].op = k[p].op /\ k'[p].ip = next /\ k'[p].dp = 0 /\ k'[p].old = k[p].old
        /\ Fst(k'[p]) = i /\ Snd(k'[p]) = 0 BY <2>4 DEF Went
  <2>. USE DEF next, i
  <2>1. next \in Inums /\ dino[next].nlink >= 1
    <3>1. Head(k[p].path) \in Elements BY <1>2
    <3>2. next \in Inums BY <1>2, <1>10, <3>1 DEF Dirlookup, Inv, Tables
    <3>3. PICK m \in Inums : m = next BY <3>2
    <3>4. ents[i][Head(k[p].path)] = m BY <3>3 DEF Dirlookup
    <3>5. k'[p].ip = m /\ k'[p].pc = "put" BY <2>5, <3>3
    <3>6. Head(k[p].path) = DotDot => ~Lost(i) BY <3>4, <3>5, <1>1, <1>8 DEF Strays
    <3>. QED BY <3>1, <3>3, <3>4, <3>6, <1>2, FoundIs
  <2>. HIDE DEF next, i
  <2>. HIDE DEF r
  <2>6. Others(p) BY <2>3, <1>4 DEF Others
  <2>7. Grows /\ core'[i].valid BY <1>2, <1>5, <1>7, <1>10, <2>1, GrowsBy
  <2>8. ASSUME NEW x \in Inums
        PROVE  /\ HeldBy(p, x)' => HeldBy(p, x) \/ dino[x].nlink >= 1
               /\ FirmBy(p, x)' => FirmNow(p, x)
               /\ Treads(cwd'[p], k'[p], x) => Treads(cwd[p], k[p], x) \/ dino[x].nlink >= 1
    <3>1. x # 0 BY DEF Inums
    <3>. QED BY <3>1, <2>1, <2>5, <2>7, <1>4 DEF Holds, Firm, Treads, i
  <2>9. k'[p].pc \notin {"new", "free", "invalid", "drop"} /\ k'[p].old \in {0, k[p].old} BY <2>5
  <2>. QED BY <1>2, <1>7, <1>8, <2>6, <2>7, <2>8, <2>9, PlainMove
<1>11. CASE ~(isdir /\ last /\ WantsParent(p)) /\ core' = c /\ k' = [k EXCEPT ![p] = PutThen(p, <<i>>, Failed(p))]
  <2>1. Grows /\ core'[i].valid BY <1>5, <1>7, <1>11, GrowsBy
  <2>2. CASE k[p].op # "linkto"
    <3>1. Failed(p) = "done" BY <2>2 DEF Failed
    <3>2. Ended(p, i, 0) BY <3>1, <1>2, <1>7, <1>11, EndedIs
    <3>3. \A x \in Inums : x \in {cwd'[p], fd'[p], i, 0} =>
             Known(p, x)
      BY <2>1, <1>4 DEF Holds, Firm, Inums
    <3>4. cwd'[p] \in {cwd[p], k[p].ip} /\ \A q \in Procs \ {p} : cwd'[q] = cwd[q] /\ fd'[q] = fd[q] BY <1>4
    <3>. HIDE DEF i
    <3>. QED BY <3>2, <3>3, <3>4, <2>1, <1>2, <1>7, <1>8, EndMove
  <2>3. CASE k[p].op = "linkto"
    <3>. DEFINE r == PutThen(p, <<i>>, "linkbad")
    <3>1. k'[p] = r /\ \A q \in Procs \ {p} : k'[q] = k[q] BY <2>3, <1>7, <1>11 DEF Failed
    <3>2. "linkbad" \in Stages BY DEF Stages
    <3>. HIDE DEF i
    <3>3. Went(p, 0, i, "linkbad") BY <1>2, <1>7, <3>1, <3>2, GoesOn
    <3>4. /\ k'[p].pc = "put" /\ k'[p].op = k[p].op /\ k'[p].ip = 0 /\ k'[p].dp = 0 /\ k'[p].old = k[p].old
          /\ Fst(k'[p]) = i /\ Snd(k'[p]) = 0 BY <3>3 DEF Went
    <3>. HIDE DEF r
    <3>5. Others(p) BY <3>1, <1>4 DEF Others
    <3>6. ASSUME NEW x \in Inums
          PROVE  /\ HeldBy(p, x)' => HeldBy(p, x) \/ dino[x].nlink >= 1
                 /\ FirmBy(p, x)' => FirmNow(p, x)
                 /\ Treads(cwd'[p], k'[p], x) => Treads(cwd[p], k[p], x) \/ dino[x].nlink >= 1
      <4>1. x # 0 BY DEF Inums
      <4>. QED BY <4>1, <3>4, <2>1, <1>4 DEF Holds, Firm, Treads, i
    <3>7. k'[p].pc \notin {"new", "free", "invalid", "drop"} /\ k'[p].old \in {0, k[p].old} BY <3>4
    <3>. QED BY <1>2, <1>7, <1>8, <2>1, <3>5, <3>6, <3>7, PlainMove
  <2>. QED BY <2>2, <2>3
<1>. QED BY <1>4, <1>9, <1>10, <1>11

\* The fields of an inode that a write of its block leaves alone, and the count of links.
LEMMA LinkFields == ASSUME NEW x \in Inodes
  PROVE  /\ x.nlink \in Int /\ Itrunc(x).nlink = x.nlink /\ Bmap(x).nlink = x.nlink
         /\ Linked(x).nlink = x.nlink + 1 /\ Unlinked(x).nlink = x.nlink - 1
         /\ [x EXCEPT !.nlink = 0].type = x.type /\ [x EXCEPT !.nlink = 0].nlink = 0
         /\ [x EXCEPT !.nlink = 1].type = x.type /\ [x EXCEPT !.nlink = 1].nlink = 1
  BY DEF Itrunc, Bmap, Linked, Unlinked, Inodes

\* A write of the locked inode that keeps its kind and its links.
LEMMA UpdateSame ==
  ASSUME Inv, NEW i \in Inums, lock[i] = None, ~NoType(i), core[i].ref # 0, NEW x \in Inodes, Update(i, x),
         x.type = dino[i].type, x.nlink = dino[i].nlink, ents' = ents, stable' = stable
  PROVE SameNames /\ Grows /\ core'[i].valid
<1>0. Tables /\ LocksOK /\ CoresOK BY DEF Inv
<1>1. /\ core'[i].valid /\ dino'[i] = x
      /\ \A j \in Inums \ {i} : core'[j] = core[j] /\ dino'[j] = dino[j]
      /\ \A j \in Inums : core'[j].ref = core[j].ref /\ (core[j].valid => core'[j].valid) BY <1>0, UpdateIs
<1>2. \A j \in Inums : core[j].ref \in Nat BY <1>0 DEF Tables, Cores
<1>3. SameNames BY <1>1 DEF SameNames
<1>4. Grows BY <1>1, <1>2 DEF Grows
<1>. QED BY <1>1, <1>3, <1>4

\* A call at the inode it was looking for.
LEMMA AtInodeIs == ASSUME Inv, NEW p \in Procs, k[p].pc \in {"at", "old"}
  PROVE  /\ k[p].ip \in Inums /\ k[p].pc \notin Puts /\ k[p].pc # "new" /\ core[k[p].ip].ref # 0
         /\ \A x \in Inums : x \in {cwd[p], fd[p], k[p].ip} => HeldBy(p, x)
         /\ \A x \in Inums : x \in {cwd[p], fd[p]} => FirmBy(p, x)
<1>1. k[p].pc \in Walks /\ k[p].pc \notin Puts BY DEF Walks, Puts
<1>2. k[p].ip \in Inums BY <1>1, CallIs DEF Inv
<1>3. ~Apart(cwd[p], fd[p], k[p], k[p].ip) BY DEF Apart
<1>4. core[k[p].ip].ref # 0 BY <1>2, <1>3, HeldRef DEF Inv
<1>. QED BY <1>1, <1>2, <1>4 DEF Holds, Firm

\* The process keeps the inode as its open file, or puts it.
LEMMA KeepEnds == ASSUME Tables, NEW p \in Procs, NEW i \in Inums, NEW d \in Inums, NEW ok
  PROVE  /\ Keep(p, i, ok, <<>>) => /\ \A q \in Procs \ {p} : fd'[q] = fd[q]
                                    /\ \/ fd'[p] = i /\ Ended(p, 0, 0)
                                       \/ fd'[p] = fd[p] /\ Ended(p, i, 0)
         /\ Keep(p, i, ok, <<d>>) => /\ \A q \in Procs \ {p} : fd'[q] = fd[q]
                                     /\ \/ fd'[p] = i /\ Ended(p, d, 0)
                                        \/ fd'[p] = fd[p] /\ Ended(p, d, i)
<1>1. fd \in [Procs -> {0} \cup Inums] BY DEF Tables
<1>2. <<>> \o <<i>> = <<i>> /\ <<d>> \o <<i>> = <<d, i>> BY PutsAre
<1>3. /\ k' = [k EXCEPT ![p] = PutThen(p, <<>>, "done")] => Ended(p, 0, 0)
      /\ k' = [k EXCEPT ![p] = PutThen(p, <<i>>, "done")] => Ended(p, i, 0) BY EndedIs
<1>4. /\ k' = [k EXCEPT ![p] = PutThen(p, <<d>>, "done")] => Ended(p, d, 0)
      /\ k' = [k EXCEPT ![p] = PutThen(p, <<d, i>>, "done")] => Ended(p, d, i) BY EndedIs
<1>5. ASSUME NEW s, Keep(p, i, ok, s)
      PROVE  /\ \A q \in Procs \ {p} : fd'[q] = fd[q]
             /\ \/ fd'[p] = i /\ k' = [k EXCEPT ![p] = PutThen(p, s, "done")]
                \/ fd'[p] = fd[p] /\ k' = [k EXCEPT ![p] = PutThen(p, s \o <<i>>, "done")]
  BY <1>1, <1>5 DEF Keep
<1>6. ASSUME Keep(p, i, ok, <<>>)
      PROVE  /\ \A q \in Procs \ {p} : fd'[q] = fd[q]
             /\ (fd'[p] = i /\ Ended(p, 0, 0)) \/ (fd'[p] = fd[p] /\ Ended(p, i, 0))
  <2>1. /\ \A q \in Procs \ {p} : fd'[q] = fd[q]
        /\ \/ fd'[p] = i /\ k' = [k EXCEPT ![p] = PutThen(p, <<>>, "done")]
           \/ fd'[p] = fd[p] /\ k' = [k EXCEPT ![p] = PutThen(p, <<>> \o <<i>>, "done")] BY <1>5, <1>6, Zenon
  <2>. QED BY <2>1, <1>2, <1>3
<1>7. ASSUME Keep(p, i, ok, <<d>>)
      PROVE  /\ \A q \in Procs \ {p} : fd'[q] = fd[q]
             /\ (fd'[p] = i /\ Ended(p, d, 0)) \/ (fd'[p] = fd[p] /\ Ended(p, d, i))
  <2>1. /\ \A q \in Procs \ {p} : fd'[q] = fd[q]
        /\ \/ fd'[p] = i /\ k' = [k EXCEPT ![p] = PutThen(p, <<d>>, "done")]
           \/ fd'[p] = fd[p] /\ k' = [k EXCEPT ![p] = PutThen(p, <<d>> \o <<i>>, "done")] BY <1>5, <1>7, Zenon
  <2>. QED BY <2>1, <1>2, <1>4
<1>. QED BY <1>6, <1>7

\* The end of open: the inode becomes the open file, or is put.
LEMMA KeepMove ==
  ASSUME Inv, Kept, Inv', NEW p \in Procs, k[p].pc \in {"at", "old"}, NEW ok, Keep(p, k[p].ip, ok, <<>>),
         cwd' = cwd, SameNames, Grows, Steady, core'[k[p].ip].valid PROVE Kept'
<1>. DEFINE i == k[p].ip
<1>1. /\ i \in Inums /\ k[p].pc \notin Puts /\ k[p].pc # "new"
      /\ \A x \in Inums : x \in {cwd[p], fd[p], i} => HeldBy(p, x)
      /\ \A x \in Inums : x \in {cwd[p], fd[p]} => FirmBy(p, x) BY AtInodeIs
<1>2. Tables BY DEF Inv
<1>. HIDE DEF i
<1>3. Keep(p, i, ok, <<>>) /\ core'[i].valid BY DEF i
<1>4. /\ \A q \in Procs \ {p} : fd'[q] = fd[q]
      /\ \/ fd'[p] = i /\ Ended(p, 0, 0)
         \/ fd'[p] = fd[p] /\ Ended(p, i, 0) BY <1>1, <1>2, <1>3, KeepEnds
<1>5. cwd'[p] \in {cwd[p], k[p].ip} /\ \A q \in Procs \ {p} : cwd'[q] = cwd[q] /\ fd'[q] = fd[q] BY <1>4
<1>6. CASE fd'[p] = i /\ Ended(p, 0, 0)
  <2>1. ASSUME NEW x \in Inums, x \in {cwd'[p], fd'[p], 0, 0}
        PROVE Known(p, x)
    BY <2>1, <1>1, <1>3, <1>6 DEF Inums
  <2>. QED BY <2>1, <1>1, <1>5, <1>6, EndMove
<1>7. CASE fd'[p] = fd[p] /\ Ended(p, i, 0)
  <2>1. ASSUME NEW x \in Inums, x \in {cwd'[p], fd'[p], i, 0}
        PROVE Known(p, x)
    BY <2>1, <1>1, <1>3, <1>7 DEF Inums
  <2>. QED BY <2>1, <1>1, <1>5, <1>7, EndMove
<1>. QED BY <1>4, <1>6, <1>7

\* sys_open, with or without O_TRUNC.
LEMMA OpenKept == ASSUME Inv, Kept, Inv', NEW p \in Procs, NEW ok \in BOOLEAN, Open(p, ok) PROVE Kept'
<1>. DEFINE i == k[p].ip
            c == Locked(i).inode
            cut == k[p].op = "trunc" /\ c.type = "file" /\ ok /\ fd[p] = 0
            good == ok /\ ~(c.type = "dir" /\ k[p].op = "trunc")
            x == IF cut THEN Itrunc(c) ELSE c
<1>1. k[p].pc = "at" /\ ~booting /\ lock[i] = None BY DEF Open, AtInode, At, Up
<1>2. i \in Inums /\ core[i].ref # 0 BY <1>1, AtInodeIs
<1>3. ~NoType(i) BY <1>2, TypeThere
<1>4. /\ Keep(p, i, good, <<>>) /\ Update(i, x)
      /\ ents' = ents /\ stable' = stable /\ cwd' = cwd /\ missed' = missed /\ booting' = booting /\ panicked' = panicked
  BY <1>3 DEF Open
<1>5. c = dino[i] /\ c \in Inodes BY <1>1, <1>2, <1>3, LockedIs DEF Inv
<1>6. x \in Inodes /\ x.type = dino[i].type /\ x.nlink = dino[i].nlink
  <2>. HIDE DEF c, cut
  <2>. QED BY <1>5, InodeFields, LinkFields
<1>. HIDE DEF x, good, c, cut
<1>7. SameNames /\ Grows /\ core'[i].valid BY <1>1, <1>2, <1>3, <1>4, <1>6, UpdateSame
<1>8. Steady BY <1>1, <1>4 DEF Steady
<1>. QED BY <1>1, <1>4, <1>7, <1>8, KeepMove

\* create of a name that exists.
LEMMA CreateOldKept == ASSUME Inv, Kept, Inv', NEW p \in Procs, NEW ok \in BOOLEAN, CreateOld(p, ok) PROVE Kept'
<1>. DEFINE i == k[p].ip
            good == ok /\ k[p].op = "creat" /\ Locked(i).inode.type \in {"file", "dev"}
            c == [core EXCEPT ![i] = Locked(i)]
<1>1. k[p].pc = "old" /\ ~booting /\ lock[i] = None BY DEF CreateOld, AtInode, At, Up
<1>2. i \in Inums /\ core[i].ref # 0 BY <1>1, AtInodeIs
<1>3. ~NoType(i) BY <1>2, TypeThere
<1>4. /\ core' = c /\ Keep(p, i, good, <<>>)
      /\ dino' = dino /\ ents' = ents /\ stable' = stable /\ cwd' = cwd /\ missed' = missed
      /\ booting' = booting /\ panicked' = panicked BY <1>3 DEF CreateOld, diskVars
<1>5. SameTable(c) /\ c[i].valid BY <1>1, <1>2, LockedThere
<1>. HIDE DEF c, good
<1>6. Grows /\ core'[i].valid BY <1>4, <1>5, GrowsBy DEF Inv
<1>7. Steady /\ SameNames BY <1>1, <1>4 DEF Steady, SameNames
<1>. QED BY <1>1, <1>4, <1>6, <1>7, KeepMove

\* chdir: the old directory is put, or the inode that is none.
LEMMA ChdirKept == ASSUME Inv, Kept, Inv', NEW p \in Procs, Chdir(p) PROVE Kept'
<1>. DEFINE i == k[p].ip
            c == [core EXCEPT ![i] = Locked(i)]
            o == cwd[p]
<1>1. k[p].pc = "at" /\ ~booting /\ lock[i] = None BY DEF Chdir, AtInode, At, Up
<1>2. /\ i \in Inums /\ core[i].ref # 0 /\ k[p].pc \notin Puts /\ k[p].pc # "new"
      /\ \A x \in Inums : x \in {cwd[p], fd[p], i} => HeldBy(p, x)
      /\ \A x \in Inums : x \in {cwd[p], fd[p]} => FirmBy(p, x) BY <1>1, AtInodeIs
<1>3. ~NoType(i) BY <1>2, TypeThere
<1>4. /\ core' = c
      /\ \/ cwd' = [cwd EXCEPT ![p] = i] /\ k' = [k EXCEPT ![p] = PutThen(p, <<o>>, "done")]
         \/ cwd' = cwd /\ k' = [k EXCEPT ![p] = PutThen(p, <<i>>, "done")]
      /\ dino' = dino /\ ents' = ents /\ stable' = stable /\ fd' = fd /\ missed' = missed
      /\ booting' = booting /\ panicked' = panicked BY <1>3 DEF Chdir, diskVars
<1>5. SameTable(c) /\ c[i].valid BY <1>1, <1>2, LockedThere
<1>6. Tables /\ o \in Inums /\ cwd \in [Procs -> Inums] BY Fields DEF Inv, Tables
<1>. HIDE DEF c
<1>7. Grows /\ core'[i].valid BY <1>4, <1>5, <1>6, GrowsBy
<1>8. Steady /\ SameNames BY <1>1, <1>4 DEF Steady, SameNames
<1>9. CASE cwd' = [cwd EXCEPT ![p] = i] /\ k' = [k EXCEPT ![p] = PutThen(p, <<o>>, "done")]
  <2>1. Ended(p, o, 0)
    <3>. HIDE DEF o, i
    <3>. QED BY <1>6, <1>9, EndedIs
  <2>2. cwd'[p] \in {cwd[p], k[p].ip} /\ \A q \in Procs \ {p} : cwd'[q] = cwd[q] /\ fd'[q] = fd[q] BY <1>4, <1>6, <1>9
  <2>3. cwd'[p] = i /\ fd'[p] = fd[p] BY <1>4, <1>6, <1>9
  <2>4. ASSUME NEW x \in Inums, x \in {cwd'[p], fd'[p], o, 0}
        PROVE Known(p, x)
    BY <2>3, <2>4, <1>2, <1>7 DEF Inums
  <2>. QED BY <2>1, <2>2, <2>4, <1>2, <1>7, <1>8, EndMove
<1>10. CASE cwd' = cwd /\ k' = [k EXCEPT ![p] = PutThen(p, <<i>>, "done")]
  <2>1. Ended(p, i, 0)
    <3>. HIDE DEF i
    <3>. QED BY <1>2, <1>6, <1>10, EndedIs
  <2>2. cwd'[p] \in {cwd[p], k[p].ip} /\ \A q \in Procs \ {p} : cwd'[q] = cwd[q] /\ fd'[q] = fd[q] BY <1>4, <1>10
  <2>4. ASSUME NEW x \in Inums, x \in {cwd'[p], fd'[p], i, 0}
        PROVE Known(p, x)
    BY <2>4, <1>2, <1>4, <1>7, <1>10 DEF Inums
  <2>. QED BY <2>1, <2>2, <2>4, <1>2, <1>7, <1>8, EndMove
<1>. QED BY <1>4, <1>9, <1>10

\* fileclose of the last reference.
LEMMA CloseKept == ASSUME Inv, Kept, Inv', NEW p \in Procs, Close(p) PROVE Kept'
<1>. DEFINE o == fd[p]
<1>1. /\ k[p].pc = "user" /\ ~booting /\ o # 0
      /\ fd' = [fd EXCEPT ![p] = 0] /\ k' = [k EXCEPT ![p] = PutThen(p, <<o>>, "done")] /\ core' = core
      /\ dino' = dino /\ ents' = ents /\ stable' = stable
      /\ cwd' = cwd /\ missed' = missed /\ booting' = booting /\ panicked' = panicked
  BY DEF Close, At, Up, diskVars, memVars
<1>2. Tables /\ o \in Inums /\ fd \in [Procs -> {0} \cup Inums] BY <1>1 DEF Inv, Tables
<1>3. Steady /\ SameNames BY <1>1 DEF Steady, SameNames
<1>4. Grows BY <1>1, CoreIsTable, GrowsBy DEF Inv
<1>5. cwd'[p] \in {cwd[p], k[p].ip} /\ \A q \in Procs \ {p} : cwd'[q] = cwd[q] /\ fd'[q] = fd[q] BY <1>1, <1>2
<1>6. k[p].pc \notin Puts /\ k[p].pc # "new" BY <1>1 DEF Puts
<1>7. ASSUME NEW x \in Inums, x \in {cwd'[p], fd'[p], o, 0}
      PROVE Known(p, x)
  <2>1. fd'[p] = 0 /\ x # 0 BY <1>1, <1>2 DEF Inums
  <2>. QED BY <1>1, <1>7, <2>1 DEF Holds, Firm
<1>. HIDE DEF o
<1>8. Ended(p, o, 0) BY <1>1, <1>2, EndedIs
<1>. QED BY <1>3, <1>4, <1>5, <1>6, <1>7, <1>8, EndMove

\* filewrite of an inode: the block it gets is not a name.
LEMMA WriteKept == ASSUME Inv, Kept, Inv', NEW p \in Procs, Write(p) PROVE Kept'
<1>. DEFINE i == fd[p]
            c == Locked(i).inode
<1>1. /\ k[p].pc = "user" /\ ~booting /\ i # 0 /\ lock[i] = None /\ c.type = "file" /\ used # Blocks
      /\ Update(i, Bmap(c)) /\ k' = [k EXCEPT ![p].pc = "done"]
      /\ ents' = ents /\ stable' = stable /\ missed' = missed /\ panicked' = panicked
      /\ cwd' = cwd /\ fd' = fd /\ booting' = booting BY DEF Write, Writei, At, Up
<1>2. Tables /\ i \in Inums /\ k \in [Procs -> CallRecords] BY <1>1 DEF Inv, Tables
<1>3. core[i].ref # 0
  <2>1. ~NotBy(p, i) BY DEF Apart
  <2>. QED BY <1>2, <2>1, HeldRef DEF Inv
<1>4. ~NoType(i) BY <1>1, <1>2 DEF NoType, Locked, Tables, Cores
<1>5. c = dino[i] /\ c \in Inodes BY <1>1, <1>2, <1>4, LockedIs DEF Inv
<1>. HIDE DEF c
<1>6. FirstFree \in Blocks BY <1>1, <1>2, FirstFreeIs
<1>7. Bmap(c) \in Inodes /\ Bmap(c).type = dino[i].type /\ Bmap(c).nlink = dino[i].nlink
  BY <1>5, <1>6, InodeFields, LinkFields
<1>8. PICK y \in Inodes : y = Bmap(c) BY <1>7
<1>9. SameNames /\ Grows BY <1>1, <1>2, <1>3, <1>4, <1>7, <1>8, UpdateSame
<1>10. /\ k'[p].pc = "done" /\ k'[p].ip = 0 /\ k'[p].dp = 0 /\ k'[p].old = 0 /\ k'[p].op = "none"
       /\ k'[p].puts = <<>> /\ \A q \in Procs \ {p} : k'[q] = k[q]
  <2>1. k[p].ip = 0 /\ k[p].dp = 0 /\ k[p].old = 0 /\ k[p].op = "none" /\ k[p].puts = <<>> BY <1>1, CallIs DEF Inv, Puts
  <2>. QED BY <2>1, <1>1, <1>2 DEF CallRecords
<1>11. Fst(k'[p]) = 0 /\ Snd(k'[p]) = 0 BY <1>10, PutsOf
<1>12. Ended(p, 0, 0) BY <1>10, <1>11 DEF Ended
<1>13. Steady /\ k[p].pc \notin Puts /\ k[p].pc # "new" BY <1>1 DEF Steady, Puts
<1>14. cwd'[p] \in {cwd[p], k[p].ip} /\ \A q \in Procs \ {p} : cwd'[q] = cwd[q] /\ fd'[q] = fd[q] BY <1>1
<1>15. ASSUME NEW x \in Inums, x \in {cwd'[p], fd'[p], 0, 0}
      PROVE Known(p, x)
  BY <1>1, <1>15 DEF Holds, Firm, Inums
<1>. QED BY <1>9, <1>12, <1>13, <1>14, <1>15, EndMove

\* end_op.
LEMMA EndOpKept == ASSUME Inv, Kept, Inv', NEW p \in Procs, EndOp(p) PROVE Kept'
<1>1. /\ k[p].pc = "done" /\ ~booting /\ k' = [k EXCEPT ![p] = NoCall] /\ core' = core
      /\ stable' = stable \/ stable' = diskVars
      /\ dino' = dino /\ ents' = ents /\ cwd' = cwd /\ fd' = fd /\ missed' = missed
      /\ booting' = booting /\ panicked' = panicked BY DEF EndOp, At, Up, diskVars, memVars
<1>2. Tables /\ k \in [Procs -> CallRecords] BY DEF Inv, Tables
<1>3. Steady /\ SameNames BY <1>1 DEF Steady, SameNames
<1>4. Grows BY <1>1, CoreIsTable, GrowsBy DEF Inv
<1>5. k'[p] = NoCall /\ \A q \in Procs \ {p} : k'[q] = k[q] BY <1>1, <1>2
<1>6. /\ NoCall.pc = "user" /\ NoCall.ip = 0 /\ NoCall.dp = 0 /\ NoCall.old = 0 /\ NoCall.op = "none"
      /\ NoCall.puts = <<>> BY DEF NoCall
<1>7. Fst(k'[p]) = 0 /\ Snd(k'[p]) = 0 BY <1>5, <1>6, PutsOf
<1>8. Ended(p, 0, 0) BY <1>5, <1>6, <1>7 DEF Ended
<1>9. k[p].pc \notin Puts /\ k[p].pc # "new" /\ cwd'[p] \in {cwd[p], k[p].ip} /\ \A q \in Procs \ {p} : cwd'[q] = cwd[q] /\ fd'[q] = fd[q]
  BY <1>1 DEF Puts
<1>10. ASSUME NEW x \in Inums, x \in {cwd'[p], fd'[p], 0, 0}
      PROVE Known(p, x)
  BY <1>1, <1>10 DEF Holds, Firm, Inums
<1>. QED BY <1>3, <1>4, <1>8, <1>9, <1>10, EndMove

\* sys_link of a directory.
LEMMA LinkDirKept == ASSUME Inv, Kept, Inv', NEW p \in Procs, Link(p), Locked(k[p].ip).inode.type = "dir" PROVE Kept'
<1>. DEFINE i == k[p].ip
            c == [core EXCEPT ![i] = Locked(i)]
<1>1. k[p].pc = "at" /\ ~booting /\ lock[i] = None BY DEF Link, AtInode, At, Up
<1>2. /\ i \in Inums /\ core[i].ref # 0 /\ k[p].pc \notin Puts /\ k[p].pc # "new"
      /\ \A x \in Inums : x \in {cwd[p], fd[p], i} => HeldBy(p, x)
      /\ \A x \in Inums : x \in {cwd[p], fd[p]} => FirmBy(p, x) BY <1>1, AtInodeIs
<1>3. ~NoType(i) BY <1>2, TypeThere
<1>4. /\ core' = c /\ k' = [k EXCEPT ![p] = PutThen(p, <<i>>, "done")]
      /\ dino' = dino /\ ents' = ents /\ stable' = stable /\ cwd' = cwd /\ fd' = fd /\ missed' = missed
      /\ booting' = booting /\ panicked' = panicked BY <1>3 DEF Link
<1>5. SameTable(c) /\ c[i].valid /\ Tables BY <1>1, <1>2, LockedThere DEF Inv
<1>. HIDE DEF c
<1>6. Grows /\ core'[i].valid BY <1>4, <1>5, GrowsBy
<1>7. Steady /\ SameNames BY <1>1, <1>4 DEF Steady, SameNames
<1>8. cwd'[p] \in {cwd[p], k[p].ip} /\ \A q \in Procs \ {p} : cwd'[q] = cwd[q] /\ fd'[q] = fd[q] BY <1>4
<1>9. ASSUME NEW x \in Inums, x \in {cwd'[p], fd'[p], i, 0}
      PROVE Known(p, x)
  BY <1>9, <1>2, <1>4, <1>6 DEF Inums
<1>. HIDE DEF i
<1>10. Ended(p, i, 0) BY <1>2, <1>4, <1>5, EndedIs
<1>. QED BY <1>2, <1>6, <1>7, <1>8, <1>9, <1>10, EndMove

\* The state of a process that has the parent, and a step that lets the parent go.
LEMMA ParentHas == ASSUME Inv, NEW p \in Procs, k[p].pc = "parent"
  PROVE  /\ k[p].pc \notin Puts /\ k[p].pc # "new" /\ Fst(k[p]) = 0 /\ Snd(k[p]) = 0
         /\ k[p].dp \in Inums /\ k[p].dp # 0 /\ k[p].ip = 0
<1>1. k[p].pc \notin Puts /\ k[p].pc # "new" BY DEF Puts
<1>. QED BY <1>1, CallIs, FstIs DEF Inv, Inums

\* A step of a call in its parent directory that makes and removes no name.
LEMMA ParentMove ==
  ASSUME Inv, Kept, Inv', NEW p \in Procs, k[p].pc = "parent", SameNames, Grows, Steady,
         \A q \in Procs \ {p} : k'[q] = k[q], cwd' = cwd, fd' = fd,
         k'[p].ip = 0 \/ (k'[p].ip \in Inums /\ dino[k'[p].ip].nlink >= 1),
         k'[p].dp \in {0, k[p].dp}, k'[p].old = k[p].old,
         Fst(k'[p]) \in {0, k[p].dp}, Snd(k'[p]) = 0, k'[p].pc \in {"put", "unlink"} PROVE Kept'
<1>1. /\ k[p].pc \notin Puts /\ k[p].pc # "new" /\ Fst(k[p]) = 0 /\ Snd(k[p]) = 0 /\ k[p].dp \in Inums /\ k[p].dp # 0
  BY ParentHas
<1>2. Others(p) BY DEF Others
<1>3. ASSUME NEW x \in Inums
      PROVE  /\ HeldBy(p, x)' => HeldBy(p, x) \/ dino[x].nlink >= 1
             /\ FirmBy(p, x)' => FirmNow(p, x)
             /\ Treads(cwd'[p], k'[p], x) => Treads(cwd[p], k[p], x) \/ dino[x].nlink >= 1
  <2>1. x # 0 BY DEF Inums
  <2>. QED BY <2>1, <1>1 DEF Holds, Firm, Treads
<1>4. k'[p].pc \notin {"new", "free", "invalid", "drop"} /\ k'[p].old \in {0, k[p].old} OBVIOUS
<1>. QED BY <1>1, <1>2, <1>3, <1>4, PlainMove

\* unlink of a name that cannot be, or create with no inode left.
LEMMA ParentEndsKept ==
  ASSUME Inv, Kept, Inv', NEW p \in Procs, k[p].pc = "parent", k' = [k EXCEPT ![p] = PutThen(p, <<k[p].dp>>, "done")],
         SameNames, Grows, Steady, cwd' = cwd, fd' = fd PROVE Kept'
<1>. DEFINE d == k[p].dp
<1>1. k[p].pc \notin Puts /\ k[p].pc # "new" /\ d \in Inums /\ Tables BY ParentHas DEF Inv
<1>2. ASSUME NEW x \in Inums, x \in {cwd'[p], fd'[p], d, 0}
      PROVE Known(p, x)
  BY <1>2 DEF Holds, Firm, Inums
<1>3. k' = [k EXCEPT ![p] = PutThen(p, <<d>>, "done")] OBVIOUS
<1>4. cwd'[p] \in {cwd[p], k[p].ip} /\ \A q \in Procs \ {p} : cwd'[q] = cwd[q] /\ fd'[q] = fd[q] OBVIOUS
<1>. HIDE DEF d
<1>5. Ended(p, d, 0) BY <1>1, <1>3, EndedIs
<1>. QED BY <1>1, <1>2, <1>4, <1>5, EndMove

\* unlink with the parent locked: the name cannot be taken away, or its inode is taken.
LEMMA UnlinkDirKept == ASSUME Inv, Kept, Inv', NEW p \in Procs, UnlinkDir(p) PROVE Kept'
<1>. DEFINE d == k[p].dp
            n == Head(k[p].path)
            i == Dirlookup(d, n)
<1>1. /\ k[p].pc = "parent" /\ ~booting /\ k[p].op = "unlink" /\ dino' = dino /\ ents' = ents /\ stable' = stable
      /\ cwd' = cwd /\ fd' = fd /\ missed' = missed /\ booting' = booting /\ panicked' = panicked
  BY DEF UnlinkDir, At, Up, diskVars
<1>2. Steady /\ SameNames BY <1>1 DEF Steady, SameNames
<1>3. CASE CannotUnlink(d, n)
  <2>1. k' = [k EXCEPT ![p] = PutThen(p, <<k[p].dp>>, "done")] /\ core' = core BY <1>3 DEF UnlinkDir, memVars
  <2>2. Grows BY <2>1, CoreIsTable, GrowsBy DEF Inv
  <2>. QED BY <1>1, <1>2, <2>1, <2>2, ParentEndsKept
<1>4. CASE ~CannotUnlink(d, n)
  <2>1. core' = Iget(core, i) /\ k' = [k EXCEPT ![p].pc = "unlink", ![p].ip = i] /\ i # 0
    BY <1>4 DEF UnlinkDir, CannotUnlink
  <2>2. d \in Inums /\ n \in Elements /\ n # DotDot /\ i \in {0} \cup Inums
    BY <1>1, <1>4, ParentFacts DEF CannotUnlink
  <2>3. i \in Inums /\ dino[i].nlink >= 1 BY <2>1, <2>2, NamedIs DEF Dirlookup
  <2>4. Grows BY <2>1, <2>3, CoreIsTable, GrowsBy DEF Inv
  <2>5. k \in [Procs -> CallRecords] /\ Fst(k[p]) = 0 /\ Snd(k[p]) = 0 BY <1>1, ParentHas DEF Inv, Tables
  <2>. HIDE DEF i
  <2>6. /\ k'[p].pc = "unlink" /\ k'[p].ip = i /\ k'[p].op = k[p].op /\ k'[p].dp = d /\ k'[p].old = k[p].old
        /\ k'[p].puts = k[p].puts /\ \A q \in Procs \ {p} : k'[q] = k[q] BY <2>1, <2>5 DEF CallRecords
  <2>7. Fst(k'[p]) = 0 /\ Snd(k'[p]) = 0 BY <2>5, <2>6 DEF Fst, Snd
  <2>. QED BY <1>1, <1>2, <2>3, <2>4, <2>6, <2>7, ParentMove
<1>. QED BY <1>3, <1>4

\* sys_link that finds the name taken.
LEMMA LinkTakenKept ==
  ASSUME Inv, Kept, Inv', NEW p \in Procs, LinkTo(p), Dirlookup(k[p].dp, Head(k[p].path)) # 0 PROVE Kept'
<1>. DEFINE d == k[p].dp
<1>1. /\ k[p].pc = "parent" /\ ~booting /\ k[p].op = "linkto" /\ k' = [k EXCEPT ![p] = PutThen(p, <<d>>, "linkbad")]
      /\ dino' = dino /\ ents' = ents /\ stable' = stable /\ core' = core
      /\ cwd' = cwd /\ fd' = fd /\ missed' = missed /\ booting' = booting /\ panicked' = panicked
  BY DEF LinkTo, At, Up, memVars
<1>2. Steady /\ SameNames BY <1>1 DEF Steady, SameNames
<1>3. Grows BY <1>1, CoreIsTable, GrowsBy DEF Inv
<1>4. Tables /\ d \in Inums /\ k \in [Procs -> CallRecords] /\ "linkbad" \in Stages
  BY <1>1, ParentHas DEF Inv, Tables, Stages
<1>5. k'[p] = PutThen(p, <<d>>, "linkbad") /\ \A q \in Procs \ {p} : k'[q] = k[q] BY <1>1, <1>4
<1>. HIDE DEF d
<1>6. Went(p, 0, d, "linkbad") BY <1>4, <1>5, GoesOn
<1>7. /\ k'[p].pc = "put" /\ k'[p].op = "linkto" /\ k'[p].ip = 0 /\ k'[p].dp = 0 /\ k'[p].old = k[p].old
      /\ Fst(k'[p]) = k[p].dp /\ Snd(k'[p]) = 0 BY <1>1, <1>6 DEF Went, d
<1>. QED BY <1>1, <1>2, <1>3, <1>5, <1>7, ParentMove

\* create of a name that is there, or with no inode left.
LEMMA CreateFoundKept ==
  ASSUME Inv, Kept, Inv', NEW p \in Procs, CreateDir(p), ~Strays(p),
         Dirlookup(k[p].dp, Head(k[p].path)) # 0 \/ FreeInums = {} PROVE Kept'
<1>. DEFINE d == k[p].dp
            n == Head(k[p].path)
            i == Dirlookup(d, n)
<1>1. /\ k[p].pc = "parent" /\ ~booting /\ k[p].op \in {"creat", "mkdir", "mknod"} /\ ents' = ents /\ stable' = stable
      /\ cwd' = cwd /\ fd' = fd /\ missed' = missed /\ booting' = booting /\ panicked' = panicked
  BY DEF CreateDir, At, Up
<1>2. /\ dino' = dino
      /\ \/ i = 0 /\ core' = core /\ k' = [k EXCEPT ![p] = PutThen(p, <<k[p].dp>>, "done")]
         \/ i # 0 /\ core' = Iget(core, i) /\ k' = [k EXCEPT ![p] = [PutThen(p, <<d>>, "old") EXCEPT !.ip = i]]
  BY DEF CreateDir, memVars
<1>3. Steady /\ SameNames BY <1>1, <1>2 DEF Steady, SameNames
<1>4. CASE i = 0 /\ core' = core /\ k' = [k EXCEPT ![p] = PutThen(p, <<k[p].dp>>, "done")]
  <2>1. Grows BY <1>4, CoreIsTable, GrowsBy DEF Inv
  <2>. QED BY <1>1, <1>3, <1>4, <2>1, ParentEndsKept
<1>5. CASE i # 0 /\ core' = Iget(core, i) /\ k' = [k EXCEPT ![p] = [PutThen(p, <<d>>, "old") EXCEPT !.ip = i]]
  <2>1. d \in Inums /\ n \in Elements /\ i \in {0} \cup Inums BY <1>1, ParentFacts
  <2>2. i \in Inums BY <1>5, <2>1
  <2>3. Grows BY <1>5, <2>2, CoreIsTable, GrowsBy DEF Inv
  <2>4. Tables /\ k \in [Procs -> CallRecords] /\ "old" \in Stages BY DEF Inv, Tables, Stages
  <2>5. k'[p] = [PutThen(p, <<d>>, "old") EXCEPT !.ip = i] /\ \A q \in Procs \ {p} : k'[q] = k[q] BY <1>5, <2>4
  <2>. HIDE DEF d, i
  <2>6. Went(p, i, d, "old") BY <2>1, <2>4, <2>5, GoesOn
  <2>7. /\ k'[p].pc = "put" /\ k'[p].ip = i /\ k'[p].dp = 0 /\ k'[p].old = k[p].old
        /\ Fst(k'[p]) = k[p].dp /\ Snd(k'[p]) = 0 /\ k'[p].after = "old" BY <2>6 DEF Went, d
  <2>8. ents[k[p].dp][Head(k[p].path)] = i /\ k[p].dp \in Inums /\ k[p].dp # 0 BY <2>1 DEF Dirlookup, d, i, Inums
  <2>9. Head(k[p].path) = DotDot => ~Lost(k[p].dp) BY <2>7, <2>8, <1>1 DEF Strays
  <2>10. dino[i].nlink >= 1 BY <2>1, <2>2, <2>8, <2>9, FoundIs DEF d
  <2>. QED BY <1>1, <1>3, <2>2, <2>3, <2>5, <2>7, <2>10, ParentMove
<1>. QED BY <1>2, <1>4, <1>5

\* A call that has the inode and its parent.
LEMMA BothHas == ASSUME Inv, NEW p \in Procs, k[p].pc \in {"unlink", "new"}
  PROVE  /\ k[p].pc \notin Puts /\ Fst(k[p]) = 0 /\ Snd(k[p]) = 0 /\ k[p].old = 0
         /\ k[p].dp \in Inums /\ k[p].ip \in Inums /\ k[p].op # "linkto"
<1>1. k[p].pc \notin Puts BY DEF Puts
<1>2. k[p].op # "linkto" BY DEF Inv, CallsOK, Agrees
<1>. QED BY <1>1, <1>2, CallIs, FstIs DEF Inv

\* sys_unlink does not find an inode without links.
LEMMA UnlinkCounts == ASSUME Inv, Kept, NEW p \in Procs, k[p].pc = "unlink" PROVE dino[k[p].ip].nlink >= 1
<1>1. k[p].dp \in Inums /\ k[p].ip \in Inums BY BothHas
<1>2. Head(k[p].path) \in Elements /\ Head(k[p].path) # DotDot
  <2>1. k[p].path # <<>> /\ Head(k[p].path) # DotDot BY DEF Inv, CallsOK, Agrees
  <2>2. k[p].path \in Seq(Elements) BY Fields DEF Inv
  <2>. QED BY <2>1, <2>2
<1>3. ents[k[p].dp][Head(k[p].path)] = k[p].ip BY DEF Inv, TreeOK
<1>. QED BY <1>1, <1>2, <1>3, NamedIs

\* sys_unlink of a directory with entries.
LEMMA UnlinkFullKept ==
  ASSUME Inv, Kept, Inv', NEW p \in Procs, Unlink(p), Locked(k[p].ip).inode.type = "dir" /\ ~IsDirEmpty(k[p].ip)
  PROVE Kept'
<1>. DEFINE i == k[p].ip
            d == k[p].dp
            c == [core EXCEPT ![i] = Locked(i)]
<1>1. k[p].pc = "unlink" /\ ~booting /\ lock[i] = None BY DEF Unlink, AtInode, At, Up
<1>2. /\ k[p].pc \notin Puts /\ k[p].pc # "new" /\ i \in Inums /\ d \in Inums /\ Tables BY <1>1, BothHas DEF Inv
<1>3. SameTable(c) /\ c[i].valid /\ Locked(i).inode = dino[i] BY <1>1, <1>2, LockedThere
<1>4. ~NoType(i) /\ ~(Locked(i).inode.nlink < 1)
  <2>1. dino[i].nlink >= 1 BY <1>1, UnlinkCounts
  <2>2. dino[i].nlink \in Int BY <1>2 DEF Tables, Inodes
  <2>. QED BY <1>2, <1>3, <2>1, <2>2, TypeThere
<1>5. /\ core' = c /\ k' = [k EXCEPT ![p] = PutThen(p, <<i, d>>, "done")]
      /\ dino' = dino /\ ents' = ents /\ stable' = stable /\ cwd' = cwd /\ fd' = fd /\ missed' = missed
      /\ booting' = booting /\ panicked' = panicked BY <1>4 DEF Unlink
<1>. HIDE DEF c
<1>6. Grows /\ core'[i].valid BY <1>2, <1>3, <1>5, GrowsBy
<1>7. Steady /\ SameNames BY <1>1, <1>5 DEF Steady, SameNames
<1>8. cwd'[p] \in {cwd[p], k[p].ip} /\ \A q \in Procs \ {p} : cwd'[q] = cwd[q] /\ fd'[q] = fd[q] BY <1>5
<1>9. ASSUME NEW x \in Inums, x \in {cwd'[p], fd'[p], i, d}
      PROVE Known(p, x)
  BY <1>9, <1>5, <1>6 DEF Holds, Firm
<1>. HIDE DEF i, d
<1>10. Ended(p, i, d) BY <1>2, <1>5, EndedIs
<1>. QED BY <1>2, <1>6, <1>7, <1>8, <1>9, <1>10, EndMove

\* What is left to put when the first inode has been.
LEMMA PoppedFst ==
  ASSUME Tables, CallsOK, NEW p \in Procs, k[p].pc \in Puts PROVE Fst(Popped(p)) = Snd(k[p]) /\ Snd(Popped(p)) = 0
<1>1. k[p] \in CallRecords /\ k[p].puts \in Seq(Inums) /\ Len(k[p].puts) \in {1, 2} /\ k[p].puts # <<>>
  BY Fields, CallIs DEF CallsOK, Agrees
<1>2. PICK s \in Seq(Inums) : s = k[p].puts /\ s # <<>> /\ Len(s) \in {1, 2} BY <1>1
<1>3. Popped(p).puts = Tail(s) BY <1>1, <1>2 DEF Popped, CallRecords
<1>4. CASE Len(s) = 1
  <2>1. PICK a : s = <<a>>
    <3>1. s = <<s[1]>> BY <1>4
    <3>. QED BY <3>1
  <2>2. Tail(s) = <<>> BY <2>1
  <2>3. Snd(k[p]) = 0 BY <2>1, <1>2, PutsOf
  <2>4. Fst(Popped(p)) = 0 /\ Snd(Popped(p)) = 0 BY <2>2, <1>3, PutsOf
  <2>. QED BY <2>3, <2>4
<1>5. CASE Len(s) = 2
  <2>1. PICK a, b : s = <<a, b>>
    <3>1. s = <<s[1], s[2]>> BY <1>5
    <3>. QED BY <3>1
  <2>2. Tail(s) = <<b>> BY <2>1
  <2>3. Snd(k[p]) = b BY <2>1, <1>2, PutsOf
  <2>4. Fst(Popped(p)) = b /\ Snd(Popped(p)) = 0 BY <2>2, <1>3, PutsOf
  <2>. QED BY <2>3, <2>4
<1>. QED BY <1>2, <1>4, <1>5

\* A reference dropped: the last one of an inode without links leaves it free, or in missed.
LEMMA DropKept ==
  ASSUME Inv, Kept, Inv', NEW p \in Procs, k[p].pc \in {"put", "drop"}, ~booting, booting' = booting,
         core' = Dropped(Head(k[p].puts)), k' = [k EXCEPT ![p] = Popped(p)],
         SameNames, cwd' = cwd, fd' = fd, missed \subseteq missed', panicked' = panicked,
         core[Head(k[p].puts)].ref = 1 => \/ dino[Head(k[p].puts)].nlink # 0 \/ dino[Head(k[p].puts)].type = "free"
                                          \/ Head(k[p].puts) \in missed' PROVE Kept'
<1>. DEFINE i == Head(k[p].puts)
            r == Popped(p)
<1>1. Tables /\ CallsOK /\ RefsOK /\ k[p].pc \in Puts /\ k \in [Procs -> CallRecords] BY DEF Puts, Inv, Tables
<1>2. i \in Inums /\ Fst(k[p]) = i BY <1>1, FstIs
<1>3. core[i].ref # 0
  <2>1. HeldBy(p, i) BY <1>2 DEF Holds
  <2>. QED BY <2>1, <1>1, <1>2, HoldersRef DEF HeldCounted
<1>4. /\ r.pc \notin Locks /\ r.dp = 0 /\ r.old = k[p].old /\ r.ip = k[p].ip /\ r.op = k[p].op
      /\ r.pc \in Puts => r.pc = "put" /\ r.after = k[p].after
      /\ r.pc \notin Puts => r.pc = k[p].after
      /\ Fst(r) = Snd(k[p]) /\ Snd(r) = 0 BY <1>1, PoppedIs, PoppedFst
<1>5. k'[p] = r /\ \A q \in Procs \ {p} : k'[q] = k[q] BY <1>1
<1>. HIDE DEF r, i
<1>6. r.pc \notin {"new", "free", "invalid", "drop"} /\ k[p].pc # "new" BY <1>4 DEF Locks, Puts
<1>8. Others(p) BY <1>5 DEF Others
<1>9. ASSUME NEW x \in Inums
      PROVE  /\ UsedBy(p, x)' => UsedBy(p, x)
             /\ HeldBy(p, x)' => HeldBy(p, x)
             /\ FirmBy(p, x)' => FirmBy(p, x)
             /\ Treads(cwd'[p], k'[p], x) => Treads(cwd[p], k[p], x) \/ dino[x].nlink >= 1
  <2>1. x # 0 BY DEF Inums
  <2>. QED BY <2>1, <1>4, <1>5, <1>6 DEF Uses, Holds, Firm, Treads
<1>10. Takes(p) BY <1>9 DEF Takes
<1>11. core' = Dropped(i) /\ (core[i].ref = 1 => dino[i].nlink # 0 \/ dino[i].type = "free" \/ i \in missed') BY DEF i
<1>12. /\ \A j \in Inums \ {i} : core'[j] = core[j]
       /\ core[i].ref # 1 => core'[i].valid = core[i].valid /\ core'[i].ref # 0
       /\ core[i].ref = 1 => core'[i] = NoCore BY <1>1, <1>2, <1>3, <1>11, DroppedIs
<1>13. \A x \in Inums : core[x].valid => core'[x].valid \/ core'[x].ref = 0 BY <1>12, NoCoreIs
<1>14. \A x \in Inums : core[x].ref > 0 /\ core'[x].ref = 0 => \/ dino[x].nlink # 0 \/ dino[x].type = "free"
                                                              \/ x \in missed' BY <1>11, <1>12
<1>15. Plain(p) BY <1>4, <1>5, <1>6, <1>8, <1>9, <1>10, <1>13, <1>14 DEF Plain
<1>. QED BY <1>15, PlainKept

\* The only reference to an inode, which is about to be dropped: nobody frees the inode.
LEMMA SoleSettled ==
  ASSUME Inv, Kept, NEW p \in Procs, k[p].pc \in {"put", "drop"}, core[Fst(k[p])].ref = 1, core[Fst(k[p])].valid
  PROVE dino[Fst(k[p])] = core[Fst(k[p])].inode
<1>. DEFINE i == Fst(k[p])
<1>1. i \in Inums BY FstIs DEF Inv, Puts
<1>2. ~NotBy(p, i)
  <2>1. HeldBy(p, i) BY DEF Holds
  <2>. QED BY <2>1, <1>1, HoldsApart
<1>3. \A q \in Procs \ {p} : NotBy(q, i) BY <1>1, <1>2, SoleRef DEF Inv
<1>4. ASSUME NEW q \in Procs, k[q].pc = "invalid", Head(k[q].puts) = i PROVE FALSE
  <2>1. Fst(k[q]) = i BY <1>4, FstIs DEF Inv, Puts
  <2>2. q \in Procs \ {p} /\ HeldBy(q, i) BY <1>4, <2>1 DEF Holds
  <2>. QED BY <2>2, <1>1, <1>3, HoldsApart
<1>. QED BY <1>1, <1>4 DEF Inv, CoresOK, Stale

\* iput that drops a reference and nothing else.
LEMMA IputPlainKept == ASSUME Inv, Kept, Inv', NEW p \in Procs, Iput(p), ~LastOfUnlinked(Head(k[p].puts)) PROVE Kept'
<1>1. /\ k[p].pc = "put" /\ ~booting /\ booting' = booting
      /\ core' = Dropped(Head(k[p].puts)) /\ k' = [k EXCEPT ![p] = Popped(p)]
      /\ dino' = dino /\ ents' = ents /\ stable' = stable
      /\ cwd' = cwd /\ fd' = fd /\ missed' = missed /\ panicked' = panicked BY DEF Iput, At, Up, diskVars
<1>2. Fst(k[p]) = Head(k[p].puts) /\ Fst(k[p]) \in Inums BY <1>1, FstIs DEF Inv, Puts
<1>3. PICK i \in Inums : i = Fst(k[p]) /\ i = Head(k[p].puts) BY <1>2
<1>4. i = Root \/ core[i].valid
  <2>1. FirmBy(p, i) BY <1>1, <1>3 DEF Firm
  <2>. QED BY <2>1 DEF Kept, Read
<1>5. ASSUME core[i].ref = 1 PROVE dino[i].nlink # 0
  <2>1. CASE i = Root BY <2>1, NamedIs
  <2>2. CASE core[i].valid
    <3>1. dino[i] = core[i].inode BY <1>1, <1>3, <1>5, <2>2, SoleSettled
    <3>. QED BY <3>1, <1>3, <1>5, <2>2 DEF LastOfUnlinked
  <2>. QED BY <1>4, <2>1, <2>2
<1>6. SameNames BY <1>1 DEF SameNames
<1>7. missed \subseteq missed' /\ k[p].pc \in {"put", "drop"} BY <1>1
<1>8. core[Head(k[p].puts)].ref = 1 => dino[Head(k[p].puts)].nlink # 0 BY <1>3, <1>5
<1>. QED BY <1>1, <1>6, <1>7, <1>8, DropKept

\* iput that drops the reference to the inode it has freed.
LEMMA IputDropKept == ASSUME Inv, Kept, Inv', NEW p \in Procs, IputDrop(p) PROVE Kept'
<1>1. /\ k[p].pc = "drop" /\ ~booting /\ booting' = booting
      /\ core' = Dropped(Head(k[p].puts)) /\ k' = [k EXCEPT ![p] = Popped(p)]
      /\ missed' = IF LastOfUnlinked(Head(k[p].puts)) THEN missed \cup {Head(k[p].puts)} ELSE missed
      /\ dino' = dino /\ ents' = ents /\ stable' = stable /\ cwd' = cwd /\ fd' = fd /\ panicked' = panicked
  BY DEF IputDrop, At, Up, diskVars
<1>2. Fst(k[p]) = Head(k[p].puts) /\ Fst(k[p]) \in Inums BY <1>1, FstIs DEF Inv, Puts
<1>3. PICK i \in Inums : i = Fst(k[p]) /\ i = Head(k[p].puts) BY <1>2
<1>4. \/ dino[i].type = "free" \/ core[i].valid
      \/ \E q \in Procs : k[q].pc = "new" /\ k[q].ip = i
  <2>1. Gone /\ k[p].pc \in Leaving BY <1>1 DEF Kept, Leaving
  <2>2. \/ dino[Fst(k[p])].type = "free"
        \/ k[p].pc = "drop" /\ core[Fst(k[p])].valid
        \/ \E q \in Procs : k[q].pc = "new" /\ k[q].ip = Fst(k[p]) BY <2>1, Zenon DEF Gone
  <2>. QED BY <2>2, <1>3
<1>5. ASSUME core[i].ref = 1, dino[i].type # "free", i \notin missed' PROVE dino[i].nlink # 0
  <2>1. ASSUME NEW q \in Procs, k[q].pc = "new", k[q].ip = i PROVE FALSE
    <3>1. HeldBy(q, i) /\ HeldBy(p, i) /\ q \in Procs \ {p}
      BY <1>1, <1>3, <2>1 DEF Holds
    <3>2. ~NotBy(p, i) /\ ~NotBy(q, i) BY <3>1, HoldsApart
    <3>. QED BY <3>1, <3>2, <1>5, SoleRef DEF Inv
  <2>2. core[i].valid BY <1>4, <1>5, <2>1
  <2>3. dino[i] = core[i].inode BY <1>1, <1>3, <1>5, <2>2, SoleSettled
  <2>. QED BY <2>2, <2>3, <1>1, <1>3, <1>5 DEF LastOfUnlinked
<1>6. SameNames BY <1>1 DEF SameNames
<1>7. missed \subseteq missed' /\ k[p].pc \in {"put", "drop"} BY <1>1
<1>8. core[Head(k[p].puts)].ref = 1 => \/ dino[Head(k[p].puts)].nlink # 0 \/ dino[Head(k[p].puts)].type = "free"
                                       \/ Head(k[p].puts) \in missed' BY <1>3, <1>5
<1>. QED BY <1>1, <1>6, <1>7, <1>8, DropKept

----
(* iput frees an inode *)

\* The call of p at another stage of iput, with the same references.
LEMMA StagedIs ==
  ASSUME Inv, Kept, NEW p \in Procs, k[p].pc \in Puts, NEW s \in Puts, k' = [k EXCEPT ![p].pc = s],
         cwd' = cwd, fd' = fd
  PROVE  /\ Others(p) /\ k'[p].pc = s /\ k'[p].old = k[p].old /\ k'[p].ip = k[p].ip /\ k'[p].dp = k[p].dp
         /\ Fst(k'[p]) = Fst(k[p]) /\ Snd(k'[p]) = Snd(k[p])
         /\ Fst(k[p]) \in Inums /\ Fst(k[p]) = Head(k[p].puts)
         /\ \A x \in Inums : Treads(cwd'[p], k'[p], x) => Treads(cwd[p], k[p], x)
<1>1. PICK c \in CallRecords : c = k[p] BY Fields DEF Inv
<1>2. k'[p] = [c EXCEPT !.pc = s] /\ \A q \in Procs \ {p} : k'[q] = k[q] BY <1>1 DEF Inv, Tables
<1>3. /\ k'[p].pc = s /\ k'[p].op = c.op /\ k'[p].old = c.old /\ k'[p].ip = c.ip /\ k'[p].dp = c.dp
      /\ k'[p].puts = c.puts /\ k'[p].after = c.after
  <2>. DEFINE r == [c EXCEPT !.pc = s]
  <2>1. r.pc = s /\ r.op = c.op /\ r.old = c.old /\ r.ip = c.ip BY DEF CallRecords
  <2>2. r.dp = c.dp /\ r.puts = c.puts /\ r.after = c.after BY DEF CallRecords
  <2>3. k'[p] = r BY <1>2
  <2>. HIDE DEF r
  <2>. QED BY <2>1, <2>2, <2>3
<1>4. Fst(k'[p]) = Fst(k[p]) /\ Snd(k'[p]) = Snd(k[p]) BY <1>1, <1>3 DEF Fst, Snd
<1>6. Fst(k[p]) \in Inums /\ Fst(k[p]) = Head(k[p].puts) BY FstIs DEF Inv
<1>7. Others(p) BY <1>2 DEF Others
<1>8. \A x \in Inums : Treads(cwd'[p], k'[p], x) => Treads(cwd[p], k[p], x) BY <1>1, <1>3 DEF Treads, Puts
<1>. QED BY <1>1, <1>3, <1>4, <1>6, <1>7, <1>8

\* The last reference to an inode: p has it nowhere else, and the others do not have it.
LEMMA LastHeld == ASSUME Inv, NEW p \in Procs, k[p].pc \in Puts, core[Fst(k[p])].ref = 1
  PROVE  /\ Fst(k[p]) \notin {cwd[p], fd[p], k[p].ip, k[p].dp, k[p].old, Snd(k[p])}
         /\ \A q \in Procs \ {p} : ~Holds(cwd[q], fd[q], k[q], Fst(k[p]))
<1>1. PICK i \in Inums : i = Fst(k[p]) /\ i = Head(k[p].puts) BY FstIs DEF Inv
<1>2. ~NotBy(p, i)
  <2>1. HeldBy(p, i) BY <1>1 DEF Holds
  <2>. QED BY <2>1, HoldsApart
<1>3. /\ \A q \in Procs \ {p} : NotBy(q, i)
      /\ RefsBy(p, i) = 1 BY <1>1, <1>2, SoleRef DEF Inv
<1>4. \A q \in Procs \ {p} : ~HeldBy(q, i) BY <1>3, HoldsApart
<1>5. Tables /\ CallsOK BY DEF Inv
<1>6. /\ RefsBy(p, i) = Tokens(cwd[p], fd[p], Popped(p), i) + Has(i, i)
      /\ Popped(p).old = k[p].old /\ Popped(p).ip = k[p].ip /\ Popped(p).dp = 0 /\ Fst(Popped(p)) = Snd(k[p])
  BY <1>1, <1>5, PoppedIs, PoppedFst
<1>7. Has(i, i) = 1 /\ Tokens(cwd[p], fd[p], Popped(p), i) \in Nat BY TokensZero DEF Has
<1>8. Tokens(cwd[p], fd[p], Popped(p), i) = 0 BY <1>3, <1>6, <1>7
<1>9. Apart(cwd[p], fd[p], Popped(p), i) BY <1>8, TokensZero
<1>10. ~Holds(cwd[p], fd[p], Popped(p), i) BY <1>9, HoldsApart
<1>11. k[p].dp = 0 /\ i # 0 BY <1>5, CallIs DEF Inums
<1>12. i \notin {cwd[p], fd[p], k[p].ip, k[p].dp, k[p].old, Snd(k[p])} BY <1>6, <1>10, <1>11 DEF Holds
<1>. QED BY <1>1, <1>4, <1>12

\* iput decides to free the inode.
LEMMA IputStartsKept == ASSUME Inv, Kept, Inv', NEW p \in Procs, Iput(p), LastOfUnlinked(Head(k[p].puts)) PROVE Kept'
<1>1. /\ k[p].pc = "put" /\ ~booting /\ k' = [k EXCEPT ![p].pc = "free"] /\ core' = core
      /\ stable' = stable /\ missed' = missed /\ panicked' = panicked /\ dino' = dino /\ ents' = ents
      /\ cwd' = cwd /\ fd' = fd /\ booting' = booting BY DEF Iput, At, Up, diskVars
<1>2. k[p].pc \in Puts /\ "free" \in Puts BY <1>1 DEF Puts
<1>3. /\ Others(p) /\ k'[p].pc = "free" /\ k'[p].old = k[p].old /\ k'[p].ip = k[p].ip /\ k'[p].dp = k[p].dp
      /\ Fst(k'[p]) = Fst(k[p]) /\ Snd(k'[p]) = Snd(k[p])
      /\ Fst(k[p]) \in Inums /\ Fst(k[p]) = Head(k[p].puts)
      /\ \A x \in Inums : Treads(cwd'[p], k'[p], x) => Treads(cwd[p], k[p], x) BY <1>1, <1>2, StagedIs
<1>4. PICK i \in Inums : i = Fst(k[p]) /\ i = Head(k[p].puts) BY <1>3
<1>5. SameNames BY <1>1 DEF SameNames
<1>6. BothTree' /\ StableNlinks' /\ NlinksOK' BY <1>3, <1>5, NamesKept
<1>8. ASSUME NEW x \in Inums
      PROVE  /\ UsedBy(p, x)' => UsedBy(p, x)
             /\ HeldBy(p, x)' => HeldBy(p, x)
             /\ FirmBy(p, x)' => FirmBy(p, x)
  BY <1>1, <1>3 DEF Uses, Holds, Firm, Leaving
<1>9. Takes(p) /\ \A x \in Inums : ~Made(p, x) BY <1>3, <1>8 DEF Takes, Made
<1>10. \A x \in Inums : dino'[x].type = dino[x].type /\ dino'[x].nlink = dino[x].nlink /\ ents'[x] = ents[x] BY <1>1
<1>11. k'[p].pc # "new" /\ k[p].pc # "new" /\ k'[p].pc \notin Leaving /\ k'[p].pc = "free" BY <1>1, <1>3 DEF Leaving
<1>12. InUse' BY <1>3, <1>9, <1>10, InUseStep
<1>13. Parented' BY <1>3, <1>10, ParentedStep
<1>14. Fresh' BY <1>3, <1>9, <1>10, <1>11, FreshStep
<1>15. Going'
  <2>1. core[i].ref = 1 /\ core[i].valid /\ core[i].inode.nlink = 0 BY <1>4 DEF LastOfUnlinked
  <2>2. dino[i] = core[i].inode BY <1>1, <1>4, <2>1, SoleSettled
  <2>3. /\ i \notin {cwd[p], fd[p], k[p].ip, k[p].dp, k[p].old, Snd(k[p])}
        /\ \A q \in Procs \ {p} : ~HeldBy(q, i) BY <1>2, <1>4, <2>1, LastHeld
  <2>4. /\ dino'[Fst(k'[p])].nlink = 0
        /\ Fst(k'[p]) \notin {cwd'[p], fd'[p], k'[p].ip, k'[p].dp, k'[p].old, Snd(k'[p])}
        /\ \A q \in Procs \ {p} : ~Holds(cwd[q], fd[q], k[q], Fst(k'[p]))
    BY <1>1, <1>3, <1>4, <2>1, <2>2, <2>3
  <2>. QED BY <1>3, <1>9, <1>10, <1>11, <2>4, GoingStep
<1>16. Read'
  <2>1. \A x \in Inums : FirmBy(p, x)' => FirmBy(p, x) BY <1>8
  <2>2. \A x \in Inums : core[x].valid => core'[x].valid BY <1>1
  <2>. QED BY <1>3, <2>1, <2>2, ReadStep
<1>17. Gone'
  <2>1. \A x \in Inums : core[x].valid => core'[x].valid BY <1>1
  <2>. QED BY <1>3, <1>10, <1>11, <2>1, GoneStep
<1>18. NoPanic' /\ AtRoot' BY <1>1 DEF Kept, NoPanic, AtRoot
<1>19. Accounted'
  <2>1. \A x \in Inums : core[x].ref > 0 => core'[x].ref # 0 BY <1>1 DEF Inv, Tables, Cores
  <2>2. missed \subseteq missed' BY <1>1
  <2>. QED BY <1>1, <1>10, <2>1, <2>2, OrphansStep
<1>. QED BY <1>6, <1>12, <1>13, <1>14, <1>15, <1>16, <1>17, <1>18, <1>19 DEF Kept

\* What Going says of the inode p frees.
LEMMA GoingIs == ASSUME Inv, Kept, NEW p \in Procs, k[p].pc \in {"free", "invalid"}, NEW i, i = Fst(k[p])
  PROVE  /\ dino[i].nlink = 0 /\ i \notin {cwd[p], fd[p], k[p].ip, k[p].dp, k[p].old, Snd(k[p])}
         /\ \A q \in Procs \ {p} : HeldBy(q, i) =>
              k[p].pc = "invalid" /\ k[q].pc = "new" /\ k[q].ip = i
<1>1. Going BY DEF Kept
<1>2. /\ dino[Fst(k[p])].nlink = 0 /\ Fst(k[p]) \notin {cwd[p], fd[p], k[p].ip, k[p].dp, k[p].old, Snd(k[p])}
      /\ \A q \in Procs \ {p} : Holds(cwd[q], fd[q], k[q], Fst(k[p])) =>
           k[p].pc = "invalid" /\ k[q].pc = "new" /\ k[q].ip = Fst(k[p]) BY <1>1, Zenon DEF Going
<1>. QED BY <1>2

\* The names that are left when an inode without links is freed: all of them.
LEMMA FreedNames ==
  ASSUME Inv, Kept, NEW i \in Inums, dino[i].nlink = 0,
         dino' = [dino EXCEPT ![i] = FreeInode], ents' = [ents EXCEPT ![i] = EmptyDir]
  PROVE  /\ i # Root /\ Tree(dino', ents') /\ dino'[i].type = "free" /\ ents'[i] = EmptyDir
         /\ \A x \in Inums \ {i} : dino'[x] = dino[x] /\ ents'[x] = ents[x]
         /\ \A x \in Inums : dino'[x].nlink = dino[x].nlink /\ NamesOf(dino', ents', x) \subseteq NamesOf(dino, ents, x)
<1>1. i # Root BY NamedIs
<1>2. dino \in [Inums -> Inodes] /\ ents \in [Inums -> [Elements -> {0} \cup Inums]] BY DEF Inv, Tables
<1>3. FreeInode.type = "free" /\ FreeInode.nlink = 0 BY DEF FreeInode
<1>4. \A n \in Elements : EmptyDir[n] = 0 BY DEF EmptyDir
<1>5. /\ dino'[i] = FreeInode /\ ents'[i] = EmptyDir
      /\ \A x \in Inums \ {i} : dino'[x] = dino[x] /\ ents'[x] = ents[x] BY <1>2
<1>6. \A x \in Inums : dino'[x].nlink = dino[x].nlink BY <1>3, <1>5
<1>7. ASSUME NEW x \in Inums, NEW e \in Inums \X Elements, e \in NamesOf(dino', ents', x) PROVE e \in NamesOf(dino, ents, x)
  <2>1. e[1] \in Inums /\ dino'[e[1]].type = "dir" BY <1>7 DEF NamesOf
  <2>2. e[1] # i BY <2>1, <1>3, <1>5
  <2>. QED BY <2>1, <2>2, <1>5, <1>7 DEF NamesOf
<1>8. Tree(dino', ents')
  <2>1. Tree(dino, ents) BY DEF Kept, BothTree
  <2>2. Root \in Inums /\ DotDot \in Elements /\ Names \subseteq Elements BY NamedIs DEF Elements
  <2>3. dino'[Root].type = "dir" BY <1>1, <1>5, <2>1, <2>2 DEF Tree
  <2>5. ASSUME NEW d \in Inums, NEW n \in Names PROVE ents'[d][n] # Root BY <1>4, <1>5, <2>1, <2>2 DEF Tree, Root
  <2>6. ASSUME NEW x \in Inums, dino'[x].type = "dir" PROVE x # i /\ dino'[x] = dino[x] /\ ents'[x] = ents[x]
    BY <1>3, <1>5, <2>6
  <2>7. ASSUME NEW x \in Inums \ {i} PROVE Subs(dino', ents', x) = Subs(dino, ents, x)
    <3>1. ASSUME NEW n \in Names
          PROVE (ents'[x][n] # 0 /\ dino'[ents'[x][n]].type = "dir") <=> (ents[x][n] # 0 /\ dino[ents[x][n]].type = "dir")
      <4>1. n \in Elements /\ n # DotDot BY <2>2, FsAssumption
      <4>2. ents[x][n] \in {0} \cup Inums /\ ents'[x] = ents[x] BY <1>2, <1>5, <4>1
      <4>3. ents[x][n] # i BY <4>1, NamedIs
      <4>. QED BY <4>2, <4>3, <1>5
    <3>. QED BY <3>1 DEF Subs
  <2>8. \A x \in Inums : dino'[x].type = "dir" => dino'[x].nlink <= 1 + Cardinality(Subs(dino', ents', x))
    BY <2>1, <2>6, <2>7 DEF Tree
  <2>9. \A x \in Inums : dino'[x].type = "dir" /\ dino'[x].nlink >= 1 => ents'[x][DotDot] # 0 BY <2>1, <2>6 DEF Tree
  <2>10. ASSUME NEW d \in Inums, NEW x \in Inums, NEW n \in Names, ents'[d][n] = x, dino'[x].type = "dir"
         PROVE ents'[x][DotDot] = d
    <3>1. d # i BY <1>4, <1>5, <2>2, <2>10 DEF Inums
    <3>. QED BY <3>1, <1>5, <2>1, <2>6, <2>10 DEF Tree
  <2>. QED BY <2>3, <2>5, <2>8, <2>9, <2>10 DEF Tree
<1>9. \A x \in Inums : NamesOf(dino', ents', x) \subseteq NamesOf(dino, ents, x) BY <1>7 DEF NamesOf
<1>. QED BY <1>1, <1>3, <1>5, <1>6, <1>8, <1>9

\* iput frees the inode: nobody but p has it.
LEMMA IputFreeKept == ASSUME Inv, Kept, Inv', NEW p \in Procs, IputFree(p) PROVE Kept'
<1>1. /\ k[p].pc = "free" /\ ~booting /\ k' = [k EXCEPT ![p].pc = "invalid"]
      /\ core' = [core EXCEPT ![Head(k[p].puts)] = [Locked(Head(k[p].puts)) EXCEPT !.inode = FreeInode]]
      /\ dino' = [dino EXCEPT ![Head(k[p].puts)] = FreeInode] /\ ents' = [ents EXCEPT ![Head(k[p].puts)] = EmptyDir]
      /\ stable' = stable /\ missed' = missed /\ panicked' = panicked /\ cwd' = cwd /\ fd' = fd /\ booting' = booting
  BY DEF IputFree, Update, At, Up
<1>2. k[p].pc \in Puts /\ "invalid" \in Puts BY <1>1 DEF Puts
<1>3. /\ Others(p) /\ k'[p].pc = "invalid" /\ k'[p].old = k[p].old /\ k'[p].ip = k[p].ip /\ k'[p].dp = k[p].dp
      /\ Fst(k'[p]) = Fst(k[p]) /\ Snd(k'[p]) = Snd(k[p])
      /\ Fst(k[p]) \in Inums /\ Fst(k[p]) = Head(k[p].puts)
      /\ \A x \in Inums : Treads(cwd'[p], k'[p], x) => Treads(cwd[p], k[p], x) BY <1>1, <1>2, StagedIs
<1>4. PICK i \in Inums : i = Fst(k[p]) /\ i = Head(k[p].puts) BY <1>3
<1>5. /\ dino[i].nlink = 0 /\ i \notin {cwd[p], fd[p], k[p].ip, k[p].dp, k[p].old, Snd(k[p])}
      /\ \A q \in Procs \ {p} : HeldBy(q, i) =>
           k[p].pc = "invalid" /\ k[q].pc = "new" /\ k[q].ip = i BY <1>1, <1>4, GoingIs
<1>6. \A q \in Procs \ {p} : ~HeldBy(q, i) BY <1>1, <1>5
<1>7. dino' = [dino EXCEPT ![i] = FreeInode] /\ ents' = [ents EXCEPT ![i] = EmptyDir] BY <1>1, <1>4
<1>8. /\ i # Root /\ Tree(dino', ents') /\ dino'[i].type = "free" /\ ents'[i] = EmptyDir
      /\ \A x \in Inums \ {i} : dino'[x] = dino[x] /\ ents'[x] = ents[x]
      /\ \A x \in Inums : dino'[x].nlink = dino[x].nlink /\ NamesOf(dino', ents', x) \subseteq NamesOf(dino, ents, x)
  BY <1>5, <1>7, FreedNames
<1>9. BothTree' /\ StableNlinks' BY <1>1, <1>8 DEF Kept, BothTree, StableNlinks
<1>10. NlinksOK'
  <2>1. ASSUME NEW x \in Inums
        PROVE Counted(dino', ents', k', x)
    <3>1. Linking(k', x) \subseteq Linking(k, x) BY <1>3, LinkingLess
    <3>. QED BY <3>1, <1>8, LinksLess
  <2>. QED BY <2>1 DEF NlinksOK
<1>12. ASSUME NEW x \in Inums
      PROVE  /\ UsedBy(p, x)' => UsedBy(p, x) /\ x # i
             /\ HeldBy(p, x)' => HeldBy(p, x)
             /\ FirmBy(p, x)' => FirmBy(p, x)
  BY <1>1, <1>3, <1>4, <1>5 DEF Uses, Holds, Firm, Leaving
<1>13. Takes(p) /\ \A x \in Inums : ~Made(p, x) BY <1>3, <1>12 DEF Takes, Made
<1>14. k'[p].pc # "new" /\ k[p].pc # "new" /\ k'[p].pc \in Leaving BY <1>1, <1>3 DEF Leaving
<1>15. InUse'
  <2>1. \A q \in Procs : ~Uses(cwd'[q], fd'[q], k'[q], i) BY <1>3, <1>6, <1>12, UsesHolds DEF Others
  <2>2. \A x \in Inums : \/ dino[x].type = "free" \/ dino'[x].type # "free"
                         \/ \A q \in Procs : ~UsedBy(q, x)' BY <2>1, <1>8
  <2>. QED BY <1>3, <1>13, <2>2, InUseStep
<1>16. Parented'
  <2>1. \A x \in Inums : dino'[x].type = "dir" => dino[x].type = "dir" /\ ents'[x][DotDot] = ents[x][DotDot]
    BY <1>8
  <2>. QED BY <1>3, <2>1, ParentedStep
<1>17. Fresh'
  <2>1. NotNew(p, i) BY <1>1, <1>4 DEF NotNew, Inv, HeldOK
  <2>2. \A x \in Inums : (dino'[x].nlink = dino[x].nlink /\ ents'[x] = ents[x]) \/ NotNew(p, x) BY <2>1, <1>8
  <2>. QED BY <1>3, <1>13, <1>14, <2>2, FreshStep
<1>18. Going'
  <2>1. /\ dino'[Fst(k'[p])].nlink = 0
        /\ Fst(k'[p]) \notin {cwd'[p], fd'[p], k'[p].ip, k'[p].dp, k'[p].old, Snd(k'[p])}
        /\ \A q \in Procs \ {p} : ~Holds(cwd[q], fd[q], k[q], Fst(k'[p]))
    BY <1>1, <1>3, <1>4, <1>5, <1>6, <1>8
  <2>2. \A x \in Inums : dino'[x].nlink = dino[x].nlink BY <1>8
  <2>. QED BY <1>3, <1>13, <1>14, <2>1, <2>2, GoingStep
<1>19. \A x \in Inums : (core[x].valid => core'[x].valid) /\ core'[x].ref = core[x].ref
  <2>1. core \in [Inums -> Cores] /\ core[i].valid BY <1>1, <1>4 DEF Inv, Tables, CoresOK
  <2>2. PICK c \in Cores : c = core[i] /\ c.valid BY <2>1
  <2>3. core' = [core EXCEPT ![i] = [c EXCEPT !.inode = FreeInode]] BY <1>1, <1>4, <2>1, <2>2 DEF Locked
  <2>4. [c EXCEPT !.inode = FreeInode].valid /\ [c EXCEPT !.inode = FreeInode].ref = c.ref BY <2>2 DEF Cores
  <2>. QED BY <2>1, <2>2, <2>3, <2>4
<1>20. Read'
  <2>1. \A x \in Inums : FirmBy(p, x)' => FirmBy(p, x) BY <1>12
  <2>. QED BY <1>3, <1>19, <2>1, ReadStep
<1>21. Gone'
  <2>1. \A x \in Inums : dino[x].type = "free" => dino'[x].type = "free" BY <1>8
  <2>2. dino'[Fst(k'[p])].type = "free" BY <1>3, <1>4, <1>8
  <2>. QED BY <1>3, <1>14, <1>19, <2>1, <2>2, GoneStep
<1>22. NoPanic' /\ AtRoot' BY <1>1 DEF Kept, NoPanic, AtRoot
<1>23. Accounted'
  <2>1. ASSUME NEW x \in Inums, dino'[x].type # "free", dino'[x].nlink = 0
        PROVE dino[x].type # "free" /\ dino[x].nlink = 0 /\ (core[x].ref > 0 => core'[x].ref # 0)
    <3>1. core[x].ref \in Nat BY DEF Inv, Tables, Cores
    <3>. QED BY <2>1, <3>1, <1>8, <1>19
  <2>2. missed \subseteq missed' BY <1>1
  <2>. QED BY <1>1, <2>1, <2>2, OrphansStep
<1>. QED BY <1>9, <1>10, <1>15, <1>16, <1>17, <1>18, <1>20, <1>21, <1>22, <1>23 DEF Kept

\* iput makes the copy invalid: nobody relies on it.
LEMMA IputInvalidKept == ASSUME Inv, Kept, Inv', NEW p \in Procs, IputInvalid(p) PROVE Kept'
<1>1. /\ k[p].pc = "invalid" /\ ~booting /\ k' = [k EXCEPT ![p].pc = "drop"]
      /\ core' = [core EXCEPT ![Head(k[p].puts)].valid = FALSE]
      /\ stable' = stable /\ missed' = missed /\ panicked' = panicked /\ dino' = dino /\ ents' = ents
      /\ cwd' = cwd /\ fd' = fd /\ booting' = booting BY DEF IputInvalid, At, Up, diskVars
<1>2. k[p].pc \in Puts /\ "drop" \in Puts BY <1>1 DEF Puts
<1>3. /\ Others(p) /\ k'[p].pc = "drop" /\ k'[p].old = k[p].old /\ k'[p].ip = k[p].ip /\ k'[p].dp = k[p].dp
      /\ Fst(k'[p]) = Fst(k[p]) /\ Snd(k'[p]) = Snd(k[p])
      /\ Fst(k[p]) \in Inums /\ Fst(k[p]) = Head(k[p].puts)
      /\ \A x \in Inums : Treads(cwd'[p], k'[p], x) => Treads(cwd[p], k[p], x) BY <1>1, <1>2, StagedIs
<1>4. PICK i \in Inums : i = Fst(k[p]) /\ i = Head(k[p].puts) BY <1>3
<1>5. /\ i \notin {cwd[p], fd[p], k[p].ip, k[p].dp, k[p].old, Snd(k[p])}
      /\ \A q \in Procs \ {p} : HeldBy(q, i) =>
           k[p].pc = "invalid" /\ k[q].pc = "new" /\ k[q].ip = i BY <1>1, <1>4, GoingIs
<1>6. SameNames BY <1>1 DEF SameNames
<1>7. BothTree' /\ StableNlinks' /\ NlinksOK' BY <1>3, <1>6, NamesKept
<1>9. ASSUME NEW x \in Inums
      PROVE  /\ UsedBy(p, x)' => UsedBy(p, x)
             /\ HeldBy(p, x)' => HeldBy(p, x)
             /\ FirmBy(p, x)' => FirmBy(p, x) /\ x # i
  BY <1>1, <1>3, <1>4, <1>5 DEF Uses, Holds, Firm, Leaving
<1>10. Takes(p) /\ \A x \in Inums : ~Made(p, x) BY <1>3, <1>9 DEF Takes, Made
<1>11. \A x \in Inums : dino'[x].type = dino[x].type /\ dino'[x].nlink = dino[x].nlink /\ ents'[x] = ents[x] BY <1>1
<1>12. k'[p].pc # "new" /\ k[p].pc # "new" /\ k'[p].pc \notin {"free", "invalid"} BY <1>1, <1>3
<1>13. InUse' BY <1>3, <1>10, <1>11, InUseStep
<1>14. Parented' BY <1>3, <1>11, ParentedStep
<1>15. Fresh' BY <1>3, <1>10, <1>11, <1>12, FreshStep
<1>16. Going' BY <1>3, <1>10, <1>11, <1>12, GoingStep
<1>17. \A x \in Inums : (core[x].valid /\ x # i => core'[x].valid) /\ core'[x].ref = core[x].ref
  <2>1. core \in [Inums -> Cores] BY DEF Inv, Tables
  <2>2. PICK c \in Cores : c = core[i] BY <2>1
  <2>3. core' = [core EXCEPT ![i] = [c EXCEPT !.valid = FALSE]] BY <1>1, <1>4, <2>1, <2>2
  <2>4. [c EXCEPT !.valid = FALSE].ref = c.ref BY <2>2 DEF Cores
  <2>. QED BY <2>1, <2>2, <2>3, <2>4
<1>18. ASSUME NEW q \in Procs \ {p} PROVE ~FirmBy(q, i)
  <2>1. CASE k[q].pc = "new" /\ k[q].ip = i
    <3>1. k[q].ip \notin {cwd[q], fd[q]} BY <2>1 DEF Kept, Fresh
    <3>2. Fst(k[q]) = 0 /\ Snd(k[q]) = 0 /\ k[q].old = 0 BY <2>1, BothHas
    <3>3. k[q].ip # k[q].dp BY <2>1 DEF Inv, HeldOK
    <3>4. i # 0 BY DEF Inums
    <3>. QED BY <2>1, <3>1, <3>2, <3>3, <3>4 DEF Firm
  <2>2. CASE ~HeldBy(q, i) BY <2>2, UsesHolds
  <2>. QED BY <2>1, <2>2, <1>5
<1>19. Read'
  <2>1. \A x \in Inums : FirmBy(p, x)' => FirmBy(p, x) BY <1>9
  <2>2. \A q \in Procs : ~Firm(cwd'[q], fd'[q], k'[q], i) BY <1>3, <1>9, <1>18 DEF Others
  <2>3. \A x \in Inums : core[x].valid => core'[x].valid \/ \A q \in Procs : ~FirmBy(q, x)'
    BY <1>17, <2>2
  <2>. QED BY <1>3, <2>1, <2>3, ReadStep
<1>20. Gone'
  <2>1. ASSUME NEW q \in Procs \ {p}, k[q].pc = "drop", Fst(k[q]) = i PROVE FALSE
    <3>1. HeldBy(q, i) BY <2>1 DEF Holds
    <3>. QED BY <3>1, <2>1, <1>5
  <2>2. \A x \in Inums : core[x].valid => core'[x].valid \/ \A q \in Procs \ {p} : k[q].pc = "drop" => Fst(k[q]) # x
    BY <2>1, <1>17
  <2>3. \/ dino[i].type = "free"
        \/ \E q \in Procs : k[q].pc = "new" /\ k[q].ip = i
    <3>1. Gone /\ k[p].pc \in Leaving BY <1>1 DEF Kept, Leaving
    <3>2. \/ dino[Fst(k[p])].type = "free"
          \/ k[p].pc = "drop" /\ core[Fst(k[p])].valid
          \/ \E q \in Procs : k[q].pc = "new" /\ k[q].ip = Fst(k[p]) BY <3>1, Zenon DEF Gone
    <3>. QED BY <3>2, <1>1, <1>4
  <2>4. \/ dino'[Fst(k'[p])].type = "free"
        \/ \E q \in Procs \ {p} : k[q].pc = "new" /\ k[q].ip = Fst(k'[p]) BY <2>3, <1>1, <1>3, <1>4
  <2>5. \A x \in Inums : dino[x].type = "free" => dino'[x].type = "free" BY <1>1
  <2>. QED BY <1>3, <1>12, <2>2, <2>4, <2>5, GoneStep
<1>21. NoPanic' /\ AtRoot' BY <1>1 DEF Kept, NoPanic, AtRoot
<1>22. Accounted'
  <2>1. \A x \in Inums : core[x].ref > 0 => core'[x].ref # 0 BY <1>17 DEF Inv, Tables, Cores
  <2>2. missed \subseteq missed' BY <1>1
  <2>. QED BY <1>1, <1>11, <2>1, <2>2, OrphansStep
<1>. QED BY <1>7, <1>13, <1>14, <1>15, <1>16, <1>19, <1>20, <1>21, <1>22 DEF Kept

----
(* Steps that make and remove names *)

\* The rest of the invariant after a step that writes names, if the tree and the links are right.
LEMMA TouchKept ==
  ASSUME Inv, Kept, Inv', NEW p \in Procs, Others(p), Steady, Grows, Reaches(p), Touches(p),
         Tree(dino', ents'), NlinksOK', stable' = stable,
         k[p].pc \notin Puts, k'[p].pc \notin {"new", "free", "invalid", "drop"},
         k[p].pc = "new" => lock[k[p].ip] = None /\ core'[k[p].ip].valid PROVE Kept'
<1>1. BothTree' /\ StableNlinks' BY DEF Kept, BothTree, StableNlinks
<1>3. ASSUME NEW x \in Inums
      PROVE  /\ UsedBy(p, x) <=> HeldBy(p, x)
             /\ UsedBy(p, x)' => HeldBy(p, x)'
  <2>1. k[p].pc \notin Leaving BY DEF Puts, Leaving
  <2>. QED BY <2>1, UsesHolds
<1>4. Takes(p) /\ \A x \in Inums : ~Made(p, x) BY <1>3 DEF Takes, Made, Reaches
<1>5. \A x \in Inums : dino'[x].type = dino[x].type BY DEF Touches
<1>6. InUse' BY <1>4, <1>5, InUseStep
<1>7. Parented'
  <2>1. \A x \in Inums : dino'[x].type = "dir" =>
          dino[x].type = "dir" /\ (ents'[x][DotDot] # 0 \/ ents'[x][DotDot] = ents[x][DotDot]) BY DEF Touches
  <2>2. \A x \in Inums : Treads(cwd'[p], k'[p], x) => Treads(cwd[p], k[p], x) \/ dino[x].nlink >= 1 BY DEF Reaches
  <2>. QED BY <2>1, <2>2, ParentedStep
<1>8. k'[p].pc # "new" /\ k'[p].pc \notin {"free", "invalid"} /\ k'[p].pc \notin Leaving BY DEF Leaving
<1>9. Fresh'
  <2>1. \A x \in Inums : (dino'[x].nlink = dino[x].nlink /\ ents'[x] = ents[x]) \/ NotNew(p, x) BY DEF Touches
  <2>. QED BY <1>4, <1>8, <2>1, FreshStep
<1>10. Going'
  <2>1. \A x \in Inums : dino'[x].nlink = dino[x].nlink \/ NotGoing(p, x) BY DEF Touches
  <2>. QED BY <1>4, <1>8, <2>1, GoingStep
<1>11. \A x \in Inums : (core[x].valid => core'[x].valid) /\ (core[x].ref > 0 => core'[x].ref # 0) BY DEF Grows
<1>12. Read'
  <2>1. \A x \in Inums : FirmBy(p, x)' => FirmNow(p, x)
    BY DEF Reaches
  <2>. QED BY <1>11, <2>1, ReadStep
<1>13. Gone' BY <1>5, <1>8, <1>11, GoneStep
<1>14. NoPanic' /\ AtRoot' /\ ~booting /\ missed \subseteq missed' BY DEF Kept, NoPanic, AtRoot, Steady
<1>15. Accounted'
  <2>1. ASSUME NEW x \in Inums, dino'[x].type # "free", dino'[x].nlink = 0
        PROVE  \/ HeldBy(p, x)'
               \/ dino[x].type # "free" /\ dino[x].nlink = 0 /\ (core[x].ref > 0 => core'[x].ref # 0)
    BY <2>1, <1>5, <1>11 DEF Touches
  <2>. QED BY <1>14, <2>1, OrphansStep
<1>. QED BY <1>1, <1>6, <1>7, <1>9, <1>10, <1>12, <1>13, <1>14, <1>15 DEF Kept

\* An inode that p uses, and that is not locked by another, is neither being made nor being freed.
LEMMA Untouched ==
  ASSUME Inv, Kept, NEW p \in Procs, NEW x \in Inums, UsedBy(p, x), lock[x] \in {None, p}
  PROVE NotNew(p, x) /\ NotGoing(p, x)
<1>1. ASSUME NEW q \in Procs \ {p}, k[q].pc = "new", k[q].ip = x PROVE FALSE
  <2>1. \A s \in Procs \ {q} : ~Uses(cwd[s], fd[s], k[s], k[q].ip) BY <1>1 DEF Kept, Fresh
  <2>. QED BY <2>1, <1>1
<1>2. ASSUME NEW q \in Procs \ {p}, k[q].pc \in {"free", "invalid"}, Fst(k[q]) = x PROVE FALSE
  <2>1. Head(k[q].puts) = x BY <1>2, FstIs DEF Inv, Puts
  <2>2. lock[x] = q BY <1>2, <2>1 DEF Inv, LocksOK, Owns
  <2>3. q # None BY FsAssumption
  <2>. QED BY <2>2, <2>3
<1>. QED BY <1>1, <1>2 DEF NotNew, NotGoing

\* An inode table in which i was written.
LEMMA UpdateGrows ==
  ASSUME Inv, NEW i \in Inums, lock[i] = None, ~NoType(i), core[i].ref # 0, NEW x \in Inodes, Update(i, x)
  PROVE  /\ Grows /\ core'[i].valid /\ dino'[i] = x
         /\ \A j \in Inums \ {i} : dino'[j] = dino[j]
<1>0. Tables /\ LocksOK /\ CoresOK BY DEF Inv
<1>1. /\ core'[i].valid /\ dino'[i] = x
      /\ \A j \in Inums \ {i} : core'[j] = core[j] /\ dino'[j] = dino[j]
      /\ \A j \in Inums : core'[j].ref = core[j].ref /\ (core[j].valid => core'[j].valid) BY <1>0, UpdateIs
<1>2. \A j \in Inums : core[j].ref \in Nat BY <1>0 DEF Tables, Cores
<1>. QED BY <1>1, <1>2 DEF Grows

\* The tree does not change with the links of an inode that is no directory.
LEMMA FileLinks ==
  ASSUME Inv, Kept, NEW i \in Inums, dino[i].type # "dir", dino'[i].type = dino[i].type,
         \A x \in Inums \ {i} : dino'[x] = dino[x], ents' = ents
  PROVE Tree(dino', ents') /\ \A x : NamesOf(dino', ents', x) = NamesOf(dino, ents, x)
<1>1. Tree(dino, ents) /\ Root \in Inums BY NamedIs DEF Kept, BothTree
<1>2. \A x \in Inums : dino'[x].type = dino[x].type OBVIOUS
<1>3. \A x \in Inums : dino[x].type = "dir" => dino'[x] = dino[x] OBVIOUS
<1>a. \A x \in Inums : Subs(dino', ents', x) = Subs(dino, ents, x)
  <2>1. \A x \in Inums, n \in Names : ents'[x][n] = ents[x][n] /\ ents[x][n] \in {0} \cup Inums
    BY DEF Inv, Tables, Elements
  <2>. QED BY <2>1, <1>2, SubsSame
<1>4. Tree(dino', ents') BY <1>1, <1>2, <1>3, <1>a DEF Tree
<1>5. ASSUME NEW x PROVE NamesOf(dino', ents', x) = NamesOf(dino, ents, x) BY <1>2, <1>3 DEF NamesOf
<1>. QED BY <1>4, <1>5

\* The links under way when p starts one or ends one.
LEMMA LinkingSteps == ASSUME Inv, NEW p \in Procs, Others(p), NEW x \in Inums
  PROVE  /\ k[p].old = 0 => Cardinality(Linking(k', x)) <= Cardinality(Linking(k, x)) + Has(k'[p].old, x)
         /\ k'[p].old = 0 => Cardinality(Linking(k', x)) <= Cardinality(Linking(k, x)) - Has(k[p].old, x)
<1>1. IsFiniteSet(Linking(k, x)) BY NamesFinite
<1>2. IsFiniteSet(Linking(k', x)) BY NamesFinite
<1>3. x # 0 BY DEF Inums
<1>4. \A q \in Procs \ {p} : k'[q].old = k[q].old BY DEF Others
<1>5. /\ Cardinality(Linking(k, x)) \in Nat /\ Cardinality(Linking(k', x)) \in Nat
      /\ Linking(k', x) \subseteq Linking(k, x) => Cardinality(Linking(k', x)) <= Cardinality(Linking(k, x))
      /\ \A e : Linking(k', x) \subseteq Linking(k, x) \cup {e} => Cardinality(Linking(k', x)) <= Cardinality(Linking(k, x)) + 1
      /\ \A e \in Linking(k, x) : Linking(k', x) \subseteq Linking(k, x) \ {e} =>
           Cardinality(Linking(k', x)) + 1 <= Cardinality(Linking(k, x)) BY <1>1, <1>2, CardSteps
<1>6. ASSUME k[p].old = 0 PROVE Cardinality(Linking(k', x)) <= Cardinality(Linking(k, x)) + Has(k'[p].old, x)
  <2>1. CASE k'[p].old = x
    <3>1. Linking(k', x) \subseteq Linking(k, x) \cup {p} BY <1>4 DEF Linking
    <3>. QED BY <3>1, <2>1, <1>5 DEF Has
  <2>2. CASE k'[p].old # x
    <3>1. Linking(k', x) \subseteq Linking(k, x) BY <1>4, <2>2 DEF Linking
    <3>. QED BY <3>1, <2>2, <1>5 DEF Has
  <2>. QED BY <2>1, <2>2
<1>7. ASSUME k'[p].old = 0 PROVE Cardinality(Linking(k', x)) <= Cardinality(Linking(k, x)) - Has(k[p].old, x)
  <2>1. CASE k[p].old = x
    <3>1. p \in Linking(k, x) /\ Linking(k', x) \subseteq Linking(k, x) \ {p} BY <1>3, <1>4, <1>7, <2>1 DEF Linking
    <3>2. Cardinality(Linking(k', x)) + 1 <= Cardinality(Linking(k, x)) BY <3>1, <1>5
    <3>. QED BY <3>2, <2>1, <1>5 DEF Has
  <2>2. CASE k[p].old # x
    <3>1. Linking(k', x) \subseteq Linking(k, x) BY <1>3, <1>4, <1>7, <2>2 DEF Linking
    <3>. QED BY <3>1, <2>2, <1>5 DEF Has
  <2>. QED BY <2>1, <2>2
<1>. QED BY <1>6, <1>7

\* What p has when its call ends.
LEMMA EndReaches ==
  ASSUME Inv, NEW p \in Procs, NEW a, NEW b, Ended(p, a, b), cwd' = cwd, \A q \in Procs \ {p} : fd'[q] = fd[q],
         \A x \in Inums : x \in {fd'[p], a, b} =>
           Known(p, x)
  PROVE  /\ Others(p) /\ Reaches(p) /\ k'[p].old = 0
         /\ k'[p].pc \notin {"new", "free", "invalid", "drop"}
<1>1. /\ k'[p].pc \in {"put", "done", "user"} /\ k'[p].ip = 0 /\ k'[p].dp = 0 /\ k'[p].old = 0
      /\ Fst(k'[p]) = a /\ Snd(k'[p]) = b
      /\ \A q \in Procs \ {p} : k'[q] = k[q] BY DEF Ended
<1>2. Others(p) BY <1>1 DEF Others
<1>3. ASSUME NEW x \in Inums
      PROVE  /\ Holds(cwd[p], fd[p], k[p], cwd[p]) /\ Firm(cwd[p], fd[p], k[p], cwd[p])
             /\ HeldBy(p, x)' => x \in {cwd[p], fd'[p], a, b}
             /\ FirmBy(p, x)' => x \in {cwd[p], fd'[p], a, b}
             /\ Treads(cwd'[p], k'[p], x) => Treads(cwd[p], k[p], x)
  <2>1. x # 0 BY DEF Inums
  <2>. QED BY <1>1, <2>1 DEF Holds, Firm, Treads
<1>4. Reaches(p)
  <2>1. ASSUME NEW x \in Inums, x \in {cwd[p], fd'[p], a, b}
        PROVE Known(p, x)
    BY <2>1, <1>3
  <2>. QED BY <2>1, <1>3 DEF Reaches
<1>. QED BY <1>1, <1>2, <1>4

\* The disk with the links of one file changed, and NlinksOK.
LEMMA FileCounted ==
  ASSUME Inv, Kept, Inv', NEW p \in Procs, Others(p), NEW i \in Inums, NEW m \in {-1, 1},
         dino[i].type # "dir", dino'[i].type = dino[i].type, dino'[i].nlink = dino[i].nlink + m,
         \A x \in Inums \ {i} : dino'[x] = dino[x], ents' = ents,
         \/ m = 1 /\ k[p].old = 0 /\ k'[p].old = i
         \/ m = -1 /\ k[p].old = i /\ k'[p].old = 0 PROVE Tree(dino', ents') /\ NlinksOK'
<1>1. Tree(dino', ents') /\ \A x : NamesOf(dino', ents', x) = NamesOf(dino, ents, x) BY FileLinks
<1>2. ASSUME NEW x \in Inums
      PROVE Counted(dino', ents', k', x)
  <2>1. /\ k[p].old = 0 => Cardinality(Linking(k', x)) <= Cardinality(Linking(k, x)) + Has(k'[p].old, x)
        /\ k'[p].old = 0 => Cardinality(Linking(k', x)) <= Cardinality(Linking(k, x)) - Has(k[p].old, x)
    BY LinkingSteps
  <2>2. NameCount(dino', ents', x) <= NameCount(dino, ents, x) + 0
    <3>1. NameCount(dino, ents, x) \in Nat BY NamesFinite
    <3>. QED BY <3>1, <1>1
  <2>3. dino[x].nlink \in Int /\ dino'[x].nlink \in Int BY NamedIs DEF Inv, Tables, Inodes
  <2>4. Cardinality(Linking(k', x)) \in Nat /\ Cardinality(Linking(k, x)) \in Nat BY NamesFinite
  <2>a. /\ Counted(dino, ents, k, x)
        /\ NameCount(dino, ents, x) \in Nat /\ Has(x, Root) \in Nat
    BY NamesFinite, HasIs DEF Kept, NlinksOK
  <2>b. NameCount(dino', ents', x) \in Nat BY NamesFinite
  <2>5. CASE x = i
    <3>1. Cardinality(Linking(k', x)) <= Cardinality(Linking(k, x)) + m BY <2>1, <2>4, <2>5 DEF Has
    <3>2. dino'[x].nlink >= dino[x].nlink + m BY <2>3, <2>5
    <3>. QED BY <2>2, <2>3, <2>4, <2>a, <2>b, <3>1, <3>2
  <2>6. CASE x # i
    <3>1. Cardinality(Linking(k', x)) <= Cardinality(Linking(k, x)) + 0 BY <2>1, <2>4, <2>6 DEF Has
    <3>2. dino'[x].nlink >= dino[x].nlink + 0 BY <2>3, <2>6
    <3>. QED BY <2>2, <2>3, <2>4, <2>a, <2>b, <3>1, <3>2
  <2>. QED BY <2>5, <2>6
<1>. QED BY <1>1, <1>2 DEF NlinksOK

\* sys_link's way back: the link that is not made is counted down again.
LEMMA LinkBadKept == ASSUME Inv, Kept, Inv', NEW p \in Procs, LinkBad(p) PROVE Kept'
<1>. DEFINE i == k[p].old
            x == Unlinked(dino[i])
<1>1. /\ k[p].pc = "linkbad" /\ ~booting /\ lock[i] = None
      /\ Update(i, Unlinked(Locked(i).inode)) /\ k' = [k EXCEPT ![p] = PutThen(p, <<i>>, "done")]
      /\ ents' = ents /\ stable' = stable /\ missed' = missed /\ panicked' = panicked
      /\ cwd' = cwd /\ fd' = fd /\ booting' = booting BY DEF LinkBad, At, Up
<1>2. i \in Inums /\ i # 0 /\ k[p].pc \notin Puts /\ k[p].pc # "new" BY <1>1, CallIs DEF Puts, Inums, Inv
<1>3. core[i].ref # 0
  <2>1. ~NotBy(p, i) BY DEF Apart
  <2>. QED BY <1>2, <2>1, HeldRef DEF Inv
<1>4. ~NoType(i) /\ dino[i].type # "dir" BY <1>2 DEF HeldOK, NoType, Inv
<1>5. Locked(i).inode = dino[i] /\ dino[i] \in Inodes BY <1>1, <1>2, <1>4, LockedIs DEF Inv
<1>6. x \in Inodes /\ x.type = dino[i].type /\ x.nlink = dino[i].nlink - 1 BY <1>5, InodeFields, LinkFields
<1>7. Update(i, x) BY <1>1, <1>5
<1>8. UsedBy(p, i) /\ FirmBy(p, i) /\ HeldBy(p, i)
  BY DEF Uses, Firm, Holds
<1>. HIDE DEF x
<1>9. /\ Grows /\ core'[i].valid /\ dino'[i] = x
      /\ \A j \in Inums \ {i} : dino'[j] = dino[j] BY <1>1, <1>2, <1>3, <1>4, <1>6, <1>7, UpdateGrows
<1>10. Tables BY DEF Inv
<1>11. Ended(p, i, 0)
  <2>. HIDE DEF i
  <2>. QED BY <1>1, <1>2, <1>10, EndedIs
<1>12. ASSUME NEW y \in Inums, y \in {fd'[p], i, 0}
       PROVE Known(p, y)
  <2>1. y # 0 /\ (y = fd[p] \/ y = i) BY <1>12, <1>1 DEF Inums
  <2>. QED BY <2>1, <1>8 DEF Holds, Firm
<1>13. /\ Others(p) /\ Reaches(p) /\ k'[p].old = 0
       /\ k'[p].pc \notin {"new", "free", "invalid", "drop"}
  <2>1. cwd' = cwd /\ \A q \in Procs \ {p} : fd'[q] = fd[q] BY <1>1
  <2>. HIDE DEF i
  <2>. QED BY <1>11, <1>12, <2>1, EndReaches
<1>14. NotNew(p, i) /\ NotGoing(p, i) BY <1>1, <1>2, <1>8, Untouched
<1>15. Tree(dino', ents') /\ NlinksOK'
  <2>1. dino'[i].nlink = dino[i].nlink + (-1) /\ dino'[i].type = dino[i].type /\ k[p].old = i
    BY <1>5, <1>6, <1>9 DEF Inodes
  <2>2. -1 \in {-1, 1} OBVIOUS
  <2>. HIDE DEF i
  <2>. QED BY <1>1, <1>2, <1>4, <1>9, <1>13, <2>1, <2>2, FileCounted
<1>16. Touches(p)
  <2>1. Holds(cwd'[p], fd'[p], k'[p], i) BY <1>11 DEF Ended, Holds
  <2>2. ASSUME NEW y \in Inums
        PROVE  /\ dino'[y].type = dino[y].type
               /\ (dino'[y].nlink = dino[y].nlink /\ ents'[y] = ents[y]) \/ (NotNew(p, y) /\ NotGoing(p, y))
               /\ ents'[y][DotDot] # 0 \/ ents'[y][DotDot] = ents[y][DotDot]
               /\ dino'[y].nlink = 0 => dino[y].nlink = 0 \/ HeldBy(p, y)'
    BY <2>1, <1>1, <1>6, <1>9, <1>14
  <2>. QED BY <2>2 DEF Touches
<1>17. Steady BY <1>1 DEF Steady
<1>. QED BY <1>1, <1>2, <1>9, <1>13, <1>15, <1>16, <1>17, TouchKept

\* sys_link counts the link, and namex starts again for the new name.
LEMMA LinkCountsKept == ASSUME Inv, Kept, Inv', NEW p \in Procs, Link(p), Locked(k[p].ip).inode.type # "dir" PROVE Kept'
<1>. DEFINE i == k[p].ip
            s == IF k[p].new.abs THEN Root ELSE cwd[p]
            x == Linked(dino[i])
            c == [core EXCEPT ![i] = [Locked(i) EXCEPT !.inode = x]]
            r == [k[p] EXCEPT !.pc = "walk", !.op = "linkto", !.old = i, !.ip = s, !.path = k[p].new.elems]
<1>1. /\ k[p].pc = "at" /\ ~booting /\ lock[i] = None /\ k[p].op = "link" /\ k[p].op # "linkto"
  BY DEF Link, AtInode, At, Up
<1>2. /\ i \in Inums /\ core[i].ref # 0 /\ k[p].pc \notin Puts /\ k[p].pc # "new"
      /\ k[p].old = 0 /\ k[p].dp = 0 /\ k[p].puts = <<>> /\ k[p] \in CallRecords
  <2>1. k[p].pc \notin Puts BY <1>1 DEF Puts
  <2>. QED BY <2>1, <1>1, AtFacts, CallIs, Fields DEF Inv
<1>3. ~NoType(i) /\ dino[i].type # "free" BY <1>2, TypeThere
<1>b. stable' = stable /\ missed' = missed /\ panicked' = panicked /\ ents' = ents BY <1>3 DEF Link
<1>c. cwd' = cwd /\ fd' = fd /\ booting' = booting BY <1>3 DEF Link
<1>4. /\ Locked(i) \in Cores /\ Locked(i).ref = core[i].ref /\ Locked(i).valid /\ Locked(i).inode = dino[i]
      /\ dino[i] \in Inodes BY <1>1, <1>2, <1>3, LockedIs DEF Inv
<1>5. x \in Inodes /\ x.type = dino[i].type /\ x.nlink = dino[i].nlink + 1 BY <1>4, InodeFields, LinkFields
<1>6. s \in Inums /\ (s = Root \/ s = cwd[p]) BY Fields, FsAssumption DEF Inums, Root, Inv
<1>7. /\ k' = [k EXCEPT ![p] = r] /\ core' = Iget(c, s) /\ dino' = [dino EXCEPT ![i] = c[i].inode]
  BY <1>3, <1>4 DEF Link, LinkCount
<1>a. dino[i].type # "dir" /\ Tables BY <1>4 DEF Inv
<1>8. HeldBy(p, i) /\ UsedBy(p, i) BY DEF Holds, Uses
<1>. HIDE DEF s, i, x
<1>9. /\ r.pc = "walk" /\ r.op = "linkto" /\ r.ip = s /\ r.dp = 0 /\ r.old = i /\ r.puts = <<>> BY <1>2 DEF CallRecords
<1>. HIDE DEF r
<1>10. /\ k'[p].pc = "walk" /\ k'[p].op = "linkto" /\ k'[p].ip = s /\ k'[p].dp = 0 /\ k'[p].old = i
       /\ k'[p].puts = <<>> /\ \A q \in Procs \ {p} : k'[q] = k[q] BY <1>7, <1>9, <1>a DEF Tables
<1>11. Fst(k'[p]) = 0 /\ Snd(k'[p]) = 0 BY <1>10, PutsOf
<1>12. Others(p) BY <1>c, <1>10 DEF Others
<1>13. /\ c \in [Inums -> Cores] /\ c[i].ref = core[i].ref /\ c[i].valid /\ c[i].inode = x
       /\ \A j \in Inums \ {i} : c[j] = core[j]
  <2>1. PICK l \in Cores : l = Locked(i) /\ l.ref = core[i].ref /\ l.valid BY <1>4
  <2>2. PICK y \in Cores : y = [l EXCEPT !.inode = x] /\ y.ref = l.ref /\ y.valid = l.valid /\ y.inode = x
    <3>1. [l EXCEPT !.inode = x] \in Cores BY <1>5 DEF Cores
    <3>2. [l EXCEPT !.inode = x].ref = l.ref /\ [l EXCEPT !.inode = x].valid = l.valid /\ [l EXCEPT !.inode = x].inode = x
      BY DEF Cores
    <3>. QED BY <3>1, <3>2
  <2>3. c = [core EXCEPT ![i] = y] BY <2>1, <2>2
  <2>. HIDE DEF c
  <2>. QED BY <2>1, <2>2, <2>3, <1>2, <1>a DEF Tables
<1>. HIDE DEF c
<1>14. \A j \in Inums : /\ c[j].ref = core[j].ref /\ (c[j].ref = 0 => c[j] = NoCore) /\ (core[j].valid => c[j].valid)
                       /\ core[j].ref \in Nat BY <1>2, <1>13, <1>a DEF CoresOK, Inv, Tables, Cores
<1>d. \A j \in Inums : core'[j].ref = c[j].ref + Has(s, j) /\ core'[j].valid = c[j].valid
  BY <1>6, <1>7, <1>13, <1>14, IgetIs
<1>15. Grows /\ \A j \in Inums : c[j].valid => core'[j].valid
  <2>1. \A j \in Inums : Has(s, j) \in Nat BY HasIs
  <2>. QED BY <2>1, <1>d, <1>14 DEF Grows
<1>16. dino'[i] = x /\ \A j \in Inums \ {i} : dino'[j] = dino[j] BY <1>2, <1>7, <1>13, <1>a DEF Tables
<1>17. core'[i].valid BY <1>2, <1>13, <1>15
<1>18. Reaches(p)
  <2>1. dino[Root].nlink >= 1 BY NamedIs
  <2>2. ASSUME NEW y \in Inums
        PROVE  /\ HeldBy(p, y)' => y \in {cwd[p], fd[p], s, i}
               /\ FirmBy(p, y)' => y \in {cwd[p], fd[p], i}
               /\ Treads(cwd'[p], k'[p], y) => y \in {cwd[p], s}
    <3>1. y # 0 BY DEF Inums
    <3>. QED BY <3>1, <1>c, <1>10, <1>11 DEF Holds, Firm, Treads
  <2>3. ASSUME NEW y
        PROVE  /\ y \in {cwd[p], fd[p]} => HeldBy(p, y) /\ FirmBy(p, y)
               /\ y = cwd[p] => Treads(cwd[p], k[p], y) BY DEF Holds, Firm, Treads
  <2>. QED BY <2>1, <2>2, <2>3, <1>6, <1>8, <1>17 DEF Reaches
<1>19. NotNew(p, i) /\ NotGoing(p, i)
  <2>1. lock[i] \in {None, p} BY <1>1 DEF i
  <2>. QED BY <1>2, <1>8, <2>1, Untouched
<1>20. Tree(dino', ents') /\ NlinksOK'
  <2>1. dino'[i].nlink = dino[i].nlink + 1 /\ dino'[i].type = dino[i].type /\ 1 \in {-1, 1} /\ k'[p].old = i
    BY <1>5, <1>16, <1>10
  <2>. QED BY <1>b, <1>2, <1>a, <1>12, <1>16, <2>1, FileCounted
<1>21. Touches(p)
  <2>1. ASSUME NEW y \in Inums
        PROVE  /\ dino'[y].type = dino[y].type
               /\ (dino'[y].nlink = dino[y].nlink /\ ents'[y] = ents[y]) \/ (NotNew(p, y) /\ NotGoing(p, y))
               /\ ents'[y][DotDot] # 0 \/ ents'[y][DotDot] = ents[y][DotDot]
               /\ dino'[y].nlink = 0 => dino[y].nlink = 0 \/ HeldBy(p, y)'
    <3>1. Holds(cwd'[p], fd'[p], k'[p], i) BY <1>10 DEF Holds
    <3>. QED BY <3>1, <1>b, <1>5, <1>16, <1>19
  <2>. QED BY <2>1 DEF Touches
<1>22. Steady /\ k'[p].pc \notin {"new", "free", "invalid", "drop"} BY <1>1, <1>b, <1>c, <1>10 DEF Steady
<1>. QED BY <1>b, <1>2, <1>12, <1>15, <1>18, <1>20, <1>21, <1>22, TouchKept

\* An entry that is not there is not "..", and p has the parent.
LEMMA MissingName ==
  ASSUME Inv, Kept, NEW p \in Procs, k[p].pc = "parent", Dirlookup(k[p].dp, Head(k[p].path)) = 0
  PROVE /\ k[p].dp \in Inums /\ dino[k[p].dp].type = "dir" /\ Head(k[p].path) \in Names /\ Head(k[p].path) # DotDot
<1>. DEFINE d == k[p].dp
            n == Head(k[p].path)
<1>1. d \in Inums /\ dino[d].type = "dir" /\ n \in Elements BY ParentFacts DEF Inv
<1>2. Treads(cwd[p], k[p], d) BY DEF Treads
<1>3. ents[d][DotDot] # 0
  <2>. HIDE DEF d
  <2>. QED BY <1>1, <1>2 DEF Kept, Parented
<1>4. n # DotDot BY <1>3 DEF Dirlookup
<1>. QED BY <1>1, <1>4 DEF Elements

\* The tree with one more name of a file.
LEMMA FileNamed ==
  ASSUME Inv, Kept, NEW d \in Inums, NEW n \in Names, NEW o \in Inums, dino[o].type # "dir",
         ents[d][n] = 0, dino' = dino, ents'[d][n] = o, \A m \in Elements \ {n} : ents'[d][m] = ents[d][m],
         \A j \in Inums \ {d} : ents'[j] = ents[j]
  PROVE  /\ Tree(dino', ents') /\ \A x \in Inums : ents'[x][DotDot] = ents[x][DotDot]
         /\ NamesOf(dino', ents', o) \subseteq NamesOf(dino, ents, o) \cup {<<d, n>>}
         /\ \A x \in Inums \ {o} : NamesOf(dino', ents', x) \subseteq NamesOf(dino, ents, x)
<1>1. Tree(dino, ents) BY DEF Kept, BothTree
<1>2. n \in Elements /\ n # DotDot /\ DotDot \in Elements /\ Names \subseteq Elements BY FsAssumption DEF Elements
<1>3. \A x \in Inums : ents'[x][DotDot] = ents[x][DotDot] BY <1>2
<1>4. \A x \in Inums, m \in Elements : ents'[x][m] = ents[x][m] \/ (x = d /\ m = n /\ ents'[x][m] = o) OBVIOUS
<1>5. Tree(dino', ents')
  <2>1. o # Root BY <1>1 DEF Tree
  <2>2. \A x \in Inums, m \in Names : ents'[x][m] # Root BY <2>1, <1>1, <1>2, <1>4 DEF Tree
  <2>3. \A x, i \in Inums, m \in Names : ents'[x][m] = i /\ dino'[i].type = "dir" => ents'[i][DotDot] = x
    BY <1>1, <1>2, <1>3, <1>4 DEF Tree
  <2>4. ASSUME NEW x \in Inums PROVE Subs(dino', ents', x) = Subs(dino, ents, x)
    <3>1. ASSUME NEW m \in Names
          PROVE (ents'[x][m] # 0 /\ dino'[ents'[x][m]].type = "dir") <=> (ents[x][m] # 0 /\ dino[ents[x][m]].type = "dir")
      BY <1>2, <1>4
    <3>. QED BY <3>1 DEF Subs
  <2>. QED BY <2>2, <2>3, <2>4, <1>1, <1>3 DEF Tree
<1>6. ASSUME NEW x \in Inums, NEW e \in NamesOf(dino', ents', x), x # o \/ e # <<d, n>>
      PROVE e \in NamesOf(dino, ents, x)
  <2>1. /\ e \in Inums \X Elements /\ dino[e[1]].type = "dir" /\ ents'[e[1]][e[2]] = x
        /\ e[2] = DotDot => dino[e[1]].nlink > 0 /\ e[1] # x BY DEF NamesOf
  <2>2. e[1] \in Inums /\ e[2] \in Elements /\ e = <<e[1], e[2]>> BY <2>1
  <2>3. ents[e[1]][e[2]] = x BY <2>1, <2>2, <1>4, <1>6
  <2>. QED BY <2>1, <2>3 DEF NamesOf
<1>. QED BY <1>3, <1>5, <1>6

\* sys_link makes the name it has counted.
LEMMA LinkMadeKept ==
  ASSUME Inv, Kept, Inv', NEW p \in Procs, LinkTo(p), Dirlookup(k[p].dp, Head(k[p].path)) = 0 PROVE Kept'
<1>. DEFINE d == k[p].dp
            n == Head(k[p].path)
            o == k[p].old
<1>1. /\ k[p].pc = "parent" /\ ~booting /\ k[p].op = "linkto" /\ k' = [k EXCEPT ![p] = PutThen(p, <<d, o>>, "done")]
      /\ lock[d] = None /\ ents' = Dirlink(ents, d, n, o) BY DEF LinkTo, At, Up
<1>a. /\ stable' = stable /\ missed' = missed /\ panicked' = panicked
      /\ dino' = dino /\ core' = core /\ cwd' = cwd /\ fd' = fd /\ booting' = booting BY DEF LinkTo, memVars
<1>2. d \in Inums /\ dino[d].type = "dir" /\ n \in Names /\ n # DotDot /\ ents[d][n] = 0
  BY <1>1, MissingName DEF Dirlookup
<1>3. /\ k[p].pc \notin Puts /\ k[p].pc # "new" /\ Tables BY <1>1, ParentHas DEF Inv
<1>4. o \in Inums /\ dino[o].type # "dir"
  <2>1. o \in Inums /\ o # 0 BY <1>1, CallIs DEF Inums, Inv
  <2>. QED BY <2>1 DEF HeldOK, Inv
<1>5. \A x \in {d, o} : HeldBy(p, x) /\ UsedBy(p, x) /\ FirmBy(p, x)
  BY DEF Holds, Uses, Firm
<1>b. k[p].old = o OBVIOUS
<1>. HIDE DEF d, n, o
<1>6. Ended(p, d, o) BY <1>1, <1>2, <1>3, <1>4, EndedIs
<1>7. /\ Others(p) /\ Reaches(p) /\ k'[p].old = 0
      /\ k'[p].pc \notin {"new", "free", "invalid", "drop"}
  <2>1. cwd' = cwd /\ \A q \in Procs \ {p} : fd'[q] = fd[q] BY <1>a
  <2>2. ASSUME NEW y \in Inums, y \in {fd'[p], d, o}
        PROVE Known(p, y)
    <3>1. Holds(cwd[p], fd[p], k[p], fd[p]) /\ Firm(cwd[p], fd[p], k[p], fd[p]) BY DEF Holds, Firm
    <3>. QED BY <3>1, <2>2, <1>a, <1>5
  <2>. QED BY <1>6, <2>1, <2>2, EndReaches
<1>8. /\ ents'[d][n] = o /\ \A m \in Elements \ {n} : ents'[d][m] = ents[d][m]
      /\ \A j \in Inums \ {d} : ents'[j] = ents[j]
  <2>1. ents \in [Inums -> [Elements -> {0} \cup Inums]] /\ d \in Inums /\ n \in Elements /\ o \in {0} \cup Inums
    BY <1>2, <1>3, <1>4 DEF Tables, Elements
  <2>2. /\ Dirlink(ents, d, n, o)[d][n] = o /\ \A m \in Elements \ {n} : Dirlink(ents, d, n, o)[d][m] = ents[d][m]
        /\ \A j \in Inums \ {d} : Dirlink(ents, d, n, o)[j] = ents[j] BY <2>1, DirlinkIs
  <2>. QED BY <1>1, <2>2
<1>9. /\ Tree(dino', ents') /\ \A x \in Inums : ents'[x][DotDot] = ents[x][DotDot]
      /\ NamesOf(dino', ents', o) \subseteq NamesOf(dino, ents, o) \cup {<<d, n>>}
      /\ \A x \in Inums \ {o} : NamesOf(dino', ents', x) \subseteq NamesOf(dino, ents, x)
  BY <1>2, <1>4, <1>8, <1>a, FileNamed
<1>10. NlinksOK'
  <2>1. ASSUME NEW x \in Inums
        PROVE Counted(dino', ents', k', x)
    <3>1. Cardinality(Linking(k', x)) <= Cardinality(Linking(k, x)) - Has(o, x) BY <1>7, <1>b, LinkingSteps
    <3>2. IsFiniteSet(NamesOf(dino, ents, x)) /\ IsFiniteSet(NamesOf(dino', ents', x))
      <4>1. IsFiniteSet(NamesOf(dino, ents, x)) BY NamesFinite
      <4>2. IsFiniteSet(NamesOf(dino', ents', x)) BY NamesFinite
      <4>. QED BY <4>1, <4>2
    <3>3. /\ NameCount(dino, ents, x) \in Nat /\ NameCount(dino', ents', x) \in Nat
          /\ NameCount(dino', ents', x) <= NameCount(dino, ents, x) + Has(o, x)
      <4>1. CASE x = o BY <4>1, <3>2, <1>9, CardSteps DEF Has
      <4>2. CASE x # o
        <5>1. NamesOf(dino', ents', x) \subseteq NamesOf(dino, ents, x) BY <4>2, <1>9
        <5>2. /\ NameCount(dino, ents, x) \in Nat /\ NameCount(dino', ents', x) \in Nat
              /\ NameCount(dino', ents', x) <= NameCount(dino, ents, x)
          BY <5>1, <3>2, CardSteps
        <5>3. Has(o, x) = 0 BY <4>2 DEF Has
        <5>. QED BY <5>2, <5>3
      <4>. QED BY <4>1, <4>2
    <3>4. Cardinality(Linking(k', x)) \in Nat BY NamesFinite
    <3>5. Cardinality(Linking(k, x)) \in Nat /\ Has(o, x) \in Nat /\ Has(x, Root) \in Nat /\ dino[x].nlink \in Int
      BY NamesFinite, HasIs, NamedIs
    <3>6. Counted(dino, ents, k, x)
      BY DEF Kept, NlinksOK
    <3>7. dino'[x].nlink = dino[x].nlink BY <1>a
    <3>. QED BY <3>1, <3>3, <3>4, <3>5, <3>6, <3>7
  <2>. QED BY <2>1 DEF NlinksOK
<1>11. NotNew(p, d) /\ NotGoing(p, d) BY <1>1, <1>2, <1>5, Untouched
<1>12. Touches(p) BY <1>8, <1>9, <1>11, <1>a DEF Touches
<1>13. Steady /\ Grows
  <2>1. \A x \in Inums : core[x].ref \in Nat BY <1>3 DEF Tables, Cores
  <2>. QED BY <2>1, <1>1, <1>a DEF Steady, Grows
<1>. QED BY <1>3, <1>7, <1>9, <1>10, <1>12, <1>13, <1>a, TouchKept

\* The tree with a name less.
LEMMA Unnamed ==
  ASSUME Inv, Kept, NEW i \in Inums, NEW d \in Inums, NEW n \in Names, i # d, ents[d][n] = i, dino[d].type = "dir",
         dino[i].type = "dir" => IsDirEmpty(i), Unnames(i, d, n)
  PROVE  /\ Tree(dino', ents') /\ \A x \in Inums : ents'[x][DotDot] = ents[x][DotDot]
         /\ \A x \in Inums : /\ NameCount(dino', ents', x) \in Nat
                             /\ NameCount(dino', ents', x) + (dino[x].nlink - dino'[x].nlink)
                                  <= NameCount(dino, ents, x)
<1>0. /\ Tree(dino, ents) /\ n \in Elements /\ n # DotDot /\ DotDot \in Elements /\ Names \subseteq Elements
      /\ Root \in Inums /\ 0 \notin Inums BY NamedIs, FsAssumption DEF Kept, BothTree, Elements, Inums
<1>1. \A x \in Inums : dino[x].nlink \in Int /\ Has(i, x) \in 0 .. 1 /\ Has(d, x) \in 0 .. 1 BY NamedIs, HasIs
<1>2. ASSUME NEW x \in Inums
      PROVE  /\ dino'[x].type = dino[x].type /\ dino'[x].nlink \in Int /\ dino'[x].nlink <= dino[x].nlink
             /\ x = i => dino'[x].nlink = dino[x].nlink - 1
             /\ x = d /\ dino[i].type = "dir" => dino'[x].nlink = dino[x].nlink - 1
             /\ x # i /\ (x # d \/ dino[i].type # "dir") => dino'[x].nlink = dino[x].nlink
  BY <1>1 DEF Unnames, Has
<1>3. \A x \in Inums, m \in Elements : /\ ents'[x][m] = ents[x][m] \/ (x = d /\ m = n /\ ents'[x][m] = 0) BY DEF Unnames
<1>4. ents'[d][n] = 0 /\ \A x \in Inums : ents'[x][DotDot] = ents[x][DotDot] BY <1>0 DEF Unnames
<1>a. dino[i].type = "dir" => Subs(dino, ents, i) = {} /\ dino[i].nlink <= 1
  <2>1. ASSUME dino[i].type = "dir" PROVE Subs(dino, ents, i) = {} BY <2>1 DEF Subs, IsDirEmpty
  <2>2. ASSUME dino[i].type = "dir" PROVE dino[i].nlink <= 1
    <3>1. Cardinality(Subs(dino, ents, i)) = 0 BY <2>1, <2>2, FS_EmptySet
    <3>2. dino[i].nlink <= 1 + Cardinality(Subs(dino, ents, i)) BY <2>2, <1>0 DEF Tree
    <3>. QED BY <3>1, <3>2
  <2>. QED BY <2>1, <2>2
<1>b. \A x \in Inums, m \in Names : ents[x][m] \in {0} \cup Inums BY DEF Inv, Tables, Elements
<1>5. Tree(dino', ents')
  <2>1. \A x \in Inums, m \in Names : ents'[x][m] # Root BY <1>0, <1>3 DEF Tree, Root
  <2>2. \A x, y \in Inums, m \in Names : ents'[x][m] = y /\ dino'[y].type = "dir" => ents'[y][DotDot] = x
    BY <1>0, <1>2, <1>3, <1>4 DEF Tree
  <2>3. ASSUME NEW x \in Inums, dino'[x].type = "dir", dino'[x].nlink >= 1 PROVE ents'[x][DotDot] # 0
    <3>1. dino[x].nlink >= 1 BY <2>3, <1>1, <1>2
    <3>. QED BY <3>1, <2>3, <1>0, <1>2, <1>4 DEF Tree
  <2>4. ASSUME NEW x \in Inums, dino'[x].type = "dir" PROVE dino'[x].nlink <= 1 + Cardinality(Subs(dino', ents', x))
    <3>1. /\ dino[x].nlink <= 1 + Cardinality(Subs(dino, ents, x)) /\ dino[x].nlink \in Int
          /\ dino'[x].nlink \in Int /\ dino'[x].nlink <= dino[x].nlink BY <2>4, <1>0, <1>1, <1>2 DEF Tree
    <3>2. IsFiniteSet(Subs(dino, ents, x)) BY SubsFinite
    <3>3. Cardinality(Subs(dino, ents, x)) \in Nat BY SubsFinite
    <3>4. CASE x = d /\ dino[i].type = "dir"
      <4>1. n \in Subs(dino, ents, x) BY <3>4, <1>0 DEF Subs
      <4>2. Subs(dino', ents', x) = Subs(dino, ents, x) \ {n}
        <5>1. ASSUME NEW m \in Names
              PROVE  (ents'[x][m] # 0 /\ dino'[ents'[x][m]].type = "dir")
                       <=> (ents[x][m] # 0 /\ dino[ents[x][m]].type = "dir" /\ m # n)
          BY <3>4, <1>0, <1>2, <1>4, <1>b DEF Unnames
        <5>. QED BY <5>1 DEF Subs
      <4>3. Cardinality(Subs(dino', ents', x)) = Cardinality(Subs(dino, ents, x)) - 1
        BY <4>1, <4>2, <3>2, FS_RemoveElement
      <4>4. dino'[x].nlink = dino[x].nlink - 1 BY <3>4, <1>2
      <4>. QED BY <4>3, <4>4, <3>1, <3>3
    <3>5. CASE ~(x = d /\ dino[i].type = "dir")
      <4>1. Subs(dino', ents', x) = Subs(dino, ents, x)
        <5>1. ASSUME NEW m \in Names
              PROVE  (ents'[x][m] # 0 /\ dino'[ents'[x][m]].type = "dir") <=> (ents[x][m] # 0 /\ dino[ents[x][m]].type = "dir")
          BY <3>5, <1>0, <1>2, <1>3, <1>b
        <5>. QED BY <5>1 DEF Subs
      <4>. QED BY <4>1, <3>1, <3>3
    <3>. QED BY <3>4, <3>5
  <2>. QED BY <2>1, <2>2, <2>3, <2>4, <1>0, <1>2 DEF Tree
<1>6. ASSUME NEW x \in Inums, NEW e \in NamesOf(dino', ents', x)
      PROVE e \in NamesOf(dino, ents, x) /\ e # <<d, n>> /\ (x = d /\ dino[i].type = "dir" => e # <<i, DotDot>>)
  <2>1. /\ e \in Inums \X Elements /\ dino'[e[1]].type = "dir" /\ ents'[e[1]][e[2]] = x
        /\ e[2] = DotDot => dino'[e[1]].nlink > 0 /\ e[1] # x BY DEF NamesOf
  <2>2. e[1] \in Inums /\ e[2] \in Elements BY <2>1
  <2>3. ents[e[1]][e[2]] = x /\ e # <<d, n>>
    <3>1. x # 0 BY <1>0
    <3>2. e # <<d, n>> BY <3>1, <2>1, <1>4
    <3>3. ents[e[1]][e[2]] = x BY <3>1, <2>1, <2>2, <1>3
    <3>. QED BY <3>2, <3>3
  <2>4. e[2] = DotDot => dino[e[1]].nlink > 0 BY <2>1, <2>2, <1>1, <1>2
  <2>5. e \in NamesOf(dino, ents, x) BY <2>1, <2>2, <2>3, <2>4, <1>2 DEF NamesOf
  <2>6. ASSUME x = d, dino[i].type = "dir", e = <<i, DotDot>> PROVE FALSE
    <3>1. dino'[i].nlink > 0 /\ dino'[i].nlink = dino[i].nlink - 1 BY <2>1, <2>6, <1>2
    <3>. QED BY <3>1, <2>6, <1>1, <1>a
  <2>. QED BY <2>3, <2>5, <2>6
<1>7. ASSUME NEW x \in Inums
      PROVE  /\ NameCount(dino', ents', x) \in Nat
             /\ NameCount(dino', ents', x) + (dino[x].nlink - dino'[x].nlink)
                  <= NameCount(dino, ents, x)
  <2>. DEFINE S == NamesOf(dino, ents, x)
              T == NamesOf(dino', ents', x)
  <2>1. IsFiniteSet(S) BY NamesFinite
  <2>2. IsFiniteSet(T) BY NamesFinite
  <2>3. T \subseteq S BY <1>6
  <2>4. x = i => <<d, n>> \in S /\ T \subseteq S \ {<<d, n>>}
    <3>1. ASSUME x = i PROVE <<d, n>> \in S BY <3>1, <1>0 DEF NamesOf
    <3>. QED BY <3>1, <1>6
  <2>5. ASSUME x = d, dino[i].type = "dir" PROVE <<i, DotDot>> \in S /\ T \subseteq S \ {<<i, DotDot>>}
    <3>2. dino[i].nlink >= 1 /\ dino[i].nlink \in Int BY <1>0, NamedIs
    <3>3. ents[i][DotDot] = d BY <2>5, <1>0 DEF Tree
    <3>4. dino[i].nlink > 0 BY <3>2
    <3>5. <<i, DotDot>> \in S BY <2>5, <3>3, <3>4, <1>0 DEF NamesOf
    <3>. QED BY <3>5, <2>5, <1>6
  <2>. HIDE DEF S, T
  <2>6. /\ Cardinality(S) \in Nat /\ Cardinality(T) \in Nat
        /\ T \subseteq S => Cardinality(T) <= Cardinality(S)
        /\ \A e \in S : T \subseteq S \ {e} => Cardinality(T) + 1 <= Cardinality(S) BY <2>1, <2>2, CardSteps
  <2>7. x = i \/ (x = d /\ dino[i].type = "dir") => Cardinality(T) + 1 <= Cardinality(S) BY <2>4, <2>5, <2>6
  <2>8. Cardinality(T) + (dino[x].nlink - dino'[x].nlink) <= Cardinality(S)
    <3>1. CASE x = i \/ (x = d /\ dino[i].type = "dir")
      <4>1. dino[x].nlink - dino'[x].nlink = 1 BY <3>1, <1>1, <1>2
      <4>. QED BY <4>1, <3>1, <2>7
    <3>2. CASE ~(x = i \/ (x = d /\ dino[i].type = "dir"))
      <4>1. dino[x].nlink - dino'[x].nlink = 0 BY <3>2, <1>1, <1>2
      <4>. QED BY <4>1, <2>3, <2>6
    <3>. QED BY <3>1, <3>2
  <2>. QED BY <2>6, <2>8 DEF S, T
<1>. QED BY <1>4, <1>5, <1>7

\* NlinksOK, if p starts no link and nlink changes by no less than the names do.
LEMMA CountedBy ==
  ASSUME Inv, Kept, Inv', NEW p \in Procs, Others(p), k[p].old = 0, k'[p].old = 0,
         \A x \in Inums : /\ NameCount(dino', ents', x) \in Nat
                          /\ NameCount(dino', ents', x) + (dino[x].nlink - dino'[x].nlink)
                               <= NameCount(dino, ents, x) PROVE NlinksOK'
<1>1. ASSUME NEW x \in Inums
      PROVE Counted(dino', ents', k', x)
  <2>1. Has(k[p].old, x) = 0 BY DEF Has, Inums
  <2>2. Cardinality(Linking(k', x)) \in Nat BY NamesFinite
  <2>3. Cardinality(Linking(k, x)) \in Nat /\ NameCount(dino, ents, x) \in Nat /\ Has(x, Root) \in Nat
    BY NamesFinite, HasIs
  <2>4. Cardinality(Linking(k', x)) <= Cardinality(Linking(k, x))
    <3>1. Cardinality(Linking(k', x)) <= Cardinality(Linking(k, x)) - Has(k[p].old, x) BY LinkingSteps
    <3>. QED BY <3>1, <2>1, <2>2, <2>3
  <2>5. dino[x].nlink \in Int /\ dino'[x].nlink \in Int BY NamedIs DEF Inv, Tables, Inodes
  <2>6. Counted(dino, ents, k, x)
    BY DEF Kept, NlinksOK
  <2>7. /\ NameCount(dino', ents', x) \in Nat
        /\ NameCount(dino', ents', x) + (dino[x].nlink - dino'[x].nlink) <= NameCount(dino, ents, x)
    OBVIOUS
  <2>. QED BY <2>2, <2>3, <2>4, <2>5, <2>6, <2>7
<1>. QED BY <1>1 DEF NlinksOK

\* sys_unlink takes the name away: the inode it had is put, with one link less.
LEMMA UnlinkDoneKept ==
  ASSUME Inv, Kept, Inv', NEW p \in Procs, Unlink(p), ~(Locked(k[p].ip).inode.type = "dir" /\ ~IsDirEmpty(k[p].ip))
  PROVE Kept'
<1>. DEFINE i == k[p].ip
            d == k[p].dp
            n == Head(k[p].path)
            c == Locked(i).inode
            x == Unlinked(c)
            y == IF c.type = "dir" THEN Unlinked(core[d].inode) ELSE core[d].inode
<1>1. k[p].pc = "unlink" /\ ~booting /\ lock[i] = None BY DEF Unlink, AtInode, At, Up
<1>2. k[p].pc \notin Puts /\ k[p].pc # "new" /\ k[p].old = 0 /\ Tables /\ LocksOK /\ CoresOK BY <1>1, BothHas DEF Inv
<1>3. /\ i \in Inums /\ d \in Inums /\ i # d /\ core[i].ref # 0 /\ core[d].ref # 0
      /\ core[d].valid /\ core[d].inode = dino[d] /\ dino[d].type = "dir" /\ dino[d] \in Inodes /\ lock[d] = p
  BY <1>1, BothFacts
<1>4. ~NoType(i) BY <1>3, TypeThere
<1>5. c = dino[i] /\ dino[i] \in Inodes BY <1>1, <1>2, <1>3, <1>4, LockedIs
<1>6. ~(c.nlink < 1)
  <2>1. dino[i].nlink >= 1 BY <1>1, UnlinkCounts
  <2>2. dino[i].nlink \in Int BY <1>5 DEF Inodes
  <2>. QED BY <1>5, <2>1, <2>2
<1>7. /\ k' = [k EXCEPT ![p] = PutThen(p, <<d, i>>, "done")]
      /\ core' = [core EXCEPT ![i] = [Locked(i) EXCEPT !.inode = x], ![d].inode = y]
      /\ dino' = [dino EXCEPT ![i] = x, ![d] = y] /\ ents' = Dirlink(ents, d, n, 0)
  BY <1>4, <1>6 DEF Unlink, Dirlink
<1>8. /\ stable' = stable /\ missed' = missed /\ panicked' = panicked /\ cwd' = cwd /\ fd' = fd /\ booting' = booting
  BY <1>4, <1>6 DEF Unlink
<1>9. n \in Names /\ ents[d][n] = i
  <2>1. k[p].path # <<>> /\ n # DotDot BY <1>1 DEF Inv, CallsOK, Agrees
  <2>2. k[p].path \in Seq(Elements) BY Fields DEF Inv
  <2>3. n \in Elements BY <2>1, <2>2
  <2>4. ents[d][n] = i BY <1>1 DEF Inv, TreeOK
  <2>. QED BY <2>1, <2>3, <2>4 DEF Elements
<1>x. x \in Inodes /\ x.type = dino[i].type /\ x.nlink = dino[i].nlink - 1
  <2>1. x = Unlinked(dino[i]) BY <1>5
  <2>. HIDE DEF x
  <2>. QED BY <2>1, <1>5, InodeFields, LinkFields
<1>y. y \in Inodes /\ y.type = "dir" /\ y.nlink = dino[d].nlink - (IF dino[i].type = "dir" THEN 1 ELSE 0)
  <2>1. /\ Unlinked(dino[d]) \in Inodes /\ Unlinked(dino[d]).type = "dir" /\ Unlinked(dino[d]).nlink = dino[d].nlink - 1
        /\ dino[d].nlink \in Int BY <1>3, InodeFields, LinkFields
  <2>2. y = IF dino[i].type = "dir" THEN Unlinked(dino[d]) ELSE dino[d] BY <1>3, <1>5
  <2>. HIDE DEF y
  <2>. QED BY <1>3, <2>1, <2>2
<1>a. \A z \in {i, d} : HeldBy(p, z) /\ UsedBy(p, z) BY DEF Holds, Uses
<1>b. lock[i] = None /\ core[d].valid BY <1>1, <1>3
<1>z. dino[i].type = "dir" => IsDirEmpty(i) BY <1>5
<1>. HIDE DEF x, y, i, d, n
<1>10. Writes(i, d, x, y) BY <1>2, <1>3, <1>4, <1>7, <1>b, <1>x, <1>y, BothWritten
<1>11. Ended(p, d, i) BY <1>2, <1>3, <1>7, EndedIs
<1>12. /\ core'[i].valid /\ core'[d].valid /\ Grows
  <2>1. \A z \in Inums : core[z].ref \in Nat BY <1>2 DEF Tables, Cores
  <2>. QED BY <2>1, <1>10 DEF Writes, Grows
<1>13. /\ Others(p) /\ Reaches(p) /\ k'[p].old = 0
       /\ k'[p].pc \notin {"new", "free", "invalid", "drop"}
  <2>1. cwd' = cwd /\ \A q \in Procs \ {p} : fd'[q] = fd[q] BY <1>8
  <2>2. ASSUME NEW z \in Inums, z \in {fd'[p], d, i}
        PROVE Known(p, z)
    <3>1. Holds(cwd[p], fd[p], k[p], fd[p]) /\ Firm(cwd[p], fd[p], k[p], fd[p]) BY DEF Holds, Firm
    <3>. QED BY <3>1, <2>2, <1>8, <1>12, <1>a
  <2>. QED BY <1>11, <2>1, <2>2, EndReaches
<1>14. Unnames(i, d, n)
  <2>1. /\ \A m \in Elements \ {n} : ents'[d][m] = ents[d][m]
        /\ ents'[d][n] = 0 /\ \A j \in Inums \ {d} : ents'[j] = ents[j]
    <3>1. ents \in [Inums -> [Elements -> {0} \cup Inums]] /\ n \in Elements /\ 0 \in {0} \cup Inums
      BY <1>2, <1>9 DEF Tables, Elements
    <3>. QED BY <3>1, <1>3, <1>7, DirlinkIs
  <2>2. /\ dino' \in [Inums -> Inodes] /\ dino'[i] = x /\ dino'[d] = y /\ \A j \in Inums \ {i, d} : dino'[j] = dino[j]
    BY <1>10 DEF Writes
  <2>3. \A z \in Inums : dino'[z].type = dino[z].type /\ dino'[z].nlink \in Int /\ dino[z].nlink \in Int
    <3>1. \A z \in Inums : dino'[z].nlink \in Int /\ dino[z].nlink \in Int BY <2>2, <1>2 DEF Tables, Inodes
    <3>. QED BY <3>1, <2>2, <1>3, <1>x, <1>y
  <2>4. ASSUME NEW z \in Inums
        PROVE dino'[z].nlink = dino[z].nlink - Has(i, z) - (IF dino[i].type = "dir" THEN Has(d, z) ELSE 0)
    <3>1. CASE z = i
      <4>1. Has(i, z) = 1 /\ Has(d, z) = 0 BY <3>1, <1>3 DEF Has
      <4>. QED BY <4>1, <3>1, <2>2, <2>3, <1>x
    <3>2. CASE z = d
      <4>1. Has(i, z) = 0 /\ Has(d, z) = 1 BY <3>2, <1>3 DEF Has
      <4>. QED BY <4>1, <3>2, <2>2, <2>3, <1>y
    <3>3. CASE z # i /\ z # d
      <4>1. Has(i, z) = 0 /\ Has(d, z) = 0 BY <3>3 DEF Has
      <4>. QED BY <4>1, <3>3, <2>2, <2>3
    <3>. QED BY <3>1, <3>2, <3>3
  <2>. QED BY <2>1, <2>3, <2>4 DEF Unnames
<1>15. /\ Tree(dino', ents') /\ \A z \in Inums : ents'[z][DotDot] = ents[z][DotDot]
       /\ \A z \in Inums : /\ NameCount(dino', ents', z) \in Nat
                           /\ NameCount(dino', ents', z) + (dino[z].nlink - dino'[z].nlink)
                                <= NameCount(dino, ents, z) BY <1>3, <1>9, <1>14, <1>z, Unnamed
<1>16. NlinksOK' BY <1>2, <1>13, <1>15, CountedBy
<1>17. \A z \in {i, d} : NotNew(p, z) /\ NotGoing(p, z) /\ HeldBy(p, z)'
  <2>1. Holds(cwd'[p], fd'[p], k'[p], i) /\ Holds(cwd'[p], fd'[p], k'[p], d) BY <1>11 DEF Ended, Holds
  <2>2. NotNew(p, i) /\ NotGoing(p, i) BY <1>3, <1>a, <1>b, Untouched
  <2>3. NotNew(p, d) /\ NotGoing(p, d) BY <1>3, <1>a, Untouched
  <2>. QED BY <2>1, <2>2, <2>3
<1>18. Touches(p)
  <2>1. ASSUME NEW z \in Inums, z \notin {i, d} PROVE dino'[z] = dino[z] /\ ents'[z] = ents[z]
    BY <2>1, <1>10, <1>14 DEF Writes, Unnames
  <2>2. \A z \in Inums : dino'[z].type = dino[z].type BY <1>14 DEF Unnames
  <2>. QED BY <2>1, <2>2, <1>15, <1>17 DEF Touches
<1>19. Steady BY <1>1, <1>8 DEF Steady
<1>. QED BY <1>2, <1>8, <1>12, <1>13, <1>15, <1>16, <1>18, <1>19, TouchKept

\* What p knows of the inode it makes.
LEMMA NewIs == ASSUME Inv, Kept, NEW p \in Procs, k[p].pc = "new", lock[k[p].ip] = None
  PROVE  /\ ~NoType(k[p].ip) /\ Locked(k[p].ip).inode = dino[k[p].ip] /\ dino[k[p].ip] \in Inodes
         /\ k[p].ip \in Inums /\ k[p].dp \in Inums /\ k[p].ip # k[p].dp
         /\ dino[k[p].ip].nlink = 0 /\ ents[k[p].ip] = EmptyDir /\ Head(k[p].path) \in Names
         /\ ents[k[p].dp][Head(k[p].path)] = 0
         /\ NotNew(p, k[p].ip) /\ NotGoing(p, k[p].ip) /\ NotNew(p, k[p].dp) /\ NotGoing(p, k[p].dp)
         /\ core[k[p].ip].ref # 0 /\ k[p].old = 0 /\ k[p].pc \notin Puts
<1>. DEFINE i == k[p].ip
            d == k[p].dp
<1>1. k[p].old = 0 /\ k[p].pc \notin Puts BY BothHas
<1>2. /\ i \in Inums /\ d \in Inums /\ i # d /\ core[i].ref # 0 /\ lock[d] = p /\ Head(k[p].path) \in Elements
  BY BothFacts
<1>3. ~NoType(i) BY <1>2, TypeThere
<1>4. Locked(i).inode = dino[i] /\ dino[i] \in Inodes BY <1>2, <1>3, LockedIs DEF Inv
<1>5. dino[i].nlink = 0 /\ ents[i] = EmptyDir /\ Head(k[p].path) # DotDot BY DEF Kept, Fresh
<1>6. UsedBy(p, i) /\ UsedBy(p, d) BY DEF Uses
<1>7. NotNew(p, i) /\ NotGoing(p, i) BY <1>2, <1>6, Untouched
<1>8. NotNew(p, d) /\ NotGoing(p, d) BY <1>2, <1>6, Untouched
<1>9. ents[d][Head(k[p].path)] = 0 BY DEF Inv, TreeOK
<1>. QED BY <1>1, <1>2, <1>3, <1>4, <1>5, <1>7, <1>8, <1>9 DEF Elements

\* mkdir without a block for the new directory: the inode is put without links.
LEMMA CreateFailsKept ==
  ASSUME Inv, Kept, Inv', NEW p \in Procs, NEW ok \in BOOLEAN, CreateNew(p, ok), k[p].op = "mkdir" /\ used = Blocks
  PROVE Kept'
<1>. DEFINE i == k[p].ip
            d == k[p].dp
            x == [Locked(i).inode EXCEPT !.nlink = 0]
<1>1. k[p].pc = "new" /\ ~booting /\ lock[i] = None BY DEF CreateNew, AtInode, At, Up
<1>2. /\ ~NoType(i) /\ Locked(i).inode = dino[i] /\ dino[i] \in Inodes /\ i \in Inums /\ d \in Inums /\ i # d
      /\ dino[i].nlink = 0 /\ core[i].ref # 0 /\ k[p].old = 0 /\ k[p].pc \notin Puts BY <1>1, NewIs
<1>3. /\ k' = [k EXCEPT ![p] = PutThen(p, <<i, d>>, "done")] /\ Update(i, x) /\ ents' = ents
      /\ stable' = stable /\ missed' = missed /\ panicked' = panicked /\ cwd' = cwd /\ fd' = fd /\ booting' = booting
  BY <1>2 DEF CreateNew
<1>4. x \in Inodes /\ x.type = dino[i].type /\ x.nlink = 0
  <2>1. x = [dino[i] EXCEPT !.nlink = 0] BY <1>2
  <2>. HIDE DEF x
  <2>. QED BY <2>1, <1>2, FirstLink, LinkFields
<1>5. Tables /\ k[p].ip = i BY DEF Inv
<1>a. \A z \in {i, d} : HeldBy(p, z) BY DEF Holds
<1>b. FirmBy(p, d) /\ lock[i] = None BY <1>1 DEF Firm
<1>. HIDE DEF x, i, d
<1>6. SameNames /\ Grows /\ core'[i].valid BY <1>2, <1>3, <1>4, <1>b, UpdateSame
<1>7. Ended(p, i, d) BY <1>2, <1>3, <1>5, EndedIs
<1>8. /\ Others(p) /\ Reaches(p) /\ k'[p].old = 0
      /\ k'[p].pc \notin {"new", "free", "invalid", "drop"}
  <2>1. cwd' = cwd /\ \A q \in Procs \ {p} : fd'[q] = fd[q] BY <1>3
  <2>2. ASSUME NEW z \in Inums, z \in {fd'[p], i, d}
        PROVE Known(p, z)
    <3>1. Holds(cwd[p], fd[p], k[p], fd[p]) /\ Firm(cwd[p], fd[p], k[p], fd[p]) BY DEF Holds, Firm
    <3>. QED BY <3>1, <2>2, <1>3, <1>6, <1>a, <1>b
  <2>. QED BY <1>7, <2>1, <2>2, EndReaches
<1>9. BothTree' /\ NlinksOK' BY <1>2, <1>6, <1>8, NamesKept
<1>10. Tree(dino', ents') BY <1>9 DEF BothTree
<1>11. Touches(p) BY <1>6 DEF SameNames, Touches
<1>12. Steady BY <1>1, <1>3 DEF Steady
<1>13. k[p].pc = "new" => lock[k[p].ip] = None /\ core'[k[p].ip].valid BY <1>5, <1>6, <1>b
<1>. QED BY <1>2, <1>3, <1>6, <1>8, <1>9, <1>10, <1>11, <1>12, <1>13, TouchKept

\* The tree with a new inode.
LEMMA NewNamed ==
  ASSUME Inv, Kept, NEW i \in Inums, NEW d \in Inums, NEW n \in Names, i # d, dino[i].nlink = 0, dino[d].type = "dir",
         ents[i] = EmptyDir, ents[d][n] = 0, dino[i].type = "dir" => dino[d].nlink >= 1, NamesNew(i, d, n)
  PROVE  /\ Tree(dino', ents') /\ \A x \in Inums : ents'[x][DotDot] # 0 \/ ents'[x][DotDot] = ents[x][DotDot]
         /\ \A x \in Inums : /\ NameCount(dino', ents', x) \in Nat
                             /\ NameCount(dino', ents', x) + (dino[x].nlink - dino'[x].nlink)
                                  <= NameCount(dino, ents, x)
<1>0. /\ Tree(dino, ents) /\ n \in Elements /\ n # DotDot /\ DotDot \in Elements /\ Names \subseteq Elements
      /\ Root \in Inums /\ 0 \notin Inums /\ dino[Root].nlink >= 1 /\ \A m \in Elements : m = DotDot \/ m \in Names
      /\ \A m \in Names : m # DotDot BY NamedIs, FsAssumption DEF Kept, BothTree, Elements, Inums
<1>1. \A x \in Inums : dino[x].nlink \in Int /\ Has(i, x) \in 0 .. 1 /\ Has(d, x) \in 0 .. 1 BY NamedIs, HasIs
<1>2. ASSUME NEW x \in Inums
      PROVE  /\ dino'[x].type = dino[x].type /\ dino'[x].nlink \in Int
             /\ x = i => dino'[x].nlink = dino[x].nlink + 1
             /\ x = d /\ dino[i].type = "dir" => dino'[x].nlink = dino[x].nlink + 1
             /\ x # i /\ (x # d \/ dino[i].type # "dir") => dino'[x].nlink = dino[x].nlink
  BY <1>1 DEF NamesNew, Has
<1>3. /\ ents'[d][n] = i /\ \A m \in Elements \ {n} : ents'[d][m] = ents[d][m]
      /\ \A m \in Names : ents'[i][m] = ents[i][m]
      /\ ents'[i][DotDot] = IF dino[i].type = "dir" THEN d ELSE ents[i][DotDot]
      /\ \A x \in Inums \ {i, d} : ents'[x] = ents[x] BY DEF NamesNew
<1>4. ASSUME NEW x \in Inums, NEW m \in Elements
      PROVE  \/ ents'[x][m] = ents[x][m] \/ (x = d /\ m = n /\ ents'[x][m] = i)
             \/ (x = i /\ m = DotDot /\ dino[i].type = "dir" /\ ents'[x][m] = d)
  <2>1. CASE x = d BY <2>1, <1>3
  <2>2. CASE x = i BY <2>2, <1>0, <1>3
  <2>3. CASE x \notin {i, d} BY <2>3, <1>3
  <2>. QED BY <2>1, <2>2, <2>3
<1>5. i # Root BY <1>0
<1>6. \A x \in Inums : ents'[x][DotDot] # 0 \/ ents'[x][DotDot] = ents[x][DotDot] BY <1>0, <1>4
<1>7. Tree(dino', ents')
  <2>1. \A x \in Inums, m \in Names : ents'[x][m] # Root BY <1>0, <1>4, <1>5 DEF Tree
  <2>2. ASSUME NEW x \in Inums, NEW y \in Inums, NEW m \in Names, ents'[x][m] = y, dino'[y].type = "dir"
        PROVE ents'[y][DotDot] = x
    <3>1. CASE x = d /\ m = n
      <4>1. y = i /\ dino[i].type = "dir" BY <2>2, <3>1, <1>2, <1>3
      <4>. QED BY <4>1, <3>1, <1>3
    <3>2. CASE ~(x = d /\ m = n)
      <4>1. ents[x][m] = y /\ m \in Elements /\ m # DotDot BY <2>2, <3>2, <1>0, <1>4
      <4>2. y # i
        <5>1. dino[y].nlink >= 1 BY <4>1, NamedIs
        <5>. QED BY <5>1
      <4>3. ents[y][DotDot] = x BY <4>1, <2>2, <1>0, <1>2 DEF Tree
      <4>. QED BY <4>2, <4>3, <1>0, <1>4
    <3>. QED BY <3>1, <3>2
  <2>3. ASSUME NEW x \in Inums, dino'[x].type = "dir", dino'[x].nlink >= 1 PROVE ents'[x][DotDot] # 0
    <3>1. CASE x = i BY <2>3, <3>1, <1>0, <1>2, <1>3
    <3>2. CASE x # i
      <4>1. ents'[x][DotDot] = ents[x][DotDot] BY <3>2, <1>0, <1>4
      <4>2. dino[x].type = "dir" /\ dino[x].nlink >= 1
        <5>1. CASE x = d /\ dino[i].type = "dir" BY <5>1
        <5>2. CASE x # d \/ dino[i].type # "dir" BY <5>2, <3>2, <2>3, <1>2
        <5>. QED BY <5>1, <5>2
      <4>. QED BY <4>1, <4>2, <1>0 DEF Tree
    <3>. QED BY <3>1, <3>2
  <2>4. ASSUME NEW x \in Inums, dino'[x].type = "dir" PROVE dino'[x].nlink <= 1 + Cardinality(Subs(dino', ents', x))
    <3>. DEFINE S == Subs(dino', ents', x)
                T == Subs(dino, ents, x)
    <3>1. IsFiniteSet(S) /\ Cardinality(S) \in Nat BY SubsFinite
    <3>2. IsFiniteSet(T) /\ Cardinality(T) \in Nat BY SubsFinite
    <3>3. T \subseteq S /\ (x = d => n \notin T)
      <4>1. ASSUME NEW m \in T PROVE m \in S /\ (x = d => m # n)
        <5>1. m \in Names /\ ents[x][m] # 0 /\ dino[ents[x][m]].type = "dir" BY DEF Subs
        <5>2. ents[x][m] \in Inums BY <5>1, <1>0 DEF Inv, Tables
        <5>3. ~(x = d /\ m = n) BY <5>1
        <5>4. ents'[x][m] = ents[x][m] BY <5>1, <5>3, <1>0, <1>4
        <5>. QED BY <5>1, <5>2, <5>3, <5>4, <1>2 DEF Subs
      <4>. QED BY <4>1
    <3>4. x = d /\ dino[i].type = "dir" => n \in S
      <4>1. dino[i].type = "dir" => dino'[i].type = "dir" /\ ents'[d][n] # 0 BY <1>0, <1>2, <1>3
      <4>. QED BY <4>1, <1>3 DEF Subs
    <3>5. dino[x].type = "dir" /\ dino[x].nlink <= 1 + Cardinality(T) BY <2>4, <1>0, <1>2 DEF Tree
    <3>. HIDE DEF S, T
    <3>6. CASE x = i
      <4>1. dino'[x].nlink = 1 BY <3>6, <1>2
      <4>. QED BY <4>1, <3>1 DEF S
    <3>7. CASE x # i /\ x = d /\ dino[i].type = "dir"
      <4>1. T \subseteq S \ {n} /\ n \in S BY <3>3, <3>4, <3>7
      <4>2. Cardinality(T) + 1 <= Cardinality(S) BY <4>1, <3>1, <3>2, CardSteps
      <4>3. dino'[x].nlink = dino[x].nlink + 1 /\ dino[x].nlink \in Int BY <3>7, <1>1, <1>2
      <4>4. dino'[x].nlink <= 1 + Cardinality(S) BY <4>2, <4>3, <3>1, <3>2, <3>5
      <4>. QED BY <4>4 DEF S
    <3>8. CASE x # i /\ (x # d \/ dino[i].type # "dir")
      <4>1. Cardinality(T) <= Cardinality(S) BY <3>1, <3>2, <3>3, CardSteps
      <4>2. dino'[x].nlink = dino[x].nlink /\ dino[x].nlink \in Int BY <3>8, <1>1, <1>2
      <4>3. dino'[x].nlink <= 1 + Cardinality(S) BY <4>1, <4>2, <3>1, <3>2, <3>5
      <4>. QED BY <4>3 DEF S
    <3>. QED BY <3>6, <3>7, <3>8
  <2>5. dino'[Root].type = "dir" BY <1>0, <1>2 DEF Tree
  <2>. QED BY <2>1, <2>2, <2>3, <2>4, <2>5 DEF Tree
<1>8. ASSUME NEW x \in Inums, NEW e \in NamesOf(dino', ents', x)
      PROVE  \/ e \in NamesOf(dino, ents, x) \/ (e = <<d, n>> /\ x = i)
             \/ (e = <<i, DotDot>> /\ x = d /\ dino[i].type = "dir")
  <2>1. /\ e \in Inums \X Elements /\ dino'[e[1]].type = "dir" /\ ents'[e[1]][e[2]] = x
        /\ e[2] = DotDot => dino'[e[1]].nlink > 0 /\ e[1] # x BY DEF NamesOf
  <2>2. e[1] \in Inums /\ e[2] \in Elements /\ e = <<e[1], e[2]>> BY <2>1
  <2>3. CASE e[1] = d /\ e[2] = n BY <2>1, <2>2, <2>3, <1>3
  <2>4. CASE e[1] = i /\ e[2] = DotDot
    <3>1. dino[i].type = "dir" BY <2>1, <2>4, <1>2
    <3>. QED BY <3>1, <2>1, <2>2, <2>4, <1>3
  <2>5. CASE ~(e[1] = d /\ e[2] = n) /\ ~(e[1] = i /\ e[2] = DotDot)
    <3>1. ents[e[1]][e[2]] = x BY <2>1, <2>2, <2>5, <1>4
    <3>2. ASSUME e[2] = DotDot PROVE dino[e[1]].nlink > 0
      <4>1. e[1] # i /\ dino'[e[1]].nlink > 0 BY <2>1, <2>5, <3>2
      <4>2. CASE e[1] = d /\ dino[i].type = "dir" BY <4>2, <1>1
      <4>3. CASE ~(e[1] = d /\ dino[i].type = "dir") BY <4>1, <4>3, <2>2, <1>2
      <4>. QED BY <4>2, <4>3
    <3>. QED BY <3>1, <3>2, <2>1, <2>2, <1>2 DEF NamesOf
  <2>. QED BY <2>3, <2>4, <2>5
<1>9. ASSUME NEW x \in Inums
      PROVE  /\ NameCount(dino', ents', x) \in Nat
             /\ NameCount(dino', ents', x) + (dino[x].nlink - dino'[x].nlink)
                  <= NameCount(dino, ents, x)
  <2>. DEFINE S == NamesOf(dino, ents, x)
              T == NamesOf(dino', ents', x)
  <2>1. IsFiniteSet(S) BY NamesFinite
  <2>2. IsFiniteSet(T) BY NamesFinite
  <2>3. x = i => T \subseteq S \cup {<<d, n>>} BY <1>8
  <2>4. x = d /\ dino[i].type = "dir" => T \subseteq S \cup {<<i, DotDot>>} BY <1>8
  <2>5. x # i /\ (x # d \/ dino[i].type # "dir") => T \subseteq S BY <1>8
  <2>. HIDE DEF S, T
  <2>6. /\ Cardinality(S) \in Nat /\ Cardinality(T) \in Nat
        /\ T \subseteq S => Cardinality(T) <= Cardinality(S)
        /\ \A e : T \subseteq S \cup {e} => Cardinality(T) <= Cardinality(S) + 1 BY <2>1, <2>2, CardSteps
  <2>7. x = i \/ (x = d /\ dino[i].type = "dir") => Cardinality(T) <= Cardinality(S) + 1 BY <2>3, <2>4, <2>6
  <2>8. Cardinality(T) + (dino[x].nlink - dino'[x].nlink) <= Cardinality(S)
    <3>1. CASE x = i \/ (x = d /\ dino[i].type = "dir")
      <4>1. dino[x].nlink - dino'[x].nlink = 0 - 1 BY <3>1, <1>1, <1>2
      <4>. QED BY <4>1, <3>1, <2>6, <2>7
    <3>2. CASE ~(x = i \/ (x = d /\ dino[i].type = "dir"))
      <4>1. dino[x].nlink - dino'[x].nlink = 0 BY <3>2, <1>1, <1>2
      <4>. QED BY <4>1, <3>2, <2>5, <2>6
    <3>. QED BY <3>1, <3>2
  <2>. QED BY <2>6, <2>8 DEF S, T
<1>. QED BY <1>6, <1>7, <1>9

\* create makes the inode: its first link, its name, and for a directory the way back.
LEMMA CreateMakesKept ==
  ASSUME Inv, Kept, Inv', NEW p \in Procs, NEW ok \in BOOLEAN, CreateNew(p, ok), ~(k[p].op = "mkdir" /\ used = Blocks),
         ~Strays(p) PROVE Kept'
<1>. DEFINE i == k[p].ip
            d == k[p].dp
            n == Head(k[p].path)
            isdir == k[p].op = "mkdir"
            g == [Locked(i).inode EXCEPT !.nlink = 1]
            x == IF isdir THEN Bmap(g) ELSE g
            y == IF isdir THEN Linked(core[d].inode) ELSE core[d].inode
            e == IF isdir THEN Dirlink(ents, i, DotDot, d) ELSE ents
            good == ok /\ k[p].op = "creat"
<1>1. k[p].pc = "new" /\ ~booting /\ lock[i] = None BY DEF CreateNew, AtInode, At, Up
<1>2. /\ ~NoType(i) /\ Locked(i).inode = dino[i] /\ dino[i] \in Inodes /\ i \in Inums /\ d \in Inums /\ i # d
      /\ dino[i].nlink = 0 /\ n \in Names /\ NotNew(p, i) /\ NotGoing(p, i) /\ NotNew(p, d) /\ NotGoing(p, d)
      /\ core[i].ref # 0 /\ k[p].old = 0 /\ k[p].pc \notin Puts /\ ents[i] = EmptyDir /\ ents[d][n] = 0
  BY <1>1, NewIs
<1>3. /\ core[d].valid /\ core[d].inode = dino[d] /\ dino[d].type = "dir" /\ dino[d] \in Inodes /\ lock[d] = p
  BY <1>1, BothFacts
<1>4. /\ core' = [core EXCEPT ![i] = [Locked(i) EXCEPT !.inode = x], ![d].inode = y]
      /\ dino' = [dino EXCEPT ![i] = x, ![d] = y] /\ ents' = Dirlink(e, d, n, i) BY <1>2 DEF CreateNew
<1>5. stable' = stable /\ missed' = missed /\ panicked' = panicked BY <1>2 DEF CreateNew
<1>6. /\ cwd' = cwd /\ booting' = booting /\ Keep(p, i, good, <<d>>) BY <1>2 DEF CreateNew
<1>7. Tables /\ LocksOK /\ CoresOK /\ k[p].ip = i BY DEF Inv
<1>8. isdir <=> dino[i].type = "dir"
  <2>1. dino[i].type = KindOf(k[p].op) BY <1>1 DEF Inv, HeldOK
  <2>. QED BY <2>1 DEF KindOf
<1>x. x \in Inodes /\ x.type = dino[i].type /\ x.nlink = 1
  <2>1. g \in Inodes /\ g.type = dino[i].type /\ g.nlink = 1
    <3>1. g = [dino[i] EXCEPT !.nlink = 1] BY <1>2
    <3>. HIDE DEF g
    <3>. QED BY <3>1, <1>2, FirstLink, LinkFields
  <2>. HIDE DEF g
  <2>2. CASE isdir
    <3>1. FirstFree \in Blocks BY <2>2, <1>7, FirstFreeIs
    <3>2. Bmap(g) \in Inodes /\ Bmap(g).type = g.type /\ Bmap(g).nlink = g.nlink BY <2>1, <3>1, InodeFields, LinkFields
    <3>. QED BY <2>1, <2>2, <3>2
  <2>. QED BY <2>1, <2>2
<1>y. y \in Inodes /\ y.type = "dir" /\ y.nlink = dino[d].nlink + (IF isdir THEN 1 ELSE 0)
  <2>1. /\ Linked(dino[d]) \in Inodes /\ Linked(dino[d]).type = "dir" /\ Linked(dino[d]).nlink = dino[d].nlink + 1
        /\ dino[d].nlink \in Int BY <1>3, InodeFields, LinkFields
  <2>2. y = IF isdir THEN Linked(dino[d]) ELSE dino[d] BY <1>3
  <2>. HIDE DEF y, isdir
  <2>. QED BY <1>3, <2>1, <2>2
<1>a. \A z \in {i, d} : HeldBy(p, z) BY DEF Holds
<1>b. FirmBy(p, d) /\ lock[i] = None BY <1>1 DEF Firm
<1>. HIDE DEF x, y, e, i, d, n, isdir, good
<1>10. Writes(i, d, x, y) BY <1>2, <1>3, <1>4, <1>7, <1>b, <1>x, <1>y, BothWritten
<1>11. core'[i].valid /\ core'[d].valid /\ Grows
  <2>1. \A z \in Inums : core[z].ref \in Nat BY <1>7 DEF Tables, Cores
  <2>. QED BY <2>1, <1>10 DEF Writes, Grows
<1>12. /\ \A q \in Procs \ {p} : fd'[q] = fd[q]
       /\ \/ fd'[p] = i /\ Ended(p, d, 0)
          \/ fd'[p] = fd[p] /\ Ended(p, d, i) BY <1>2, <1>6, <1>7, KeepEnds
<1>13. /\ Others(p) /\ Reaches(p) /\ k'[p].old = 0
       /\ k'[p].pc \notin {"new", "free", "invalid", "drop"}
  <2>1. Holds(cwd[p], fd[p], k[p], fd[p]) /\ Firm(cwd[p], fd[p], k[p], fd[p]) BY DEF Holds, Firm
  <2>2. ASSUME NEW z \in Inums, z \in {fd[p], i, d}
        PROVE Known(p, z)
    BY <2>1, <2>2, <1>11, <1>a
  <2>3. CASE fd'[p] = i /\ Ended(p, d, 0)
    <3>1. ASSUME NEW z \in Inums, z \in {fd'[p], d, 0}
          PROVE Known(p, z)
      BY <3>1, <2>2, <2>3 DEF Inums
    <3>. QED BY <3>1, <2>3, <1>6, <1>12, EndReaches
  <2>4. CASE fd'[p] = fd[p] /\ Ended(p, d, i)
    <3>1. ASSUME NEW z \in Inums, z \in {fd'[p], d, i}
          PROVE Known(p, z)
      BY <3>1, <2>2, <2>4
    <3>. QED BY <3>1, <2>4, <1>6, <1>12, EndReaches
  <2>. QED BY <2>3, <2>4, <1>12
<1>14. NamesNew(i, d, n)
  <2>0. /\ ents \in [Inums -> [Elements -> {0} \cup Inums]] /\ DotDot \in Elements /\ d \in {0} \cup Inums
        /\ i \in {0} \cup Inums /\ n \in Elements /\ n # DotDot /\ \A m \in Names : m \in Elements \ {DotDot}
    BY <1>2, <1>7, FsAssumption DEF Tables, Elements
  <2>1. /\ e \in [Inums -> [Elements -> {0} \cup Inums]] /\ \A j \in Inums \ {i} : e[j] = ents[j]
        /\ \A m \in Names : e[i][m] = ents[i][m]
        /\ e[i][DotDot] = IF isdir THEN d ELSE ents[i][DotDot]
    <3>1. /\ Dirlink(ents, i, DotDot, d) \in [Inums -> [Elements -> {0} \cup Inums]]
          /\ Dirlink(ents, i, DotDot, d)[i][DotDot] = d
          /\ \A m \in Elements \ {DotDot} : Dirlink(ents, i, DotDot, d)[i][m] = ents[i][m]
          /\ \A j \in Inums \ {i} : Dirlink(ents, i, DotDot, d)[j] = ents[j]
      <4>1. /\ ents \in [Inums -> [Elements -> {0} \cup Inums]] /\ i \in Inums /\ DotDot \in Elements
            /\ d \in {0} \cup Inums BY <2>0, <1>2
      <4>. QED BY <4>1, DirlinkIs
    <3>. QED BY <3>1, <2>0 DEF e
  <2>2. /\ ents'[d][n] = i /\ \A m \in Elements \ {n} : ents'[d][m] = e[d][m]
        /\ \A j \in Inums \ {d} : ents'[j] = e[j]
    <3>1. e \in [Inums -> [Elements -> {0} \cup Inums]] /\ d \in Inums /\ n \in Elements /\ i \in {0} \cup Inums
      BY <2>0, <2>1, <1>2
    <3>2. /\ Dirlink(e, d, n, i)[d][n] = i
          /\ \A m \in Elements \ {n} : Dirlink(e, d, n, i)[d][m] = e[d][m]
          /\ \A j \in Inums \ {d} : Dirlink(e, d, n, i)[j] = e[j] BY <3>1, DirlinkIs
    <3>. QED BY <3>2, <1>4
  <2>3. /\ dino' \in [Inums -> Inodes] /\ dino'[i] = x /\ dino'[d] = y /\ \A j \in Inums \ {i, d} : dino'[j] = dino[j]
    BY <1>10 DEF Writes
  <2>4. \A z \in Inums : dino'[z].type = dino[z].type /\ dino'[z].nlink \in Int /\ dino[z].nlink \in Int
    <3>1. \A z \in Inums : dino'[z].nlink \in Int /\ dino[z].nlink \in Int BY <2>3, <1>7 DEF Tables, Inodes
    <3>. QED BY <3>1, <2>3, <1>3, <1>x, <1>y
  <2>5. ASSUME NEW z \in Inums
        PROVE dino'[z].nlink = dino[z].nlink + Has(i, z) + (IF dino[i].type = "dir" THEN Has(d, z) ELSE 0)
    <3>1. CASE z = i
      <4>1. Has(i, z) = 1 /\ Has(d, z) = 0 BY <3>1, <1>2 DEF Has
      <4>. QED BY <4>1, <3>1, <2>3, <2>4, <1>x, <1>2
    <3>2. CASE z = d
      <4>1. Has(i, z) = 0 /\ Has(d, z) = 1 BY <3>2, <1>2 DEF Has
      <4>. QED BY <4>1, <3>2, <2>3, <2>4, <1>y, <1>8
    <3>3. CASE z # i /\ z # d
      <4>1. Has(i, z) = 0 /\ Has(d, z) = 0 BY <3>3 DEF Has
      <4>. QED BY <4>1, <3>3, <2>3, <2>4
    <3>. QED BY <3>1, <3>2, <3>3
  <2>6. /\ \A m \in Elements \ {n} : ents'[d][m] = ents[d][m]
        /\ \A m \in Names : ents'[i][m] = ents[i][m]
        /\ ents'[i][DotDot] = IF dino[i].type = "dir" THEN d ELSE ents[i][DotDot]
        /\ \A z \in Inums \ {i, d} : ents'[z] = ents[z] BY <2>1, <2>2, <1>2, <1>8
  <2>. QED BY <2>2, <2>4, <2>5, <2>6 DEF NamesNew
<1>m. isdir => dino[d].nlink >= 1
  <2>1. dino'[i].nlink = 1 BY <1>10, <1>x DEF Writes
  <2>2. k'[p] # k[p] BY <1>1, <1>13
  <2>3. isdir => dino[d].nlink # 0 BY <1>1, <2>1, <2>2 DEF Strays, isdir, i, d
  <2>. QED BY <2>3, <1>2, NamedIs
<1>15. /\ Tree(dino', ents') /\ \A z \in Inums : ents'[z][DotDot] # 0 \/ ents'[z][DotDot] = ents[z][DotDot]
       /\ \A z \in Inums : /\ NameCount(dino', ents', z) \in Nat
                           /\ NameCount(dino', ents', z) + (dino[z].nlink - dino'[z].nlink)
                                <= NameCount(dino, ents, z)
  BY <1>2, <1>3, <1>8, <1>m, <1>14, NewNamed
<1>16. NlinksOK' BY <1>2, <1>13, <1>15, CountedBy
<1>17. Touches(p)
  <2>1. ASSUME NEW z \in Inums, z \notin {i, d} PROVE dino'[z] = dino[z] /\ ents'[z] = ents[z]
    BY <2>1, <1>10, <1>14 DEF Writes, NamesNew
  <2>2. \A z \in Inums : dino'[z].type = dino[z].type BY <1>14 DEF NamesNew
  <2>3. ASSUME NEW z \in Inums, dino'[z].nlink = 0 PROVE dino[z].nlink = 0
    <3>1. dino[z].nlink \in Int /\ dino[z].nlink >= 0 /\ Has(i, z) \in Nat /\ Has(d, z) \in Nat BY NamedIs, HasIs
    <3>2. dino'[z].nlink = dino[z].nlink + Has(i, z) + (IF dino[i].type = "dir" THEN Has(d, z) ELSE 0)
      BY <1>14 DEF NamesNew
    <3>. QED BY <3>1, <3>2, <2>3
  <2>4. \A z \in {i, d} : NotNew(p, z) /\ NotGoing(p, z) BY <1>2
  <2>. QED BY <2>1, <2>2, <2>3, <2>4, <1>15 DEF Touches
<1>18. Steady BY <1>1, <1>5, <1>6 DEF Steady
<1>19. k[p].pc = "new" => lock[k[p].ip] = None /\ core'[k[p].ip].valid BY <1>7, <1>11, <1>b
<1>. QED BY <1>2, <1>5, <1>11, <1>13, <1>15, <1>16, <1>17, <1>18, <1>19, TouchKept

\* A free inode becomes one without links: the names stay.
LEMMA AllocNames ==
  ASSUME Inv, Kept, NEW j \in Inums, dino[j].type = "free", dino'[j].nlink = 0,
         \A x \in Inums \ {j} : dino'[x] = dino[x], ents' = ents
  PROVE  /\ Tree(dino', ents') /\ ents[j] = EmptyDir
         /\ \A x \in Inums : dino'[x].nlink = dino[x].nlink /\ NamesOf(dino', ents', x) \subseteq NamesOf(dino, ents, x)
<1>1. /\ Tree(dino, ents) /\ Root \in Inums /\ dino[Root].type = "dir" /\ Names \subseteq Elements
      /\ \A d \in Inums, n \in Names, i \in Inums : ents[d][n] = i => dino[i].nlink >= 1
      /\ \A d \in Inums, n \in Names : ents[d][n] \in {0} \cup Inums
  <2>1. \A n \in Names : n \in Elements /\ n # DotDot BY FsAssumption DEF Elements
  <2>2. \A d \in Inums, n \in Names : ents[d][n] \in {0} \cup Inums BY <2>1 DEF Inv, Tables
  <2>. QED BY <2>1, <2>2, NamedIs DEF Kept, BothTree
<1>2. dino[j].nlink = 0 /\ ents[j] = EmptyDir
  <2>1. dino[j] = FreeInode /\ ents[j] = EmptyDir BY DEF Inv, DisksOK, DiskOK
  <2>. QED BY <2>1 DEF FreeInode
<1>3. \A x \in Inums : dino'[x].nlink = dino[x].nlink BY <1>2
<1>4. ASSUME NEW x \in Inums, NEW e \in NamesOf(dino', ents', x) PROVE e \in NamesOf(dino, ents, x)
  <2>1. e[1] \in Inums /\ e[2] \in Elements /\ ents[e[1]][e[2]] = x BY DEF NamesOf
  <2>2. e[1] # j BY <2>1, <1>2 DEF EmptyDir, Inums
  <2>. QED BY <2>1, <2>2 DEF NamesOf
<1>5. Tree(dino', ents')
  <2>1. dino'[Root].type = "dir" BY <1>1
  <2>2. \A x \in Inums, n \in Names : ents[x][n] # j
    <3>1. \A x \in Inums, n \in Names : ents[x][n] = j => dino[j].nlink >= 1 BY <1>1
    <3>. QED BY <3>1, <1>2
  <2>3. ASSUME NEW x \in Inums PROVE Subs(dino', ents', x) = Subs(dino, ents, x)
    <3>1. ASSUME NEW n \in Names
          PROVE (ents'[x][n] # 0 /\ dino'[ents'[x][n]].type = "dir") <=> (ents[x][n] # 0 /\ dino[ents[x][n]].type = "dir")
      <4>1. ents'[x][n] = ents[x][n] /\ (ents[x][n] # 0 => ents[x][n] \in Inums \ {j}) BY <1>1, <2>2
      <4>. QED BY <4>1
    <3>. QED BY <3>1 DEF Subs
  <2>4. ASSUME NEW x \in Inums, dino'[x].type = "dir"
        PROVE  /\ dino'[x].nlink <= 1 + Cardinality(Subs(dino', ents', x))
               /\ dino'[x].nlink >= 1 => ents'[x][DotDot] # 0
    <3>1. Cardinality(Subs(dino, ents, x)) \in Nat BY SubsFinite
    <3>2. CASE x = j BY <3>1, <3>2, <2>3
    <3>3. CASE x # j
      <4>1. dino'[x] = dino[x] /\ ents'[x] = ents[x] BY <3>3
      <4>. QED BY <4>1, <2>3, <2>4, <1>1 DEF Tree
    <3>. QED BY <3>2, <3>3
  <2>5. ASSUME NEW d \in Inums, NEW i \in Inums, NEW n \in Names, ents'[d][n] = i, dino'[i].type = "dir"
        PROVE ents'[i][DotDot] = d
    <3>1. i # j /\ ents[d][n] = i BY <2>2, <2>5
    <3>. QED BY <3>1, <2>5, <1>1 DEF Tree
  <2>6. \A d \in Inums, n \in Names : ents'[d][n] # Root BY <1>1 DEF Tree
  <2>. QED BY <2>1, <2>4, <2>5, <2>6 DEF Tree
<1>. QED BY <1>2, <1>3, <1>4, <1>5

\* create allocates the inode: it was free, and so nobody uses it.
LEMMA CreateTakesKept ==
  ASSUME Inv, Kept, Inv', NEW p \in Procs, CreateDir(p), Dirlookup(k[p].dp, Head(k[p].path)) = 0, FreeInums # {}
  PROVE Kept'
<1>. DEFINE d == k[p].dp
            j == CHOOSE f \in FreeInums : \A g \in FreeInums : f <= g
            x == [FreeInode EXCEPT !.type = NewType(p)]
<1>1. /\ k[p].pc = "parent" /\ ~booting /\ k[p].op # "linkto" /\ lock[d] = None
      /\ k[p].op \in {"creat", "mkdir", "mknod"} BY DEF CreateDir, At, Up
<1>a. /\ core' = Iget(core, j) /\ dino' = [dino EXCEPT ![j] = x] /\ k' = [k EXCEPT ![p].pc = "new", ![p].ip = j]
  BY DEF CreateDir
<1>b. /\ stable' = stable /\ missed' = missed /\ panicked' = panicked
      /\ ents' = ents /\ cwd' = cwd /\ fd' = fd /\ booting' = booting BY DEF CreateDir
<1>c. j \in Inums /\ dino[j].type = "free"
  <2>1. \E f \in FreeInums : \A g \in FreeInums : f <= g
    <3>1. FreeInums \in SUBSET Inums BY DEF FreeInums
    <3>. QED BY <3>1, LeastInum
  <2>2. j \in FreeInums BY <2>1
  <2>. QED BY <2>2 DEF FreeInums
<1>. HIDE DEF j
<1>2. d \in Inums /\ Head(k[p].path) # DotDot BY <1>1, MissingName
<1>3. k[p].pc \notin Puts /\ Fst(k[p]) = 0 /\ Snd(k[p]) = 0 /\ Tables /\ k[p].ip = 0 BY <1>1, ParentHas DEF Inv
<1>4. k[p].old = 0 BY <1>1, CallIs DEF Inv
<1>5. x.type # "free" /\ x.nlink = 0
  <2>1. PICK t \in {"file", "dir", "dev"} : t = NewType(p) BY DEF NewType
  <2>2. [FreeInode EXCEPT !.type = t].type = t /\ [FreeInode EXCEPT !.type = t].nlink = 0 BY DEF FreeInode
  <2>. QED BY <2>1, <2>2
<1>. HIDE DEF x
<1>6. dino'[j] = x /\ \A y \in Inums \ {j} : dino'[y] = dino[y] BY <1>a, <1>c, <1>3 DEF Tables
<1>7. /\ k'[p].pc = "new" /\ k'[p].ip = j /\ k'[p].dp = d /\ k'[p].old = 0 /\ k'[p].op = k[p].op
      /\ k'[p].path = k[p].path /\ k'[p].puts = k[p].puts /\ \A q \in Procs \ {p} : k'[q] = k[q]
  <2>1. k[p] \in CallRecords /\ k \in [Procs -> CallRecords] BY <1>3 DEF Tables
  <2>2. PICK c \in CallRecords : c = k[p] BY <2>1
  <2>3. k' = [k EXCEPT ![p] = [c EXCEPT !.pc = "new", !.ip = j]] BY <2>1, <2>2, <1>a
  <2>4. k'[p] = [c EXCEPT !.pc = "new", !.ip = j] /\ \A q \in Procs \ {p} : k'[q] = k[q] BY <2>1, <2>3
  <2>5. /\ k'[p].pc = "new" /\ k'[p].ip = j /\ k'[p].dp = c.dp /\ k'[p].old = c.old /\ k'[p].op = c.op
        /\ k'[p].path = c.path /\ k'[p].puts = c.puts BY <2>2, <2>4 DEF CallRecords
  <2>. QED BY <2>2, <2>4, <2>5, <1>4
<1>8. Fst(k'[p]) = 0 /\ Snd(k'[p]) = 0 BY <1>7, <1>3 DEF Fst, Snd
<1>9. Others(p) /\ (\A y \in Inums : Made(p, y) <=> y = j) BY <1>b, <1>7, <1>c DEF Others, Made
<1>10. ASSUME NEW y \in Inums
       PROVE  /\ HeldBy(p, y)' => HeldBy(p, y) \/ y = j
              /\ UsedBy(p, y)' => UsedBy(p, y) \/ y = j
              /\ FirmBy(p, y)' => FirmBy(p, y)
              /\ Treads(cwd'[p], k'[p], y) => Treads(cwd[p], k[p], y)
  <2>1. y # 0 BY DEF Inums
  <2>. QED BY <2>1, <1>3, <1>4, <1>b, <1>7, <1>8 DEF Holds, Uses, Firm, Treads
<1>11. Takes(p) BY <1>9, <1>10 DEF Takes
<1>12. \A q \in Procs : ~UsedBy(q, j) BY <1>c DEF Kept, InUse
<1>13. Grows
  <2>1. SameTable(core) BY <1>3, CoreIsTable DEF Inv
  <2>. QED BY <2>1, <1>3, <1>a, <1>c, GrowsBy
<1>14. /\ Tree(dino', ents') /\ ents[j] = EmptyDir
       /\ \A y \in Inums : dino'[y].nlink = dino[y].nlink /\ NamesOf(dino', ents', y) \subseteq NamesOf(dino, ents, y)
  BY <1>5, <1>6, <1>b, <1>c, AllocNames
<1>15. BothTree' /\ StableNlinks' BY <1>14, <1>b DEF Kept, BothTree, StableNlinks
<1>16. NlinksOK'
  <2>1. ASSUME NEW y \in Inums
        PROVE Counted(dino', ents', k', y)
    <3>1. Linking(k', y) \subseteq Linking(k, y) BY <1>7, <1>9, LinkingLess
    <3>. QED BY <3>1, <1>14, LinksLess
  <2>. QED BY <2>1 DEF NlinksOK
<1>18. InUse'
  <2>1. \A y \in Inums : Made(p, y) => dino'[y].type # "free" BY <1>5, <1>6, <1>9
  <2>2. \A y \in Inums : dino[y].type = "free" \/ dino'[y].type # "free" BY <1>5, <1>6
  <2>. QED BY <2>1, <2>2, <1>9, <1>11, InUseStep
<1>19. Parented'
  <2>1. ASSUME NEW q \in Procs PROVE ~Treads(cwd'[q], k'[q], j)
    <3>1. ~Treads(cwd[q], k[q], j) BY <1>12 DEF Treads, Uses
    <3>2. CASE q = p BY <3>1, <3>2, <1>10, <1>c
    <3>3. CASE q # p BY <3>1, <3>3, <1>9 DEF Others
    <3>. QED BY <3>2, <3>3
  <2>2. ASSUME NEW y \in Inums, dino'[y].type = "dir"
        PROVE  \/ dino[y].type = "dir" /\ (ents'[y][DotDot] # 0 \/ ents'[y][DotDot] = ents[y][DotDot])
               \/ \A q \in Procs : ~Treads(cwd'[q], k'[q], y) BY <2>1, <2>2, <1>6, <1>b
  <2>. QED BY <2>2, <1>9, <1>10, ParentedStep
<1>20. Fresh'
  <2>1. /\ dino'[k'[p].ip].nlink = 0 /\ ents'[k'[p].ip] = EmptyDir
        /\ k'[p].ip \notin {cwd'[p], fd'[p]} /\ Head(k'[p].path) # DotDot
        /\ \A q \in Procs \ {p} : ~Uses(cwd[q], fd[q], k[q], k'[p].ip)
    <3>1. j # cwd[p] /\ j # fd[p] BY <1>12 DEF Uses
    <3>. QED BY <3>1, <1>2, <1>5, <1>6, <1>7, <1>12, <1>14, <1>b
  <2>2. \A y \in Inums : dino'[y].nlink = dino[y].nlink /\ ents'[y] = ents[y] BY <1>14, <1>b
  <2>. QED BY <2>1, <2>2, <1>9, <1>11, FreshStep
<1>21. Going'
  <2>1. k'[p].pc \notin {"free", "invalid"} /\ k[p].pc # "new" BY <1>1, <1>7
  <2>. QED BY <2>1, <1>9, <1>11, <1>14, GoingStep
<1>22. \A y \in Inums : (core[y].valid => core'[y].valid) /\ (core[y].ref > 0 => core'[y].ref # 0) BY <1>13 DEF Grows
<1>23. Read' BY <1>9, <1>10, <1>22, ReadStep
<1>24. Gone'
  <2>1. k'[p].pc \notin Leaving /\ k[p].pc # "new" BY <1>1, <1>7 DEF Leaving
  <2>2. \A y \in Inums : dino[y].type = "free" => dino'[y].type = "free" \/ Made(p, y) BY <1>6, <1>9
  <2>. QED BY <2>1, <2>2, <1>9, <1>22, GoneStep
<1>25. NoPanic' /\ AtRoot' /\ ~booting /\ missed \subseteq missed' BY <1>1, <1>b DEF Kept, NoPanic, AtRoot
<1>26. Accounted'
  <2>1. ASSUME NEW y \in Inums, dino'[y].type # "free", dino'[y].nlink = 0
        PROVE  \/ HeldBy(p, y)' \/ y \in missed'
               \/ /\ dino[y].type # "free" /\ dino[y].nlink = 0
                  /\ core[y].ref > 0 => core'[y].ref # 0
    <3>1. Holds(cwd'[p], fd'[p], k'[p], j) BY <1>7 DEF Holds
    <3>. QED BY <3>1, <2>1, <1>6, <1>22
  <2>. QED BY <2>1, <1>25, OrphansStep
<1>. QED BY <1>15, <1>16, <1>18, <1>19, <1>20, <1>21, <1>23, <1>24, <1>25, <1>26 DEF Kept

----
(* Boot, ireclaim, and the whole of Next *)

\* A process that has nothing but its current directory.
LEMMA AtBoot ==
  ASSUME NEW w, NEW f, NEW c, f = 0, c.pc = "user", c.ip = 0, c.dp = 0, c.old = 0, Fst(c) = 0, Snd(c) = 0,
         NEW x \in Inums
  PROVE  /\ Holds(w, f, c, x) => x = w
         /\ Uses(w, f, c, x) => x = w
         /\ Firm(w, f, c, x) => x = w
         /\ Treads(w, c, x) => x = w
<1>1. x # 0 BY DEF Inums
<1>. QED BY <1>1 DEF Holds, Uses, Firm, Treads

\* Such a state satisfies the invariant.
LEMMA BootKept == BootKeeps => Kept
<1>. HAVE BootKeeps
<1>1. BothTree /\ StableNlinks /\ NoPanic /\ (~booting => Nameless = {}) BY DEF BootKeeps
<1>2. /\ NoCall.pc = "user" /\ NoCall.op = "none" /\ NoCall.ip = 0 /\ NoCall.dp = 0
      /\ NoCall.old = 0 /\ NoCall.puts = <<>> BY DEF NoCall
<1>3. \A p \in Procs : k[p] = NoCall /\ cwd[p] = Root /\ fd[p] = 0 BY DEF BootKeeps, BootState, Booted
<1>4. Fst(NoCall) = 0 /\ Snd(NoCall) = 0 BY <1>2, PutsOf
<1>5. ASSUME NEW p \in Procs, NEW x \in Inums
      PROVE  /\ HeldBy(p, x) => x = Root
             /\ UsedBy(p, x) => x = Root
             /\ FirmBy(p, x) => x = Root
             /\ Treads(cwd[p], k[p], x) => x = Root BY <1>2, <1>3, <1>4, AtBoot
<1>6. Tree(dino, ents) /\ Root \in Inums BY <1>1, FsAssumption DEF BothTree, Inums, Root
<1>7. ASSUME NEW i \in Inums
      PROVE  /\ dino[i].nlink >= NameCount(dino, ents, i) + Has(i, Root)
             /\ NameCount(dino, ents, i) \in Nat /\ dino[i].nlink \in Int
  BY NamesFinite DEF BootKeeps, BootState, Inodes
<1>8. ents[Root][DotDot] # 0
  <2>1. Has(Root, Root) = 1 BY DEF Has
  <2>2. dino[Root].nlink >= 1 BY <2>1, <1>6, <1>7
  <2>. QED BY <2>2, <1>6 DEF Tree
<1>9. NlinksOK
  <2>1. ASSUME NEW i \in Inums
        PROVE Counted(dino, ents, k, i)
    <3>1. Linking(k, i) = {} BY <1>2, <1>3 DEF Linking, Inums
    <3>2. Cardinality(Linking(k, i)) = 0 BY <3>1, FS_EmptySet
    <3>3. Has(i, Root) \in Nat BY HasIs
    <3>. QED BY <3>2, <3>3, <1>7
  <2>. QED BY <2>1 DEF NlinksOK
<1>11. InUse BY <1>5, <1>6 DEF InUse, Tree
<1>12. Parented BY <1>5, <1>8 DEF Parented
<1>13. Fresh /\ Going /\ Gone BY <1>2, <1>3 DEF Fresh, Going, Gone, Leaving
<1>14. Read BY <1>5 DEF Read
<1>15. AtRoot /\ Accounted BY <1>1, <1>3 DEF AtRoot, Accounted
<1>. QED BY <1>1, <1>9, <1>11, <1>12, <1>13, <1>14, <1>15 DEF Kept

\* The machine comes back with the last commit, in which every name is counted.
LEMMA CrashKept == ASSUME Inv, Kept, Crash PROVE Kept'
<1>1. BootState' BY CrashBoots
<1>2. /\ dino' = stable[1] /\ ents' = stable[2] /\ stable' = stable /\ booting' = TRUE /\ panicked' = panicked
  BY DEF Crash
<1>3. BothTree' /\ StableNlinks' BY <1>2 DEF Kept, BothTree, StableNlinks
<1>4. \A i \in Inums : dino'[i].nlink >= NameCount(dino', ents', i) + Has(i, Root)
  BY <1>2 DEF Kept, StableNlinks
<1>5. BootKeeps' BY <1>1, <1>2, <1>3, <1>4 DEF BootKeeps, Kept, NoPanic
<1>. QED BY <1>5, BootKept, PTL

\* The disk of mkfs has no names, and the root has its link.
LEMMA InitKept == Init => Kept
<1>. HAVE Init
<1>1. /\ dino = [i \in Inums |-> IF i = Root THEN [type |-> "dir", nlink |-> 1, addr |-> RootBlock] ELSE FreeInode]
      /\ ents = [i \in Inums |-> IF i = Root THEN [EmptyDir EXCEPT ![DotDot] = Root] ELSE EmptyDir]
      /\ stable[1] = dino /\ stable[2] = ents BY DEF Init, diskVars
<1>2. Root \in Inums /\ DotDot \notin Names /\ 0 \notin Inums BY FsAssumption DEF Root, Inums
<1>3. /\ dino[Root].type = "dir" /\ dino[Root].nlink = 1
      /\ \A i \in Inums \ {Root} : dino[i].type = "free" /\ dino[i].nlink = 0 BY <1>1, <1>2 DEF FreeInode
<1>4. /\ ents[Root][DotDot] = Root /\ \A d \in Inums, n \in Names : ents[d][n] = 0
      /\ \A d \in Inums \ {Root} : ents[d][DotDot] = 0 BY <1>1, <1>2 DEF EmptyDir, Elements
<1>5. Tree(dino, ents)
  <2>1. \A i \in Inums : Cardinality(Subs(dino, ents, i)) \in Nat BY SubsFinite
  <2>2. \A i \in Inums : dino[i].type = "dir" => i = Root BY <1>3
  <2>3. /\ \A i \in Inums : dino[i].type = "dir" => dino[i].nlink <= 1 + Cardinality(Subs(dino, ents, i))
        /\ \A i \in Inums : dino[i].type = "dir" /\ dino[i].nlink >= 1 => ents[i][DotDot] # 0
    BY <2>1, <2>2, <1>2, <1>3, <1>4
  <2>4. \A d, i \in Inums, n \in Names : ents[d][n] # i BY <1>2, <1>4
  <2>. QED BY <2>3, <2>4, <1>2, <1>3 DEF Tree
<1>6. ASSUME NEW i \in Inums PROVE dino[i].nlink >= NameCount(dino, ents, i) + Has(i, Root)
  <2>1. ASSUME NEW e \in NamesOf(dino, ents, i) PROVE FALSE
    <3>1. /\ e[1] \in Inums /\ e[2] \in Elements /\ dino[e[1]].type = "dir" /\ ents[e[1]][e[2]] = i
          /\ e[2] = DotDot => e[1] # i BY DEF NamesOf
    <3>2. e[1] = Root BY <3>1, <1>3
    <3>. QED BY <3>1, <3>2, <1>2, <1>4 DEF Elements
  <2>2. NamesOf(dino, ents, i) = {} BY <2>1
  <2>3. NameCount(dino, ents, i) = 0 BY <2>2, FS_EmptySet
  <2>. QED BY <2>3, <1>3 DEF Has
<1>7. BothTree /\ StableNlinks BY <1>1, <1>5, <1>6 DEF BothTree, StableNlinks
<1>8. Nameless = {} /\ NoPanic BY <1>3 DEF Nameless, NoPanic, Init
<1>9. BootState BY InitBoots
<1>. QED BY <1>6, <1>7, <1>8, <1>9, BootKept DEF BootKeeps

\* Before ireclaim has finished every process has the root, and nothing else.
LEMMA OnlyRoot == ASSUME Inv, Kept, booting, NEW p \in Procs, NEW x \in Inums
  PROVE  /\ k[p].pc = "user" /\ k[p].old = 0
         /\ HeldBy(p, x) => x = Root
         /\ UsedBy(p, x) => x = Root
         /\ Treads(cwd[p], k[p], x) => x = Root
<1>1. k[p].pc = "user" /\ cwd[p] = Root /\ fd[p] = 0 BY DEF Inv, Quiet, Kept, AtRoot
<1>2. k[p].ip = 0 /\ k[p].dp = 0 /\ k[p].old = 0 BY <1>1, CallIs DEF Inv
<1>3. Fst(k[p]) = 0 /\ Snd(k[p]) = 0 BY <1>1, FstIs DEF Inv, Puts
<1>. QED BY <1>1, <1>2, <1>3, AtBoot

\* ireclaim frees an inode without names, which no process has.
LEMMA IreclaimKept == ASSUME Inv, Kept, Inv', Ireclaim PROVE Kept'
<1>1. booting /\ core' = core /\ cwd' = cwd /\ fd' = fd /\ k' = k /\ missed' = missed /\ panicked' = panicked
  BY DEF Ireclaim, memVars
<1>2. ASSUME NEW p \in Procs, NEW x \in Inums
      PROVE  /\ k'[p].pc = "user" /\ k'[p].old = 0
             /\ UsedBy(p, x)' => x = Root
             /\ Treads(cwd'[p], k'[p], x) => x = Root BY <1>1, OnlyRoot
<1>3. Read' /\ NoPanic' BY <1>1 DEF Kept, Read, NoPanic
<1>4. Fresh' /\ Going' /\ Gone'
  <2>0. Root \in Inums BY FsAssumption DEF Root, Inums
  <2>1. \A p \in Procs : k'[p].pc = "user" BY <2>0, <1>2
  <2>. QED BY <2>1 DEF Fresh, Going, Gone, Leaving
<1>5. AtRoot' BY <1>1 DEF Kept, AtRoot
<1>6. CASE Orphans = {}
  <2>1. dino' = dino /\ ents' = ents /\ stable' = stable BY <1>6 DEF Ireclaim, diskVars
  <2>2. BothTree' /\ NlinksOK' /\ StableNlinks' /\ InUse' /\ Parented'
    BY <2>1, <1>1 DEF Kept, BothTree, NlinksOK, StableNlinks, InUse, Parented
  <2>3. Accounted' BY <2>1, <1>6 DEF Orphans, Accounted, Nameless
  <2>. QED BY <2>2, <2>3, <1>3, <1>4, <1>5 DEF Kept
<1>7. CASE Orphans # {}
  <2>. DEFINE i == CHOOSE j \in Orphans : \A l \in Orphans : j <= l
  <2>1. i \in Inums /\ dino[i].nlink = 0
    <3>1. Orphans \in SUBSET Inums BY DEF Orphans
    <3>2. \E j \in Orphans : \A l \in Orphans : j <= l BY <3>1, <1>7, LeastInum
    <3>3. i \in Orphans BY <3>2
    <3>. QED BY <3>1, <3>3 DEF Orphans
  <2>2. /\ dino' = [dino EXCEPT ![i] = FreeInode] /\ ents' = [ents EXCEPT ![i] = EmptyDir]
        /\ stable' = <<dino', ents', used'>> /\ booting' = booting BY <1>7 DEF Ireclaim
  <2>. HIDE DEF i
  <2>3. /\ i # Root /\ Tree(dino', ents')
        /\ \A x \in Inums \ {i} : dino'[x] = dino[x] /\ ents'[x] = ents[x]
        /\ \A x \in Inums : dino'[x].nlink = dino[x].nlink /\ NamesOf(dino', ents', x) \subseteq NamesOf(dino, ents, x)
    BY <2>1, <2>2, FreedNames
  <2>4. stable'[1] = dino' /\ stable'[2] = ents' BY <2>2
  <2>5. BothTree' BY <2>3, <2>4 DEF BothTree
  <2>6. ASSUME NEW x \in Inums
        PROVE Counted(dino', ents', k', x)
    <3>1. Linking(k', x) \subseteq Linking(k, x) BY <1>1
    <3>2. dino'[x].nlink = dino[x].nlink /\ NamesOf(dino', ents', x) \subseteq NamesOf(dino, ents, x) BY <2>3
    <3>. QED BY <3>1, <3>2, LinksLess
  <2>7. StableNlinks'
    <3>1. ASSUME NEW x \in Inums PROVE dino'[x].nlink >= NameCount(dino', ents', x) + Has(x, Root)
      <4>1. Linking(k', x) = {} BY <1>2 DEF Linking, Inums
      <4>2. Cardinality(Linking(k', x)) = 0 BY <4>1, FS_EmptySet
      <4>3. NameCount(dino', ents', x) \in Nat /\ Has(x, Root) \in Nat BY NamesFinite, HasIs
      <4>. QED BY <4>2, <4>3, <2>6
    <3>. QED BY <3>1, <2>4 DEF StableNlinks
  <2>8. Root \in Inums /\ dino[Root].type = "dir" /\ dino[Root].nlink >= 1 BY NamedIs
  <2>9. dino'[Root].type = "dir" /\ dino'[Root].nlink >= 1 BY <2>3, <2>8
  <2>10. InUse' BY <2>9, <1>2 DEF InUse
  <2>11. Parented'
    <3>1. ents'[Root][DotDot] # 0 BY <2>3, <2>8, <2>9 DEF Tree
    <3>. QED BY <3>1, <1>2 DEF Parented
  <2>12. Accounted' /\ NlinksOK' BY <2>2, <2>6, <1>1 DEF Accounted, NlinksOK
  <2>. QED BY <2>5, <2>7, <2>10, <2>11, <2>12, <1>3, <1>4, <1>5 DEF Kept
<1>. QED BY <1>6, <1>7

\* A step of a process keeps Kept.
LEMMA ProcessKept ==
  ASSUME Inv, Kept, Inv', NEW p \in Procs, ~Strays(p),
         \/ \E c \in Calls[p] : Begin(p, c)
         \/ Namex(p) \/ Iput(p) \/ IputFree(p) \/ IputInvalid(p) \/ IputDrop(p)
         \/ \E ok \in BOOLEAN : Open(p, ok) \/ CreateOld(p, ok) \/ CreateNew(p, ok)
         \/ Chdir(p) \/ Write(p) \/ Close(p)
         \/ Link(p) \/ LinkTo(p) \/ LinkBad(p) \/ UnlinkDir(p) \/ Unlink(p) \/ CreateDir(p)
         \/ EndOp(p) PROVE Kept'
<1>1. ASSUME NEW c \in Calls[p], Begin(p, c) PROVE Kept' BY <1>1, BeginKept
<1>2. CASE Namex(p) BY <1>2, NamexKept
<1>3. CASE Iput(p) BY <1>3, IputPlainKept, IputStartsKept
<1>4. CASE IputFree(p) BY <1>4, IputFreeKept
<1>5. CASE IputInvalid(p) BY <1>5, IputInvalidKept
<1>6. CASE IputDrop(p) BY <1>6, IputDropKept
<1>7. ASSUME NEW ok \in BOOLEAN, Open(p, ok) PROVE Kept' BY <1>7, OpenKept
<1>8. ASSUME NEW ok \in BOOLEAN, CreateOld(p, ok) PROVE Kept' BY <1>8, CreateOldKept
<1>9. ASSUME NEW ok \in BOOLEAN, CreateNew(p, ok) PROVE Kept' BY <1>9, CreateFailsKept, CreateMakesKept
<1>10. CASE Chdir(p) BY <1>10, ChdirKept
<1>11. CASE Write(p) BY <1>11, WriteKept
<1>12. CASE Close(p) BY <1>12, CloseKept
<1>13. CASE Link(p) BY <1>13, LinkDirKept, LinkCountsKept
<1>14. CASE LinkTo(p) BY <1>14, LinkTakenKept, LinkMadeKept
<1>15. CASE LinkBad(p) BY <1>15, LinkBadKept
<1>16. CASE UnlinkDir(p) BY <1>16, UnlinkDirKept
<1>17. CASE Unlink(p) BY <1>17, UnlinkFullKept, UnlinkDoneKept
<1>18. CASE CreateDir(p) BY <1>18, CreateFoundKept, CreateTakesKept
<1>19. CASE EndOp(p) BY <1>19, EndOpKept
<1>. QED BY <1>1, <1>2, <1>3, <1>4, <1>5, <1>6, <1>7, <1>8, <1>9, <1>10, <1>11, <1>12, <1>13, <1>14, <1>15,
     <1>16, <1>17, <1>18, <1>19

\* Every step does, until a call strays.
LEMMA KeptNext == Inv /\ (~strayed => Kept) /\ Inv' /\ [Next]_vars => (~strayed' => Kept')
<1>. SUFFICES ASSUME Inv, ~strayed => Kept, Inv', [Next]_vars, ~strayed' PROVE Kept' OBVIOUS
<1>1. CASE Next
  <2>1. Kept /\ Step /\ \A p \in Procs : ~Strays(p) BY <1>1 DEF Next
  <2>2. CASE Crash BY <2>1, <2>2, CrashKept
  <2>3. CASE Ireclaim BY <2>1, <2>3, IreclaimKept
  <2>. QED BY <1>1, <2>1, <2>2, <2>3, ProcessKept DEF Step
<1>2. CASE UNCHANGED vars
  <2>1. /\ dino' = dino /\ ents' = ents /\ stable' = stable /\ core' = core
        /\ cwd' = cwd /\ fd' = fd /\ k' = k /\ missed' = missed /\ booting' = booting /\ panicked' = panicked
    BY <1>2 DEF vars, diskVars, memVars
  <2>2. Kept BY <1>2 DEF vars
  <2>3. BothTree' /\ NlinksOK' /\ StableNlinks' /\ InUse' /\ Parented'
    BY <2>1, <2>2 DEF Kept, BothTree, NlinksOK, StableNlinks, InUse, Parented
  <2>4. Fresh' /\ Going' /\ Read' BY <2>1, <2>2 DEF Kept, Fresh, Going, Read
  <2>5. Gone' /\ AtRoot' /\ NoPanic' /\ Accounted'
    BY <2>1, <2>2 DEF Kept, Gone, AtRoot, NoPanic, Accounted, Nameless
  <2>. QED BY <2>3, <2>4, <2>5 DEF Kept
<1>. QED BY <1>1, <1>2

----
(* What the invariant says of names and references *)

\* An inode with a holder is held by a process.
LEMMA HolderIs == ASSUME NEW i \in Inums, Holders(i) > 0 PROVE \E p \in Procs : HeldBy(p, i)
<1>. SUFFICES ASSUME \A p \in Procs : ~HeldBy(p, i) PROVE FALSE OBVIOUS
<1>1. ASSUME NEW h \in Procs \X (1 .. 7), Held(h[1])[h[2]] = i PROVE FALSE
  <2>. DEFINE p == h[1]
              s == h[2]
  <2>1. p \in Procs /\ s \in 1 .. 7 /\ Held(p)[s] = i BY <1>1
  <2>. HIDE DEF p, s
  <2>2. ~HeldBy(p, i) BY <2>1
  <2>3. Put(p, 1) = Fst(k[p]) /\ Put(p, 2) = Snd(k[p]) BY DEF Put, Fst, Snd
  <2>4. s \in {1, 2, 3, 4, 5, 6, 7} BY <2>1
  <2>5. Held(p)[s] \in {cwd[p], fd[p], k[p].ip, k[p].dp, k[p].old, Fst(k[p]), Snd(k[p])} BY <2>3, <2>4 DEF Held
  <2>. QED BY <2>1, <2>2, <2>5 DEF Holds
<1>2. {h \in Procs \X (1 .. 7) : Held(h[1])[h[2]] = i} = {} BY <1>1
<1>3. Holders(i) = 0 BY <1>2, FS_EmptySet DEF Holders
<1>. QED BY <1>3

\* The invariant gives the properties.
LEMMA KeptGives ==
  Inv /\ Flag /\ (~strayed => Kept) => InodeRefsExact /\ NamesKeepInodes /\ OrphansAccounted /\ StrayPanics
<1>. SUFFICES ASSUME Inv, Flag, ~strayed => Kept
              PROVE InodeRefsExact /\ NamesKeepInodes /\ OrphansAccounted /\ StrayPanics OBVIOUS
<1>1. ~strayed => Accounted /\ NoPanic BY DEF Kept
<1>2. ASSUME ~strayed, NEW i \in Inums, Holders(i) > 0, ~BeingFreed(i) PROVE dino[i].type # "free"
  <2>0. Kept BY <1>2
  <2>1. PICK p \in Procs : HeldBy(p, i) BY <1>2, HolderIs
  <2>2. CASE UsedBy(p, i) BY <2>0, <2>2 DEF Kept, InUse
  <2>3. CASE i = Fst(k[p]) /\ k[p].pc \in Leaving
    <3>1. Fst(k[p]) = Head(k[p].puts) BY <2>3, FstIs DEF Inv, Leaving, Puts
    <3>. QED BY <3>1, <2>3, <1>2 DEF BeingFreed, Leaving
  <2>. QED BY <2>1, <2>2, <2>3, UsesHolds
<1>3. InodeRefsExact BY <1>1, <1>2 DEF Inv, RefsOK, InodeRefsExact, TypeOK, Flag
<1>4. ASSUME ~strayed, NEW i \in Inums, Links(i) # {} PROVE dino[i].type # "free" /\ dino[i].nlink >= Cardinality(Links(i))
  <2>0. Kept BY <1>4
  <2>1. NamesOf(dino, ents, i) = Links(i) BY NamesIs
  <2>2. /\ Cardinality(Links(i)) \in Nat /\ Cardinality(Linking(k, i)) \in Nat /\ Has(i, Root) \in Nat
        /\ dino[i].nlink >= Cardinality(Links(i)) + Cardinality(Linking(k, i)) + Has(i, Root)
    BY <2>0, <2>1, NamesFinite, HasIs DEF Kept, NlinksOK
  <2>3. dino[i].nlink \in Int BY <2>0, NamedIs
  <2>4. dino[i].nlink >= Cardinality(Links(i)) BY <2>2, <2>3
  <2>5. Cardinality(Links(i)) >= 1
    <3>1. PICK e : e \in Links(i) BY <1>4
    <3>2. IsFiniteSet(Links(i)) BY <2>1, NamesFinite
    <3>3. Cardinality(Links(i)) # 0 BY <3>1, <3>2, FS_EmptySet
    <3>. QED BY <3>3, <2>2
  <2>6. dino[i].nlink >= 1 BY <2>2, <2>3, <2>4, <2>5
  <2>. QED BY <2>0, <2>4, <2>6, NamedIs
<1>5. NamesKeepInodes BY <1>4 DEF NamesKeepInodes
<1>6. OrphansAccounted /\ StrayPanics BY <1>1 DEF Accounted, OrphansAccounted, StrayPanics, NoPanic
<1>. QED BY <1>3, <1>5, <1>6

\* The invariant with its second part, of names and links, which holds until a call goes
\* astray in a removed directory.  From there on nothing is promised: the ".." of a removed
\* directory is not counted by its parent (sys_unlink, kernel/sysfile.c), and ilock panics
\* once the parent is gone too (fs_dotdot).
THEOREM NamesInvariant == Spec => [](Inv /\ Flag /\ (~strayed => Kept))
<1>1. Init => Inv /\ (~strayed => Kept) BY InitInv, InitKept
<1>2. Inv /\ (~strayed => Kept) /\ [Next]_vars => Inv' /\ (~strayed' => Kept') BY NextInv, KeptNext
<1>. QED BY <1>1, <1>2, FlagAlways, PTL DEF Spec

\* iget, idup and iput (kernel/fs.c) keep ip->ref at the number of references that the
\* processes hold, always; and until a call strays, an inode that is held stays allocated until
\* the iput that frees it, whether another process is in namex, in ialloc of the same number
\* or in an iput of its own.
THEOREM InodeRefs == Spec => []InodeRefsExact
<1>. QED BY NamesInvariant, KeptGives, PTL

\* sys_link, sys_unlink, create and iput (kernel/sysfile.c, kernel/fs.c) free no inode that has
\* a name, and nlink is never below the number of names, after a crash either, whatever tree
\* mkdir makes, until a call strays.
THEOREM NamesKeep == Spec => []NamesKeepInodes
<1>. QED BY NamesInvariant, KeptGives, PTL

\* iput and ireclaim (kernel/fs.c) leave no inode without names that nobody holds, but for the
\* ones that iput's last decrement passes over, until a call strays.
THEOREM Orphaned == Spec => []OrphansAccounted
<1>. QED BY NamesInvariant, KeptGives, PTL

\* A call meets panic("ilock: no type") (kernel/fs.c) or panic("unlink: nlink < 1")
\* (kernel/sysfile.c) only if one has resolved ".." in a removed directory whose parent is
\* removed too, or made a directory in a removed one: there is no other way.
THEOREM PanicStrays == Spec => []StrayPanics
<1>. QED BY NamesInvariant, KeptGives, PTL
=============================================================================
