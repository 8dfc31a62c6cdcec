----------------------------- MODULE FilesProofs ----------------------------
(***************************************************************************)
(* Proofs about the file table and pipes: references are exact, a pipe is  *)
(* freed once and after both ends, nobody sleeps at a closed end, and a    *)
(* pipe is a queue also where its counters wrap, for every set of          *)
(* processes, files and pages and every size of a pipe.                    *)
(***************************************************************************)
EXTENDS Files, FiniteSetTheorems, SequenceTheorems, WellFoundedInduction, TLAPS

-----------------------------------------------------------------------------
(* The operators of the model *)

\* Natural numbers: a set of them that is not empty has a least element.
LEMMA LeastNat == ASSUME NEW T \in SUBSET Nat, T # {} PROVE \E x \in T : \A y \in T : x <= y
<1>. DEFINE Less == {s \in Nat \X Nat : s[1] < s[2]}
<1>1. IsWellFoundedOn(Less, Nat)
  BY NatLessThanWellFounded, Zenon DEF OpToRel
<1>. HIDE DEF Less
<1>2. PICK x \in T : \A y \in T : ~(<<y, x>> \in Less)
  BY <1>1, WFMin
<1>3. \A y \in T : ~(y < x)
  BY <1>2 DEF Less
<1>. QED
  BY <1>3

\* The loops of filealloc, fdalloc and kexit stop at an element of the set they search.
LEMMA LowestIs == ASSUME NEW T \in SUBSET Nat, T # {} PROVE Lowest(T) \in T
  BY LeastNat DEF Lowest

\* The descriptors of the tables considered, which are finite.
LEMMA FdsAre == FDs \subseteq Nat /\ IsFiniteSet(FDs) /\ \A n \in Nofiles : 0 .. n - 1 \subseteq FDs
<1>1. PICK top \in Nofiles : \A n \in Nofiles : n <= top
  BY FilesAssumption
<1>2. Max(Nofiles) \in Nofiles /\ \A n \in Nofiles : n <= Max(Nofiles)
  BY <1>1, FilesAssumption DEF Max
<1>3. PICK M \in Nat : M = Max(Nofiles) /\ \A n \in Nofiles : n <= M
  BY <1>2, FilesAssumption
<1>4. FDs = 0 .. M - 1
  BY <1>3 DEF FDs
<1>5. IsFiniteSet(0 .. M - 1)
  <2>1. M - 1 \in Int
    OBVIOUS
  <2>. QED
    BY <2>1, FS_Interval
<1>6. ASSUME NEW n \in Nofiles PROVE 0 .. n - 1 \subseteq 0 .. M - 1
  BY <1>3, FilesAssumption
<1>. QED
  BY <1>4, <1>5, <1>6

\* filealloc finds a structure without references.
LEMMA FreeFileIs ==
  ASSUME FreeFiles # {} PROVE Lowest(FreeFiles) \in Files /\ file[Lowest(FreeFiles)].ref = 0
<1>1. FreeFiles \in SUBSET Nat
  BY FilesAssumption DEF FreeFiles
<1>. QED
  BY <1>1, LowestIs DEF FreeFiles

\* fdalloc finds a descriptor that is not in use.
LEMMA FreeFdIs ==
  ASSUME TypeOK, NEW p \in Procs
  PROVE  /\ FreeFds(p) \in SUBSET FDs /\ FreeFds(p) \in SUBSET Nat
         /\ \A d \in FreeFds(p) : ofile[p][d] = None
         /\ FreeFds(p) # {} => Lowest(FreeFds(p)) \in FreeFds(p)
<1>1. FreeFds(p) \in SUBSET FDs
  BY FdsAre DEF FreeFds, TypeOK
<1>. QED
  BY <1>1, FdsAre, LowestIs DEF FreeFds

\* Two descriptors for pipe(): the second fdalloc skips the first's.
LEMMA TwoFreeFds ==
  ASSUME TypeOK, NEW p \in Procs, Cardinality(FreeFds(p)) >= 2
  PROVE  LET d == Lowest(FreeFds(p)) IN
         LET e == Lowest(FreeFds(p) \ {d}) IN
         d \in FreeFds(p) /\ e \in FreeFds(p) /\ d # e
<1>. DEFINE T == FreeFds(p)
            d == Lowest(T)
            e == Lowest(T \ {d})
<1>1. IsFiniteSet(T) /\ T \in SUBSET Nat
  BY FreeFdIs, FdsAre, FS_Subset
<1>2. T # {}
  BY <1>1, FS_EmptySet
<1>3. d \in T
  BY <1>2, FreeFdIs
<1>. HIDE DEF d
<1>4. Cardinality(T \ {d}) = Cardinality(T) - 1 /\ IsFiniteSet(T \ {d}) /\ Cardinality(T) \in Nat
  BY <1>1, <1>3, FS_RemoveElement, FS_CardinalityType
<1>5. T \ {d} # {}
  BY <1>4, FS_EmptySet
<1>6. e \in T \ {d}
  BY <1>1, <1>5, LowestIs
<1>. QED
  BY <1>3, <1>6 DEF d

\* The numbers of references to a file from descriptors and from calls.
LEMMA Counts ==
  ASSUME NEW f
  PROVE  /\ IsFiniteSet(Descriptors(f)) /\ Cardinality(Descriptors(f)) \in Nat
         /\ IsFiniteSet(Calls(f)) /\ Cardinality(Calls(f)) \in Nat
         /\ Cardinality(Descriptors(f)) = 0 <=> Descriptors(f) = {}
         /\ Cardinality(Calls(f)) = 0 <=> Calls(f) = {}
<1>1. IsFiniteSet(Procs \X FDs) /\ IsFiniteSet(Procs)
  BY FilesAssumption, FdsAre, FS_Product
<1>2. Descriptors(f) \in SUBSET (Procs \X FDs) /\ Calls(f) \in SUBSET Procs
  BY DEF Descriptors, Calls
<1>3. IsFiniteSet(Descriptors(f)) /\ IsFiniteSet(Calls(f))
  BY <1>1, <1>2, FS_Subset
<1>. QED
  BY <1>3, FS_CardinalityType, FS_EmptySet

\* The same after a step.
LEMMA CountsNext ==
  ASSUME NEW f
  PROVE  /\ IsFiniteSet(Descriptors(f)') /\ Cardinality(Descriptors(f)') \in Nat
         /\ IsFiniteSet(Calls(f)') /\ Cardinality(Calls(f)') \in Nat
<1>1. IsFiniteSet(Procs \X FDs) /\ IsFiniteSet(Procs)
  BY FilesAssumption, FdsAre, FS_Product
<1>2. Descriptors(f)' \in SUBSET (Procs \X FDs) /\ Calls(f)' \in SUBSET Procs
  BY DEF Descriptors, Calls
<1>3. IsFiniteSet(Descriptors(f)') /\ IsFiniteSet(Calls(f)')
  BY <1>1, <1>2, FS_Subset
<1>. QED
  BY <1>3, FS_CardinalityType

\* An element joins or leaves a finite set.
LEMMA CardStep ==
  ASSUME NEW S, IsFiniteSet(S), NEW x
  PROVE  /\ x \notin S => Cardinality(S \cup {x}) = Cardinality(S) + 1
         /\ x \in S => Cardinality(S \ {x}) = Cardinality(S) - 1
  BY FS_AddElement, FS_RemoveElement

\* A function changed at two places.
LEMMA TwoUpdates ==
  ASSUME NEW D, NEW R, NEW h \in [D -> R], NEW d \in D, NEW e \in D, d # e, NEW r \in R, NEW t \in R,
         NEW n, n = [h EXCEPT ![d] = r, ![e] = t]
  PROVE  n \in [D -> R] /\ n[d] = r /\ n[e] = t /\ \A x \in D \ {d, e} : n[x] = h[x]
<1>. DEFINE half == [h EXCEPT ![d] = r]
<1>1. half \in [D -> R] /\ half[d] = r /\ \A x \in D \ {d} : half[x] = h[x]
  OBVIOUS
<1>2. n = [half EXCEPT ![e] = t]
  OBVIOUS
<1>. HIDE DEF half
<1>. QED
  BY <1>1, <1>2

\* Sets of two elements and more.
LEMMA TwoElements ==
  ASSUME NEW S, IsFiniteSet(S), NEW x \in S, NEW y \in S, x # y PROVE Cardinality(S) >= 2
<1>1. IsFiniteSet(S \ {x}) /\ Cardinality(S \ {x}) = Cardinality(S) - 1 /\ Cardinality(S) \in Nat
  BY FS_RemoveElement, FS_CardinalityType
<1>2. S \ {x} # {}
  OBVIOUS
<1>3. Cardinality(S \ {x}) # 0 /\ Cardinality(S \ {x}) \in Nat
  <2>1. Cardinality(S \ {x}) \in Nat
    BY <1>1, FS_CardinalityType
  <2>. QED
    BY <1>1, <1>2, <2>1, FS_EmptySet
<1>. QED
  BY <1>1, <1>3

-----------------------------------------------------------------------------
(* The inductive invariant *)

\* FileRefsExact in parts: references to files, and those of files to inodes.
RefsCounted == \A f \in Files : file[f].ref = Cardinality(Descriptors(f)) + Cardinality(Calls(f))
InodeFiles  == {f \in Files : file[f].ref > 0 /\ file[f].type = "inode"}
InodeCloses == {p \in Procs : ff[p].type = "inode"}
IrefCounted == iref = Cardinality(InodeFiles) + Cardinality(InodeCloses)

Inv ==
  /\ TypeOK /\ ~panicked /\ RefsCounted /\ IrefCounted /\ PipeFreedOnce /\ PipeSleepersHaveCause
  /\ CallsAgree /\ NewFilesAgree /\ EndsAgree /\ PipesAgree

\* The invariant of Files and its parts named here are the same.
LEMMA IInvIs == IInv <=> Inv
  BY DEF IInv, Inv, FileRefsExact, RefsCounted, IrefCounted, InodeFiles, InodeCloses

\* A file is closed by a call that has it in todo, or made by one that has it in arg.
LEMMA HandIs ==
  ASSUME TypeOK, CallsAgree, NEW p \in Procs
  PROVE  /\ InHand(p) \subseteq Files
         /\ pc[p] \in {"close", "pipeclose"} => InHand(p) = ToSet(todo[p])
         /\ pc[p] \notin {"close", "pipeclose"} => todo[p] = <<>>
         /\ pc[p] \in {"pipe1", "open1"} => InHand(p) = {arg[p].f}
         /\ pc[p] \in {"pipe2", "pipe3"} => InHand(p) = {arg[p].f, arg[p].g}
         /\ pc[p] \notin {"close", "pipeclose"} \cup Creating => InHand(p) = {}
<1>1. todo[p] \in Seq(Files) /\ arg[p].f \in Files \cup {None} /\ arg[p].g \in Files \cup {None}
  BY DEF TypeOK
<1>2. ToSet(todo[p]) \subseteq Files
  BY <1>1 DEF ToSet
<1>3. pc[p] \notin {"close", "pipeclose"} => todo[p] = <<>> /\ ToSet(todo[p]) = {}
  BY DEF CallsAgree, CallAgrees, ToSet
<1>. QED
  BY <1>1, <1>2, <1>3 DEF InHand, Creating, CallsAgree, CallAgrees

\* What has a descriptor or is in the hand of a call is counted.
LEMMA RefFacts ==
  ASSUME Inv, NEW f \in Files
  PROVE  /\ \A p \in Procs, d \in FDs : ofile[p][d] = f => file[f].ref >= 1
         /\ \A p \in Procs : f \in InHand(p) => file[f].ref >= 1
         /\ \A p, q \in Procs, d \in FDs : ofile[p][d] = f /\ f \in InHand(q) => file[f].ref >= 2
         /\ \A p, q \in Procs : p # q /\ f \in InHand(p) /\ f \in InHand(q) => file[f].ref >= 2
<1>1. /\ file[f].ref = Cardinality(Descriptors(f)) + Cardinality(Calls(f))
      /\ Cardinality(Descriptors(f)) \in Nat /\ Cardinality(Calls(f)) \in Nat
      /\ IsFiniteSet(Calls(f))
  BY Counts DEF Inv, RefsCounted
<1>2. \A p \in Procs, d \in FDs : ofile[p][d] = f => Cardinality(Descriptors(f)) >= 1
  <2>. SUFFICES ASSUME NEW p \in Procs, NEW d \in FDs, ofile[p][d] = f
                PROVE  Cardinality(Descriptors(f)) >= 1
    OBVIOUS
  <2>1. <<p, d>> \in Descriptors(f)
    BY DEF Descriptors
  <2>2. (Cardinality(Descriptors(f)) = 0) <=> (Descriptors(f) = {})
    BY Counts
  <2>. QED
    BY <1>1, <2>1, <2>2
<1>3. \A p \in Procs : f \in InHand(p) => p \in Calls(f)
  BY DEF Calls
<1>4. \A p \in Procs : f \in InHand(p) => Cardinality(Calls(f)) >= 1
  <2>1. (Cardinality(Calls(f)) = 0) <=> (Calls(f) = {})
    BY Counts
  <2>. QED
    BY <1>1, <1>3, <2>1
<1>5. \A p, q \in Procs : p # q /\ f \in InHand(p) /\ f \in InHand(q) => Cardinality(Calls(f)) >= 2
  BY <1>1, <1>3, TwoElements
<1>. QED
  BY <1>1, <1>2, <1>4, <1>5

\* A file with a type is in use.
LEMMA Typed ==
  ASSUME Inv, NEW f \in Files
  PROVE  file[f].ref \in Nat /\ file[f] \in FileRecords /\ (file[f].type # "none" => file[f].ref > 0)
  BY DEF Inv, NewFilesAgree, TypeOK, FileRecords

\* A call that a step of another process leaves alone.
LEMMA CallKept ==
  ASSUME Inv, NEW q \in Procs, pc'[q] = pc[q], arg'[q] = arg[q], todo'[q] = todo[q], ff'[q] = ff[q],
         run'[q] = run[q], ofile'[q] = ofile[q],
         \A f \in Files : (\E d \in FDs : ofile[q][d] = f) /\ file[f].type = "pipe" =>
           file'[f].type = "pipe" /\ (file'[f].writable <=> file[f].writable)
  PROVE  CallAgrees(q)'
<1>1. CallAgrees(q) /\ OpenFds(q)' = OpenFds(q)
  BY DEF Inv, CallsAgree, OpenFds
<1>2. pc[q] \in Reading \cup Writing => arg[q].f \in Files
  BY <1>1 DEF CallAgrees, Inv, TypeOK
<1>. QED
  BY <1>1, <1>2 DEF CallAgrees

\* References are exact after a step that leaves descriptors, hands and counts alone.
LEMMA RefsKept ==
  ASSUME RefsCounted, ofile' = ofile, \A q \in Procs : InHand(q)' = InHand(q),
         \A f \in Files : file'[f].ref = file[f].ref
  PROVE  RefsCounted'
<1>1. \A f \in Files : Descriptors(f)' = Descriptors(f) /\ Calls(f)' = Calls(f)
  BY DEF Descriptors, Calls
<1>. QED
  BY <1>1 DEF RefsCounted

\* The inode references and the ends of pipes after a step that changes no type.
LEMMA TypesKept ==
  ASSUME Inv, UNCHANGED <<ff, pipe, page, iref>>,
         \A f \in Files : /\ file'[f].type = file[f].type /\ file'[f].pipe = file[f].pipe
                          /\ file'[f].writable <=> file[f].writable
                          /\ file[f].type # "none" => file'[f].ref > 0
  PROVE  IrefCounted' /\ PipeFreedOnce' /\ EndsAgree'
<1>1. \A f \in Files : file[f].type # "none" => file[f].ref > 0
  BY Typed
<1>2. IrefCounted'
  <2>1. InodeFiles' = InodeFiles /\ InodeCloses' = InodeCloses
    BY <1>1 DEF InodeFiles, InodeCloses
  <2>. QED
    BY <2>1 DEF Inv, IrefCounted
<1>3. \A a \in Pages : (HasEnd(a, TRUE)' <=> HasEnd(a, TRUE)) /\ (HasEnd(a, FALSE)' <=> HasEnd(a, FALSE))
  BY <1>1 DEF HasEnd
<1>4. PipeFreedOnce'
  BY <1>3 DEF Inv, PipeFreedOnce
<1>5. EndsAgree'
  BY DEF Inv, EndsAgree
<1>. QED
  BY <1>2, <1>4, <1>5

\* Locks and sleepers of pipes after a step that is not one of a call on a pipe.
LEMMA PipesKept ==
  ASSUME Inv, pipe' = pipe, \A f \in Files : file'[f].pipe = file[f].pipe,
         \A q \in Procs : pc'[q] # pc[q] =>
           pc[q] \notin Reading \cup Writing /\ pc'[q] \notin {"readAsleep", "writing", "writeAsleep"},
         \A q \in Procs : pc[q] \in Reading \cup Writing => arg'[q].f = arg[q].f
  PROVE  PipesAgree' /\ PipeSleepersHaveCause'
<1>1. \A q \in Procs : pc[q] \in Reading \cup Writing => arg[q].f \in Files
  BY DEF Inv, CallsAgree, CallAgrees, TypeOK
<1>2. \A q \in Procs : pc[q] \in Reading \cup Writing => PipeOf(q)' = PipeOf(q)
  BY <1>1 DEF PipeOf
<1>3. \A q \in Procs, w \in {"readAsleep", "writing", "writeAsleep"} : pc'[q] = w => pc[q] = w
  OBVIOUS
<1>4. \A q \in Procs : pc[q] = "writing" => pc'[q] = "writing"
  BY DEF Writing
<1>5. PipesAgree'
  <2>1. \A a \in Pages : Unread(a)' = Unread(a)
    BY DEF Unread
  <2>2. \A a \in Pages, q \in Procs :
          pc'[q] = "writing" /\ PipeOf(q)' = a <=> pc[q] = "writing" /\ PipeOf(q) = a
    BY <1>2, <1>3, <1>4 DEF Writing
  <2>. QED
    BY <2>1, <2>2 DEF Inv, PipesAgree
<1>6. PipeSleepersHaveCause'
  <2>1. ASSUME NEW q \in Procs, pc'[q] = "readAsleep" PROVE pipe'[PipeOf(q)'].writeopen
    BY <1>2, <1>3, <2>1 DEF Inv, PipeSleepersHaveCause, Reading
  <2>2. ASSUME NEW q \in Procs, pc'[q] = "writeAsleep"
        PROVE  PipeFull(PipeOf(q))' /\ pipe'[PipeOf(q)'].readopen
    BY <1>2, <1>3, <2>2 DEF Inv, PipeSleepersHaveCause, Writing, PipeFull
  <2>. QED
    BY <2>1, <2>2 DEF PipeSleepersHaveCause
<1>. QED
  BY <1>5, <1>6

\* What CloseAll gives fileclose to do.
LEMMA TodoSets ==
  ASSUME NEW f, NEW g PROVE ToSet(<<>>) = {} /\ ToSet(<<f>>) = {f} /\ ToSet(<<f, g>>) = {f, g}
<1>1. ToSet(<<>>) = {}
  BY DEF ToSet
<1>2. ToSet(<<f>>) = {f}
  <2>1. DOMAIN <<f>> = {1}
    OBVIOUS
  <2>. QED
    BY <2>1 DEF ToSet
<1>3. ToSet(<<f, g>>) = {f, g}
  <2>1. DOMAIN <<f, g>> = {1, 2}
    OBVIOUS
  <2>2. ToSet(<<f, g>>) = {<<f, g>>[i] : i \in {1, 2}}
    BY <2>1 DEF ToSet
  <2>3. <<f, g>>[1] = f /\ <<f, g>>[2] = g
    OBVIOUS
  <2>. QED
    BY <2>2, <2>3
<1>. QED
  BY <1>1, <1>2, <1>3

-----------------------------------------------------------------------------
(* One lemma per action *)

\* fileinit: no file is open.
LEMMA InitInv == Init => Inv
<1>. SUFFICES ASSUME Init PROVE Inv
  OBVIOUS
<1>0. /\ \A f \in Files : file[f] = Closed
      /\ \A p \in Procs : /\ pc[p] = "user" /\ todo[p] = <<>> /\ ff[p] = Closed /\ arg[p] = NoArg
                          /\ \A d \in FDs : ofile[p][d] = None
      /\ \A a \in Pages : pipe[a] = NewPipe
      /\ page = {} /\ iref = 0 /\ panicked = FALSE
  BY DEF Init, Junk
<1>1. TypeOK
  <2>1. Closed \in FileRecords
    BY DEF Closed, FileRecords
  <2>2. NewPipe \in PipeRecords
    BY FilesAssumption DEF NewPipe, PipeRecords, Bytes
  <2>3. NoArg \in [f : Files \cup {None}, g : Files \cup {None}, n : 0 .. MaxWrite]
    BY FilesAssumption DEF NoArg
  <2>4. file \in [Files -> FileRecords] /\ pipe \in [Pages -> PipeRecords] /\ ff \in [Procs -> FileRecords]
    BY <2>1, <2>2 DEF Init, Junk
  <2>5. arg \in [Procs -> [f : Files \cup {None}, g : Files \cup {None}, n : 0 .. MaxWrite]]
    BY <2>3 DEF Init
  <2>6. /\ nofile \in Nofiles /\ page \subseteq Pages /\ iref \in Nat /\ panicked \in BOOLEAN
        /\ ofile \in [Procs -> [FDs -> Files \cup {None}]]
    BY DEF Init
  <2>7. /\ run \in [Procs -> {"unused", "alive", "exiting"}] /\ killed \in [Procs -> BOOLEAN]
        /\ todo \in [Procs -> Seq(Files)]
    BY DEF Init
  <2>8. pc \in [Procs -> {"user", "close", "pipeclose", "pipe1", "pipe2", "pipe3", "open1",
                           "read", "readAsleep", "write", "writing", "writeAsleep"}]
    BY DEF Init
  <2>. QED
    BY <2>4, <2>5, <2>6, <2>7, <2>8 DEF TypeOK
<1>2. \A p \in Procs : InHand(p) = {}
  BY <1>0, TodoSets DEF InHand, Creating
<1>3. RefsCounted
  <2>1. \A f \in Files : Descriptors(f) = {} /\ Calls(f) = {}
    BY <1>0, <1>2, FilesAssumption DEF Descriptors, Calls
  <2>2. Cardinality({}) = 0
    BY FS_EmptySet
  <2>3. ASSUME NEW f \in Files PROVE file[f].ref = Cardinality(Descriptors(f)) + Cardinality(Calls(f))
    <3>1. Descriptors(f) = {} /\ Calls(f) = {} /\ file[f].ref = 0
      BY <1>0, <2>1 DEF Closed
    <3>. QED
      BY <2>2, <3>1
  <2>. QED
    BY <2>3 DEF RefsCounted
<1>4. IrefCounted
  <2>1. InodeFiles = {} /\ InodeCloses = {}
    BY <1>0 DEF InodeFiles, InodeCloses, Closed
  <2>. QED
    BY <1>0, <2>1, FS_EmptySet DEF IrefCounted
<1>5. PipeFreedOnce
  BY <1>0 DEF PipeFreedOnce, HasEnd, Closed
<1>6. PipeSleepersHaveCause
  BY <1>0 DEF PipeSleepersHaveCause
<1>7. CallsAgree
  BY <1>0 DEF CallsAgree, CallAgrees, Closed, NoArg, OpenFds, Creating, Reading, Writing
<1>8. NewFilesAgree
  BY <1>0 DEF NewFilesAgree, Closed, Creating
<1>9. EndsAgree
  BY <1>0 DEF EndsAgree, Closed
<1>10. PipesAgree
  <2>1. \A a \in Pages : Unread(a) = 0
    BY <1>0, FilesAssumption DEF Unread, NewPipe
  <2>. QED
    BY <1>0, <2>1, FilesAssumption DEF PipesAgree, NewPipe
<1>. QED
  BY <1>0, <1>1, <1>3, <1>4, <1>5, <1>6, <1>7, <1>8, <1>9, <1>10 DEF Inv

\* exit begins, and ends with no descriptor left.
LEMMA RunInv ==
  ASSUME Inv, nofile' = nofile, NEW p \in Procs, Exit(p) \/ Reap(p) PROVE Inv'
<1>1. /\ UNCHANGED <<file, iref, pipe, page, ofile, pc, todo, ff, arg, panicked>>
      /\ run' \in [Procs -> {"unused", "alive", "exiting"}] /\ killed' \in [Procs -> BOOLEAN]
      /\ \A q \in Procs : run'[q] = "unused" => OpenFds(q) = {} /\ pc[q] = "user"
  <2>1. CASE Exit(p)
    BY <2>1 DEF Exit, fileVars, pipeVars, callVars, Inv, TypeOK, CallsAgree, CallAgrees
  <2>2. CASE Reap(p)
    BY <2>2 DEF Reap, fileVars, pipeVars, callVars, Inv, TypeOK, CallsAgree, CallAgrees
  <2>. QED
    BY <2>1, <2>2
<1>2. \A q \in Procs : InHand(q)' = InHand(q) /\ OpenFds(q)' = OpenFds(q)
  BY <1>1 DEF InHand, OpenFds
<1>3. TypeOK'
  BY <1>1 DEF Inv, TypeOK
<1>4. RefsCounted'
  BY <1>1, <1>2, RefsKept DEF Inv
<1>5. IrefCounted' /\ PipeFreedOnce' /\ EndsAgree'
  <2>1. \A f \in Files : file[f].type # "none" => file[f].ref > 0
    BY Typed
  <2>. QED
    BY <1>1, <2>1, TypesKept
<1>6. PipesAgree' /\ PipeSleepersHaveCause'
  BY <1>1, PipesKept
<1>7. CallsAgree'
  BY <1>1, <1>2 DEF Inv, CallsAgree, CallAgrees
<1>8. NewFilesAgree'
  BY <1>1, <1>2 DEF Inv, NewFilesAgree
<1>. QED
  BY <1>1, <1>3, <1>4, <1>5, <1>6, <1>7, <1>8 DEF Inv

\* read and write of a pipe begin with a descriptor of the right end.
LEMMA StartInv ==
  ASSUME Inv, nofile' = nofile, NEW p \in Procs, NEW d \in FDs,
         Read(p, d) \/ \E n \in 1 .. MaxWrite : Write(p, d, n)
  PROVE  Inv'
<1>1. /\ UNCHANGED <<file, iref, pipe, page, ofile, run, killed, todo, ff, panicked>>
      /\ pc[p] = "user" /\ run[p] = "alive" /\ ofile[p][d] # None
      /\ pc' \in [Procs -> {pc[q] : q \in Procs} \cup {"read", "write"}]
      /\ arg' \in [Procs -> [f : Files \cup {None}, g : Files \cup {None}, n : 0 .. MaxWrite]]
      /\ \A q \in Procs : q # p => pc'[q] = pc[q] /\ arg'[q] = arg[q]
      /\ arg'[p].f = ofile[p][d] /\ arg'[p].g = arg[p].g
      /\ file[ofile[p][d]].type = "pipe"
      /\ \/ pc'[p] = "read" /\ ~file[ofile[p][d]].writable
         \/ pc'[p] = "write" /\ file[ofile[p][d]].writable
  <2>. DEFINE Args == [f : Files \cup {None}, g : Files \cup {None}, n : 0 .. MaxWrite]
  <2>0. /\ arg \in [Procs -> Args] /\ DOMAIN pc = Procs
        /\ ofile[p][d] \in Files \cup {None} /\ 1 .. MaxWrite \subseteq 0 .. MaxWrite
    BY FilesAssumption DEF Inv, TypeOK
  <2>1. CASE Read(p, d)
    <3>. DEFINE r == [arg[p] EXCEPT !.f = ofile[p][d]]
    <3>1. r \in Args /\ r.f = ofile[p][d] /\ r.g = arg[p].g
      BY <2>0
    <3>2. arg' = [arg EXCEPT ![p] = r] /\ pc' = [pc EXCEPT ![p] = "read"]
      BY <2>1 DEF Read
    <3>. HIDE DEF r, Args
    <3>3. arg' \in [Procs -> Args] /\ arg'[p] = r /\ \A q \in Procs : q # p => arg'[q] = arg[q]
      BY <2>0, <3>1, <3>2
    <3>4. /\ pc' \in [Procs -> {pc[q] : q \in Procs} \cup {"read", "write"}] /\ pc'[p] = "read"
          /\ \A q \in Procs : q # p => pc'[q] = pc[q]
      BY <2>0, <3>2
    <3>. QED
      BY <2>1, <3>1, <3>3, <3>4 DEF Read, InUser, fileVars, pipeVars, procVars, Args
  <2>2. ASSUME NEW n \in 1 .. MaxWrite, Write(p, d, n) PROVE <1>1!:
    <3>. DEFINE r == [arg[p] EXCEPT !.f = ofile[p][d], !.n = n]
    <3>1. r \in Args /\ r.f = ofile[p][d] /\ r.g = arg[p].g
      BY <2>0
    <3>2. arg' = [arg EXCEPT ![p] = r] /\ pc' = [pc EXCEPT ![p] = "write"]
      BY <2>2, ZenonT(60) DEF Write
    <3>. HIDE DEF r, Args
    <3>3. arg' \in [Procs -> Args] /\ arg'[p] = r /\ \A q \in Procs : q # p => arg'[q] = arg[q]
      BY <2>0, <3>1, <3>2
    <3>4. /\ pc' \in [Procs -> {pc[q] : q \in Procs} \cup {"read", "write"}] /\ pc'[p] = "write"
          /\ \A q \in Procs : q # p => pc'[q] = pc[q]
      BY <2>0, <3>2
    <3>. QED
      BY <2>2, <3>1, <3>3, <3>4 DEF Write, InUser, fileVars, pipeVars, procVars, Args
  <2>. QED
    BY <2>1, <2>2
<1>2. \A q \in Procs : OpenFds(q)' = OpenFds(q)
  BY <1>1 DEF OpenFds
<1>3. InHand(p) = {} /\ todo[p] = <<>>
  BY <1>1, HandIs DEF Inv, Creating
<1>4. \A q \in Procs : InHand(q)' = InHand(q)
  BY <1>1, <1>3, TodoSets DEF InHand, Creating
<1>5. TypeOK'
  <2>1. pc' \in [Procs -> {"user", "close", "pipeclose", "pipe1", "pipe2", "pipe3", "open1",
                           "read", "readAsleep", "write", "writing", "writeAsleep"}]
    BY <1>1 DEF Inv, TypeOK
  <2>. QED
    BY <1>1, <2>1 DEF Inv, TypeOK
<1>6. RefsCounted'
  BY <1>1, <1>4, RefsKept DEF Inv
<1>7. IrefCounted' /\ PipeFreedOnce' /\ EndsAgree'
  <2>1. \A f \in Files : file[f].type # "none" => file[f].ref > 0
    BY Typed
  <2>. QED
    BY <1>1, <2>1, TypesKept
<1>8. PipesAgree' /\ PipeSleepersHaveCause'
  <2>1. \A q \in Procs : pc'[q] # pc[q] =>
           pc[q] \notin Reading \cup Writing /\ pc'[q] \notin {"readAsleep", "writing", "writeAsleep"}
    BY <1>1 DEF Reading, Writing
  <2>2. \A q \in Procs : pc[q] \in Reading \cup Writing => arg'[q].f = arg[q].f
    BY <1>1 DEF Reading, Writing
  <2>. QED
    BY <1>1, <2>1, <2>2, PipesKept
<1>9. CallsAgree'
  <2>1. ASSUME NEW q \in Procs, q # p PROVE pc'[q] = pc[q] /\ arg'[q] = arg[q]
    BY <1>1, <2>1
  <2>2. \A q \in Procs : ff'[q] = ff[q] /\ todo'[q] = todo[q] /\ run'[q] = run[q] /\ ofile'[q] = ofile[q]
    BY <1>1
  <2>3. ff[p].type = "none" /\ arg[p].g = None
    BY <1>1 DEF Inv, CallsAgree, CallAgrees
  <2>. QED
    BY <1>1, <1>2, <1>3, <2>1, <2>2, <2>3, SMTT(30) DEF Inv, CallsAgree, CallAgrees, Creating, Reading, Writing
<1>10. NewFilesAgree'
  <2>1. \A q \in Procs : pc'[q] \in Creating => pc'[q] = pc[q]
    BY <1>1 DEF Creating
  <2>. QED
    BY <1>1, <1>4, <2>1 DEF Inv, NewFilesAgree
<1>. QED
  BY <1>1, <1>5, <1>6, <1>7, <1>8, <1>9, <1>10 DEF Inv

\* close, and one turn of the loop in exit: a descriptor becomes a file to close.
LEMMA CloseFdInv ==
  ASSUME Inv, nofile' = nofile, NEW p \in Procs, NEW d \in FDs,
         pc[p] = "user", run[p] # "unused", ofile[p][d] # None,
         ofile' = [ofile EXCEPT ![p][d] = None], CloseAll(p, <<ofile[p][d]>>),
         UNCHANGED <<file, iref, pipe, page, run, killed, ff, panicked>>
  PROVE  Inv'
<1>0. PICK f \in Files : f = ofile[p][d]
  BY DEF Inv, TypeOK
<1>1. /\ \A q \in Procs, e \in FDs : <<q, e>> # <<p, d>> => ofile'[q][e] = ofile[q][e]
      /\ ofile'[p][d] = None /\ \A q \in Procs : q # p => ofile'[q] = ofile[q]
      /\ ofile' \in [Procs -> [FDs -> Files \cup {None}]]
  BY DEF Inv, TypeOK
<1>2. /\ \A q \in Procs : q # p => pc'[q] = pc[q] /\ arg'[q] = arg[q] /\ todo'[q] = todo[q]
      /\ pc'[p] = "close" /\ arg'[p] = NoArg /\ todo'[p] = <<f>>
  BY <1>0 DEF Inv, TypeOK, CloseAll
<1>3. TypeOK'
  <2>1. NoArg \in [f : Files \cup {None}, g : Files \cup {None}, n : 0 .. MaxWrite]
    BY FilesAssumption DEF NoArg
  <2>2. <<f>> \in Seq(Files)
    BY <1>0
  <2>3. /\ todo' \in [Procs -> Seq(Files)]
        /\ arg' \in [Procs -> [f : Files \cup {None}, g : Files \cup {None}, n : 0 .. MaxWrite]]
    BY <1>0, <2>1, <2>2 DEF Inv, TypeOK, CloseAll
  <2>4. pc' \in [Procs -> {"user", "close", "pipeclose", "pipe1", "pipe2", "pipe3", "open1",
                           "read", "readAsleep", "write", "writing", "writeAsleep"}]
    BY DEF Inv, TypeOK, CloseAll
  <2>. QED
    BY <1>1, <2>3, <2>4 DEF Inv, TypeOK
<1>4. InHand(p) = {} /\ todo[p] = <<>>
  BY HandIs DEF Inv, Creating
<1>5. InHand(p)' = {f} /\ \A q \in Procs : q # p => InHand(q)' = InHand(q)
  BY <1>2, TodoSets DEF InHand, Creating
<1>6. RefsCounted'
  <2>1. Descriptors(f)' = Descriptors(f) \ {<<p, d>>} /\ <<p, d>> \in Descriptors(f)
    BY <1>0, <1>1, FilesAssumption DEF Descriptors
  <2>2. Calls(f)' = Calls(f) \cup {p} /\ p \notin Calls(f)
    BY <1>4, <1>5 DEF Calls
  <2>3. file'[f].ref = Cardinality(Descriptors(f)') + Cardinality(Calls(f)')
    <3>1. Cardinality(Descriptors(f)') = Cardinality(Descriptors(f)) - 1
      BY <2>1, Counts, FS_RemoveElement, ZenonT(60)
    <3>2. Cardinality(Calls(f)') = Cardinality(Calls(f)) + 1
      BY <2>2, Counts, FS_AddElement
    <3>3. file[f].ref = Cardinality(Descriptors(f)) + Cardinality(Calls(f))
      BY <1>0 DEF Inv, RefsCounted
    <3>4. Cardinality(Descriptors(f)) \in Nat /\ Cardinality(Calls(f)) \in Nat
      BY Counts
    <3>. QED
      BY <3>1, <3>2, <3>3, <3>4
  <2>4. ASSUME NEW g \in Files, g # f
        PROVE  file'[g].ref = Cardinality(Descriptors(g)') + Cardinality(Calls(g)')
    <3>1. Descriptors(g)' = Descriptors(g)
      BY <1>0, <1>1, <2>4, FilesAssumption DEF Descriptors
    <3>2. Calls(g)' = Calls(g)
      BY <1>4, <1>5, <2>4 DEF Calls
    <3>. QED
      BY <3>1, <3>2 DEF Inv, RefsCounted
  <2>. QED
    BY <2>3, <2>4 DEF RefsCounted
<1>7. IrefCounted' /\ PipeFreedOnce' /\ EndsAgree'
  <2>1. \A g \in Files : file[g].type # "none" => file[g].ref > 0
    BY Typed
  <2>. QED
    BY <2>1, TypesKept
<1>8. PipesAgree' /\ PipeSleepersHaveCause'
  <2>1. \A q \in Procs : pc'[q] # pc[q] =>
           pc[q] \notin Reading \cup Writing /\ pc'[q] \notin {"readAsleep", "writing", "writeAsleep"}
    BY <1>2 DEF Reading, Writing
  <2>2. \A q \in Procs : pc[q] \in Reading \cup Writing => arg'[q].f = arg[q].f
    BY <1>2 DEF Reading, Writing
  <2>. QED
    BY <2>1, <2>2, PipesKept
<1>9. CallsAgree'
  <2>1. ASSUME NEW q \in Procs, q # p PROVE CallAgrees(q)'
    BY <1>1, <1>2, <2>1, CallKept
  <2>2. CallAgrees(p)'
    <3>1. <<f>> # <<>> /\ \A i, j \in 1 .. Len(<<f>>) : i = j
      OBVIOUS
    <3>2. ff[p].type = "none" /\ run[p] # "unused"
      BY DEF Inv, CallsAgree, CallAgrees
    <3>. QED
      BY <1>2, <3>1, <3>2 DEF CallAgrees, Creating, Reading, Writing, NoArg
  <2>. QED
    BY <2>1, <2>2 DEF CallsAgree
<1>10. NewFilesAgree'
  <2>1. \A q \in Procs : pc'[q] \in Creating => q # p /\ pc'[q] = pc[q]
    BY <1>2 DEF Creating
  <2>. QED
    BY <1>5, <2>1 DEF Inv, NewFilesAgree
<1>. QED
  BY <1>3, <1>6, <1>7, <1>8, <1>9, <1>10 DEF Inv

\* sys_close.
LEMMA CloseInv ==
  ASSUME Inv, nofile' = nofile, NEW p \in Procs, NEW d \in FDs, Close(p, d) PROVE Inv'
  BY CloseFdInv DEF Close, InUser, fileVars, pipeVars

\* kexit's loop over the descriptors.
LEMMA ExitFileInv ==
  ASSUME Inv, nofile' = nofile, NEW p \in Procs, ExitFile(p) PROVE Inv'
<1>1. OpenFds(p) \in SUBSET Nat /\ OpenFds(p) # {}
  BY FdsAre DEF OpenFds, ExitFile
<1>2. Lowest(OpenFds(p)) \in OpenFds(p)
  BY <1>1, LowestIs
<1>3. Lowest(OpenFds(p)) \in FDs /\ ofile[p][Lowest(OpenFds(p))] # None
  BY <1>2 DEF OpenFds
<1>. QED
  BY <1>3, CloseFdInv DEF ExitFile, fileVars, pipeVars

\* dup: another descriptor and another reference.
LEMMA DupInv ==
  ASSUME Inv, nofile' = nofile, NEW p \in Procs, NEW d \in FDs, Dup(p, d) PROVE Inv'
<1>f. PICK f \in Files : f = ofile[p][d]
  BY DEF Inv, TypeOK, Dup
<1>e. PICK e \in FDs : e = Lowest(FreeFds(p)) /\ ofile[p][e] = None
  BY FreeFdIs DEF Inv, Dup
<1>0. pc[p] = "user" /\ file[f].ref \in Nat /\ file[f] \in FileRecords
  BY DEF Inv, TypeOK, FileRecords, Dup, InUser
<1>1. ofile' = [ofile EXCEPT ![p][e] = f]
  BY <1>f, <1>e DEF Dup
<1>2. UNCHANGED <<iref, pipe, page, run, killed, pc, todo, ff, arg, panicked>>
  BY DEF Dup, pipeVars, callVars
<1>3. /\ file' \in [Files -> FileRecords]
      /\ \A g \in Files : /\ file'[g].type = file[g].type /\ file'[g].pipe = file[g].pipe
                          /\ file'[g].writable <=> file[g].writable
                          /\ g # f => file'[g].ref = file[g].ref
      /\ file'[f].ref = file[f].ref + 1
  <2>. DEFINE r == [file[f] EXCEPT !.ref = @ + 1]
  <2>1. file' = [file EXCEPT ![f] = r]
    BY <1>f DEF Dup
  <2>2. r \in FileRecords /\ r.ref = file[f].ref + 1
    BY <1>0 DEF FileRecords
  <2>3. r.type = file[f].type /\ r.pipe = file[f].pipe /\ r.writable = file[f].writable
    BY <1>0 DEF FileRecords
  <2>. HIDE DEF r
  <2>. QED
    BY <1>0, <2>1, <2>2, <2>3 DEF Inv, TypeOK
<1>4. /\ \A q \in Procs, c \in FDs : <<q, c>> # <<p, e>> => ofile'[q][c] = ofile[q][c]
      /\ ofile'[p][e] = f /\ \A q \in Procs : q # p => ofile'[q] = ofile[q]
      /\ ofile' \in [Procs -> [FDs -> Files \cup {None}]]
  BY <1>f, <1>e, <1>1 DEF Inv, TypeOK
<1>5. TypeOK'
  BY <1>2, <1>3, <1>4 DEF Inv, TypeOK
<1>6. \A q \in Procs : InHand(q)' = InHand(q)
  BY <1>2 DEF InHand
<1>7. file[f].ref >= 1 /\ \A q \in Procs : f \in InHand(q) => file[f].ref >= 2
  BY <1>f, RefFacts
<1>8. RefsCounted'
  <2>1. \A g \in Files : Calls(g)' = Calls(g)
    BY <1>6 DEF Calls
  <2>2. Descriptors(f)' = Descriptors(f) \cup {<<p, e>>} /\ <<p, e>> \notin Descriptors(f)
    BY <1>e, <1>4, FilesAssumption DEF Descriptors
  <2>3. \A g \in Files \ {f} : Descriptors(g)' = Descriptors(g)
    BY <1>e, <1>4, FilesAssumption DEF Descriptors
  <2>4. Cardinality(Descriptors(f)') = Cardinality(Descriptors(f)) + 1
    BY <2>2, Counts, FS_AddElement
  <2>5. file'[f].ref = Cardinality(Descriptors(f)') + Cardinality(Calls(f)')
    <3>1. Cardinality(Descriptors(f)) \in Nat /\ Cardinality(Calls(f)) \in Nat
      BY Counts
    <3>. QED
      BY <1>0, <1>3, <2>1, <2>4, <3>1 DEF Inv, RefsCounted
  <2>. QED
    BY <1>3, <2>1, <2>3, <2>5 DEF Inv, RefsCounted
<1>9. IrefCounted' /\ PipeFreedOnce' /\ EndsAgree'
  <2>1. \A g \in Files : file[g].type # "none" => file'[g].ref > 0
    BY <1>0, <1>3, Typed
  <2>. QED
    BY <1>2, <1>3, <2>1, TypesKept
<1>10. PipesAgree' /\ PipeSleepersHaveCause'
  BY <1>2, <1>3, PipesKept
<1>11. CallsAgree'
  <2>1. \A q \in Procs : q # p => OpenFds(q)' = OpenFds(q)
    BY <1>4 DEF OpenFds
  <2>2. run[p] = "alive" /\ pc[p] = "user"
    BY DEF Dup, InUser
  <2>3. \A q \in Procs : pc[q] \in Reading \cup Writing => q # p /\ arg[q].f \in Files
    BY <2>2 DEF Inv, CallsAgree, CallAgrees, TypeOK, Reading, Writing
  <2>. QED
    BY <1>2, <1>3, <1>4, <2>1, <2>2, <2>3 DEF Inv, CallsAgree, CallAgrees
<1>12. NewFilesAgree'
  <2>1. \A g \in Files : file'[g].ref = 0 => file'[g].type = "none"
    BY <1>0, <1>3 DEF Inv, NewFilesAgree
  <2>2. ASSUME NEW q \in Procs, pc'[q] \in Creating, NEW g \in InHand(q)'
        PROVE  file'[g].ref = 1 /\ (pc'[q] # "pipe3" => file'[g].type = "none")
    <3>1. g \in InHand(q) /\ g \in Files /\ pc[q] \in Creating
      BY <1>2, <1>6, <2>2, HandIs DEF Inv
    <3>2. file[g].ref = 1
      BY <3>1 DEF Inv, NewFilesAgree
    <3>3. g # f
      BY <1>7, <3>1, <3>2
    <3>. QED
      BY <1>2, <1>3, <3>1, <3>2, <3>3 DEF Inv, NewFilesAgree
  <2>. QED
    BY <2>1, <2>2 DEF NewFilesAgree
<1>. QED
  BY <1>2, <1>5, <1>8, <1>9, <1>10, <1>11, <1>12 DEF Inv

\* fork: the child gets p's descriptors, and every file as many references more.
LEMMA ForkInv ==
  ASSUME Inv, nofile' = nofile, NEW p \in Procs, NEW q \in Procs, Fork(p, q) PROVE Inv'
<1>1. /\ run[p] = "alive" /\ pc[p] = "user" /\ run[q] = "unused" /\ q # p
      /\ UNCHANGED <<iref, pipe, page, killed, pc, todo, ff, arg, panicked>>
      /\ run' = [run EXCEPT ![q] = "alive"] /\ ofile' = [ofile EXCEPT ![q] = ofile[p]]
      /\ file' = ForkFiles(p)
  BY DEF Fork, InUser, pipeVars, callVars
<1>2. /\ OpenFds(q) = {} /\ pc[q] = "user"
      /\ \A d \in FDs : ofile[q][d] = None
  BY <1>1 DEF Inv, CallsAgree, CallAgrees, OpenFds
<1>3. /\ \A d \in FDs : ofile'[q][d] = ofile[p][d] /\ \A r \in Procs : r # q => ofile'[r] = ofile[r]
      /\ ofile' \in [Procs -> [FDs -> Files \cup {None}]]
  BY <1>1 DEF Inv, TypeOK
<1>. DEFINE F(f) == {d \in FDs : ofile[p][d] = f}
<1>4. \A f \in Files : IsFiniteSet(F(f)) /\ Cardinality(F(f)) \in Nat /\ FdsOf(p, f) = Cardinality(F(f))
  BY FdsAre, FS_Subset, FS_CardinalityType DEF FdsOf
<1>0. \A f \in Files : FdsOf(p, f) \in Nat
  BY <1>4
<1>5. ASSUME NEW f \in Files
      PROVE  /\ file'[f] \in FileRecords /\ file'[f].ref = file[f].ref + FdsOf(p, f)
             /\ file'[f].type = file[f].type /\ file'[f].pipe = file[f].pipe
             /\ file'[f].writable <=> file[f].writable
  <2>1. file'[f] = [file[f] EXCEPT !.ref = @ + FdsOf(p, f)]
    BY <1>1 DEF ForkFiles
  <2>2. file[f] \in FileRecords /\ FdsOf(p, f) \in Nat
    BY <1>4 DEF Inv, TypeOK
  <2>. QED
    BY <2>1, <2>2 DEF FileRecords
<1>6. TypeOK'
  <2>1. file' \in [Files -> FileRecords]
    BY <1>1, <1>5 DEF ForkFiles
  <2>2. run' \in [Procs -> {"unused", "alive", "exiting"}]
    BY <1>1 DEF Inv, TypeOK
  <2>. QED
    BY <1>1, <1>3, <2>1, <2>2 DEF Inv, TypeOK
<1>7. \A r \in Procs : InHand(r)' = InHand(r)
  BY <1>1 DEF InHand
<1>8. RefsCounted'
  <2>. SUFFICES ASSUME NEW f \in Files
                PROVE  file'[f].ref = Cardinality(Descriptors(f)') + Cardinality(Calls(f)')
    BY DEF RefsCounted
  <2>1. Calls(f)' = Calls(f)
    BY <1>7 DEF Calls
  <2>2. Descriptors(f)' = Descriptors(f) \cup ({q} \X F(f)) /\ Descriptors(f) \cap ({q} \X F(f)) = {}
    BY <1>2, <1>3, FilesAssumption DEF Descriptors
  <2>. HIDE DEF F
  <2>3. IsFiniteSet({q} \X F(f)) /\ Cardinality({q} \X F(f)) = Cardinality(F(f))
    <3>1. IsFiniteSet({q}) /\ Cardinality({q}) = 1
      BY FS_Singleton
    <3>2. IsFiniteSet({q} \X F(f)) /\ Cardinality({q} \X F(f)) = Cardinality({q}) * Cardinality(F(f))
      BY <1>4, <3>1, FS_Product
    <3>. QED
      BY <1>4, <3>1, <3>2
  <2>4. Cardinality(Descriptors(f)') = Cardinality(Descriptors(f)) + Cardinality(F(f))
    <3>1. Cardinality(Descriptors(f) \cup ({q} \X F(f)))
            = Cardinality(Descriptors(f)) + Cardinality({q} \X F(f)) - Cardinality({})
      BY <2>2, <2>3, Counts, FS_Union
    <3>2. Cardinality({}) = 0 /\ Cardinality(Descriptors(f)) \in Nat /\ Cardinality(F(f)) \in Nat
      BY <1>4, Counts, FS_EmptySet
    <3>. QED
      BY <2>2, <2>3, <3>1, <3>2
  <2>5. /\ file[f].ref = Cardinality(Descriptors(f)) + Cardinality(Calls(f))
        /\ Cardinality(Descriptors(f)) \in Nat /\ Cardinality(Calls(f)) \in Nat
    BY Counts DEF Inv, RefsCounted
  <2>. QED
    BY <1>4, <1>5, <2>1, <2>4, <2>5
<1>9. IrefCounted' /\ PipeFreedOnce' /\ EndsAgree'
  <2>1. \A g \in Files : file[g].type # "none" => file'[g].ref > 0
    BY <1>0, <1>5, Typed
  <2>. QED
    BY <1>1, <1>5, <2>1, TypesKept
<1>10. PipesAgree' /\ PipeSleepersHaveCause'
  BY <1>1, <1>5, PipesKept
<1>11. CallsAgree'
  <2>1. ASSUME NEW r \in Procs, r # q PROVE CallAgrees(r)'
    BY <1>1, <1>3, <1>5, <2>1, CallKept DEF Inv, TypeOK
  <2>2. CallAgrees(q)'
    <3>1. CallAgrees(q) /\ run'[q] = "alive"
      BY <1>1 DEF Inv, CallsAgree, TypeOK
    <3>. QED
      BY <1>1, <1>2, <3>1 DEF CallAgrees, Reading, Writing, Creating
  <2>. QED
    BY <2>1, <2>2 DEF CallsAgree
<1>12. NewFilesAgree'
  <2>1. \A g \in Files : file'[g].ref = 0 => file'[g].type = "none"
    <3>1. \A g \in Files : file[g].type # "none" => file'[g].ref > 0
      BY <1>0, <1>5, Typed
    <3>. QED
      BY <1>5, <3>1
  <2>2. ASSUME NEW r \in Procs, pc'[r] \in Creating, NEW g \in InHand(r)'
        PROVE  file'[g].ref = 1 /\ (pc'[r] # "pipe3" => file'[g].type = "none")
    <3>1. g \in InHand(r) /\ g \in Files /\ pc[r] \in Creating
      BY <1>1, <1>7, <2>2, HandIs DEF Inv
    <3>2. file[g].ref = 1
      BY <3>1 DEF Inv, NewFilesAgree
    <3>3. F(g) = {}
      BY <3>1, <3>2, RefFacts
    <3>4. FdsOf(p, g) = 0
      BY <1>4, <3>1, <3>3, FS_EmptySet
    <3>. QED
      BY <1>1, <1>5, <3>1, <3>2, <3>4 DEF Inv, NewFilesAgree
  <2>. QED
    BY <2>1, <2>2 DEF NewFilesAgree
<1>. QED
  BY <1>1, <1>6, <1>8, <1>9, <1>10, <1>11, <1>12 DEF Inv

\* filealloc: a call has one file more in hand, the first reference to it.
LEMMA FileAllocInv ==
  ASSUME Inv, nofile' = nofile, NEW p \in Procs, NEW f \in Files, file[f].ref = 0, FileAlloc(f),
         UNCHANGED <<iref, pipe, page, ofile, run, killed, todo, ff, panicked>>,
         arg' \in [Procs -> [f : Files \cup {None}, g : Files \cup {None}, n : 0 .. MaxWrite]],
         pc' \in [Procs -> {"user", "close", "pipeclose", "pipe1", "pipe2", "pipe3", "open1",
                            "read", "readAsleep", "write", "writing", "writeAsleep"}],
         \A q \in Procs : q # p => pc'[q] = pc[q] /\ arg'[q] = arg[q],
         pc[p] \in {"user", "pipe1"}, pc'[p] \in {"pipe1", "pipe2", "open1"},
         InHand(p)' = InHand(p) \cup {f}, CallAgrees(p)'
  PROVE  Inv'
<1>1. /\ file' \in [Files -> FileRecords]
      /\ \A g \in Files : /\ file'[g].type = file[g].type /\ file'[g].pipe = file[g].pipe
                          /\ file'[g].writable <=> file[g].writable
                          /\ g # f => file'[g].ref = file[g].ref
      /\ file'[f].ref = 1
  <2>. DEFINE r == [file[f] EXCEPT !.ref = 1]
  <2>1. file' = [file EXCEPT ![f] = r]
    BY DEF FileAlloc
  <2>2. r \in FileRecords /\ r.ref = 1
    BY Typed DEF FileRecords
  <2>3. r.type = file[f].type /\ r.pipe = file[f].pipe /\ r.writable = file[f].writable
    BY Typed DEF FileRecords
  <2>. HIDE DEF r
  <2>. QED
    BY <2>1, <2>2, <2>3 DEF Inv, TypeOK
<1>2. file[f].type = "none"
  BY DEF Inv, NewFilesAgree
<1>3. TypeOK'
  BY <1>1 DEF Inv, TypeOK
<1>4. \A q \in Procs : f \notin InHand(q)
  BY RefFacts
<1>5. \A q \in Procs : q # p => InHand(q)' = InHand(q)
  BY DEF InHand
<1>6. RefsCounted'
  <2>1. \A g \in Files : Descriptors(g)' = Descriptors(g)
    BY DEF Descriptors
  <2>2. Calls(f)' = Calls(f) \cup {p} /\ p \notin Calls(f)
    BY <1>4, <1>5 DEF Calls
  <2>3. \A g \in Files \ {f} : Calls(g)' = Calls(g)
    BY <1>4, <1>5 DEF Calls
  <2>4. Cardinality(Calls(f)') = Cardinality(Calls(f)) + 1
    <3>1. IsFiniteSet(Calls(f))
      BY Counts
    <3>. QED
      BY <2>2, <3>1, CardStep
  <2>5. file'[f].ref = Cardinality(Descriptors(f)') + Cardinality(Calls(f)')
    <3>1. Cardinality(Descriptors(f)) \in Nat /\ Cardinality(Calls(f)) \in Nat
      BY Counts
    <3>. QED
      BY <1>1, <2>1, <2>4, <3>1 DEF Inv, RefsCounted
  <2>. QED
    BY <1>1, <2>1, <2>3, <2>5 DEF Inv, RefsCounted
<1>7. IrefCounted' /\ PipeFreedOnce' /\ EndsAgree'
  <2>1. \A g \in Files : file[g].type # "none" => file'[g].ref > 0
    BY <1>1, <1>2, Typed
  <2>. QED
    BY <1>1, <2>1, TypesKept
<1>8. PipesAgree' /\ PipeSleepersHaveCause'
  <2>1. \A q \in Procs : pc'[q] # pc[q] =>
           pc[q] \notin Reading \cup Writing /\ pc'[q] \notin {"readAsleep", "writing", "writeAsleep"}
    BY DEF Reading, Writing
  <2>2. \A q \in Procs : pc[q] \in Reading \cup Writing => arg'[q].f = arg[q].f
    BY DEF Reading, Writing
  <2>. QED
    BY <1>1, <2>1, <2>2, PipesKept
<1>9. CallsAgree'
  <2>1. ASSUME NEW q \in Procs, q # p PROVE CallAgrees(q)'
    BY <1>1, <2>1, CallKept
  <2>. QED
    BY <2>1 DEF CallsAgree
<1>10. NewFilesAgree'
  <2>1. \A g \in Files : file'[g].ref = 0 => file'[g].type = "none"
    BY <1>1 DEF Inv, NewFilesAgree
  <2>2. ASSUME NEW q \in Procs, pc'[q] \in Creating, NEW g \in InHand(q)', g # f
        PROVE  file'[g].ref = 1 /\ (pc'[q] # "pipe3" => file'[g].type = "none")
    <3>1. g \in InHand(q) /\ g \in Files
      BY <1>5, <2>2, HandIs DEF Inv
    <3>2. pc[q] \in Creating /\ (pc'[q] # "pipe3" => pc[q] # "pipe3")
      <4>1. CASE q = p
        <5>1. pc[p] # "user"
          BY <3>1, <4>1, HandIs DEF Inv, Creating
        <5>. QED
          BY <4>1, <5>1 DEF Creating
      <4>. QED
        BY <2>2, <4>1
    <3>. QED
      BY <1>1, <2>2, <3>1, <3>2 DEF Inv, NewFilesAgree
  <2>3. \A q \in Procs : f \in InHand(q)' => q = p
    BY <1>4, <1>5
  <2>. QED
    BY <1>1, <1>2, <2>1, <2>2, <2>3 DEF NewFilesAgree
<1>. QED
  BY <1>3, <1>6, <1>7, <1>8, <1>9, <1>10 DEF Inv

\* pipe and open begin with filealloc.
LEMMA FirstFileInv ==
  ASSUME Inv, nofile' = nofile, NEW p \in Procs, PipeStart(p) \/ OpenStart(p) PROVE Inv'
<1>1. PICK f \in Files : f = Lowest(FreeFiles) /\ file[f].ref = 0
  BY FreeFileIs DEF PipeStart, OpenStart
<1>2. PICK l \in {"pipe1", "open1"} :
        /\ pc[p] = "user" /\ run[p] = "alive" /\ FileAlloc(f)
        /\ arg' = [arg EXCEPT ![p].f = f] /\ pc' = [pc EXCEPT ![p] = l]
        /\ UNCHANGED <<iref, pipe, page, ofile, run, killed, todo, ff, panicked>>
  BY <1>1 DEF PipeStart, OpenStart, InUser, pipeVars, procVars
<1>. DEFINE Args == [f : Files \cup {None}, g : Files \cup {None}, n : 0 .. MaxWrite]
            r == [arg[p] EXCEPT !.f = f]
<1>3. r \in Args /\ r.f = f /\ r.g = arg[p].g
  BY DEF Inv, TypeOK
<1>4. /\ arg' = [arg EXCEPT ![p] = r] /\ arg \in [Procs -> Args]
      /\ ff[p].type = "none" /\ arg[p].g = None
  BY <1>2 DEF Inv, TypeOK, CallsAgree, CallAgrees
<1>. HIDE DEF Args, r
<1>5. arg' \in [Procs -> Args] /\ arg'[p] = r /\ \A q \in Procs : q # p => arg'[q] = arg[q]
  BY <1>3, <1>4
<1>6. /\ pc' \in [Procs -> {"user", "close", "pipeclose", "pipe1", "pipe2", "pipe3", "open1",
                            "read", "readAsleep", "write", "writing", "writeAsleep"}]
      /\ pc'[p] = l /\ \A q \in Procs : q # p => pc'[q] = pc[q]
  BY <1>2 DEF Inv, TypeOK
<1>7. InHand(p) = {} /\ todo[p] = <<>>
  BY <1>2, HandIs DEF Inv, Creating
<1>8. InHand(p)' = {f}
  BY <1>2, <1>3, <1>4, <1>5, <1>6, <1>7, TodoSets, FilesAssumption DEF InHand, Creating
<1>9. CallAgrees(p)'
  <2>1. CallAgrees(p) /\ todo'[p] = todo[p] /\ ff'[p] = ff[p] /\ run'[p] = "alive"
    BY <1>2 DEF Inv, CallsAgree
  <2>2. arg'[p].f = f /\ arg'[p].g = None /\ pc'[p] \in {"pipe1", "open1"} /\ f # None
    BY <1>2, <1>3, <1>4, <1>5, <1>6, FilesAssumption
  <2>. QED
    BY <1>4, <1>7, <2>1, <2>2 DEF CallAgrees, Creating, Reading, Writing
<1>. QED
  BY <1>1, <1>2, <1>5, <1>6, <1>7, <1>8, <1>9, FileAllocInv DEF Args

\* The second filealloc of pipe.
LEMMA SecondFileInv ==
  ASSUME Inv, nofile' = nofile, NEW p \in Procs, PipeSecond(p), FreeFiles # {} PROVE Inv'
<1>1. PICK f \in Files : f = Lowest(FreeFiles) /\ file[f].ref = 0
  BY FreeFileIs
<1>2. /\ pc[p] = "pipe1" /\ FileAlloc(f)
      /\ arg' = [arg EXCEPT ![p].g = f] /\ pc' = [pc EXCEPT ![p] = "pipe2"]
      /\ UNCHANGED <<iref, pipe, page, ofile, run, killed, todo, ff, panicked>>
  BY <1>1 DEF PipeSecond, pipeVars, procVars
<1>. DEFINE Args == [f : Files \cup {None}, g : Files \cup {None}, n : 0 .. MaxWrite]
            r == [arg[p] EXCEPT !.g = f]
<1>3. r \in Args /\ r.g = f /\ r.f = arg[p].f
  BY DEF Inv, TypeOK
<1>4. /\ arg' = [arg EXCEPT ![p] = r] /\ arg \in [Procs -> Args]
      /\ ff[p].type = "none" /\ arg[p].f # None /\ run[p] # "unused"
  BY <1>2 DEF Inv, TypeOK, CallsAgree, CallAgrees, Creating
<1>. HIDE DEF Args, r
<1>5. arg' \in [Procs -> Args] /\ arg'[p] = r /\ \A q \in Procs : q # p => arg'[q] = arg[q]
  BY <1>3, <1>4
<1>6. /\ pc' \in [Procs -> {"user", "close", "pipeclose", "pipe1", "pipe2", "pipe3", "open1",
                            "read", "readAsleep", "write", "writing", "writeAsleep"}]
      /\ pc'[p] = "pipe2" /\ \A q \in Procs : q # p => pc'[q] = pc[q]
  BY <1>2 DEF Inv, TypeOK
<1>7. InHand(p) = {arg[p].f} /\ todo[p] = <<>> /\ arg[p].f \in Files
  BY <1>2, HandIs DEF Inv, Creating
<1>8. InHand(p)' = {arg[p].f, f}
  BY <1>2, <1>3, <1>5, <1>6, <1>7, TodoSets, FilesAssumption DEF InHand, Creating
<1>9. arg[p].f # f
  BY <1>1, <1>7, RefFacts
<1>10. CallAgrees(p)'
  <2>1. CallAgrees(p) /\ todo'[p] = todo[p] /\ ff'[p] = ff[p] /\ run'[p] # "unused"
    BY <1>2, <1>4 DEF Inv, CallsAgree
  <2>2. arg'[p].f = arg[p].f /\ arg'[p].g = f /\ f # None
    BY <1>3, <1>5, FilesAssumption
  <2>. QED
    BY <1>4, <1>6, <1>7, <1>9, <2>1, <2>2 DEF CallAgrees, Creating, Reading, Writing
<1>11. InHand(p)' = InHand(p) \cup {f}
  BY <1>7, <1>8
<1>. QED
  BY <1>1, <1>2, <1>5, <1>6, <1>10, <1>11, FileAllocInv DEF Args

\* pipe and open give up: what they were creating is to be closed.
LEMMA GiveUpInv ==
  ASSUME Inv, nofile' = nofile, NEW p \in Procs, NEW s \in Seq(Files), pc[p] \in Creating,
         s # <<>>, \A i, j \in 1 .. Len(s) : s[i] = s[j] => i = j, ToSet(s) = InHand(p),
         CloseAll(p, s), UNCHANGED <<file, iref, pipe, page, ofile, run, killed, ff, panicked>>
  PROVE  Inv'
<1>1. /\ \A q \in Procs : q # p => pc'[q] = pc[q] /\ arg'[q] = arg[q] /\ todo'[q] = todo[q]
      /\ pc'[p] = "close" /\ arg'[p] = NoArg /\ todo'[p] = s
  BY DEF Inv, TypeOK, CloseAll
<1>2. TypeOK'
  <2>1. NoArg \in [f : Files \cup {None}, g : Files \cup {None}, n : 0 .. MaxWrite]
    BY FilesAssumption DEF NoArg
  <2>2. /\ todo' \in [Procs -> Seq(Files)]
        /\ arg' \in [Procs -> [f : Files \cup {None}, g : Files \cup {None}, n : 0 .. MaxWrite]]
    BY <2>1 DEF Inv, TypeOK, CloseAll
  <2>3. pc' \in [Procs -> {"user", "close", "pipeclose", "pipe1", "pipe2", "pipe3", "open1",
                           "read", "readAsleep", "write", "writing", "writeAsleep"}]
    BY DEF Inv, TypeOK, CloseAll
  <2>. QED
    BY <2>2, <2>3 DEF Inv, TypeOK
<1>3. \A q \in Procs : InHand(q)' = InHand(q)
  BY <1>1 DEF InHand, Creating
<1>4. RefsCounted'
  BY <1>3, RefsKept DEF Inv
<1>5. IrefCounted' /\ PipeFreedOnce' /\ EndsAgree'
  <2>1. \A g \in Files : file[g].type # "none" => file[g].ref > 0
    BY Typed
  <2>. QED
    BY <2>1, TypesKept
<1>6. PipesAgree' /\ PipeSleepersHaveCause'
  <2>1. \A q \in Procs : pc'[q] # pc[q] =>
           pc[q] \notin Reading \cup Writing /\ pc'[q] \notin {"readAsleep", "writing", "writeAsleep"}
    BY <1>1 DEF Reading, Writing, Creating
  <2>2. \A q \in Procs : pc[q] \in Reading \cup Writing => arg'[q].f = arg[q].f
    BY <1>1 DEF Reading, Writing, Creating
  <2>. QED
    BY <2>1, <2>2, PipesKept
<1>7. CallsAgree'
  <2>1. ASSUME NEW q \in Procs, q # p PROVE CallAgrees(q)'
    BY <1>1, <2>1, CallKept
  <2>2. CallAgrees(p)'
    <3>1. ff'[p].type = "none" /\ run'[p] # "unused"
      BY DEF Inv, CallsAgree, CallAgrees, Creating
    <3>. QED
      BY <1>1, <3>1 DEF CallAgrees, Creating, Reading, Writing, NoArg
  <2>. QED
    BY <2>1, <2>2 DEF CallsAgree
<1>8. NewFilesAgree'
  <2>1. \A q \in Procs : pc'[q] \in Creating => q # p /\ pc'[q] = pc[q]
    BY <1>1 DEF Creating
  <2>. QED
    BY <1>3, <2>1 DEF Inv, NewFilesAgree
<1>. QED
  BY <1>2, <1>4, <1>5, <1>6, <1>7, <1>8 DEF Inv

\* The error paths of pipealloc, sys_pipe and sys_open.
LEMMA GiveUpFilesInv ==
  ASSUME Inv, nofile' = nofile, NEW p \in Procs,
         \/ pc[p] \in {"pipe1", "open1"} /\ CloseAll(p, <<arg[p].f>>)
         \/ pc[p] \in {"pipe2", "pipe3"} /\ CloseAll(p, <<arg[p].f, arg[p].g>>),
         UNCHANGED <<file, iref, pipe, page, ofile, run, killed, ff, panicked>>
  PROVE  Inv'
<1>1. CASE pc[p] \in {"pipe1", "open1"} /\ CloseAll(p, <<arg[p].f>>)
  <2>1. pc[p] \in Creating /\ InHand(p) = {arg[p].f} /\ arg[p].f \in Files
    BY <1>1, HandIs DEF Inv, Creating
  <2>2. PICK s \in Seq(Files) : s = <<arg[p].f>> /\ s # <<>> /\ Len(s) = 1
    <3>1. PICK f \in Files : f = arg[p].f
      BY <2>1
    <3>2. <<f>> \in Seq(Files) /\ <<f>> # <<>> /\ Len(<<f>>) = 1
      OBVIOUS
    <3>. QED
      BY <3>1, <3>2
  <2>3. ToSet(s) = InHand(p) /\ CloseAll(p, s)
    BY <1>1, <2>1, <2>2, TodoSets
  <2>4. \A i, j \in 1 .. Len(s) : s[i] = s[j] => i = j
    BY <2>2
  <2>. QED
    BY <2>1, <2>2, <2>3, <2>4, GiveUpInv
<1>2. CASE pc[p] \in {"pipe2", "pipe3"} /\ CloseAll(p, <<arg[p].f, arg[p].g>>)
  <2>1. /\ pc[p] \in Creating /\ InHand(p) = {arg[p].f, arg[p].g}
        /\ arg[p].f \in Files /\ arg[p].g \in Files /\ arg[p].f # arg[p].g
    BY <1>2, HandIs DEF Inv, Creating, CallsAgree, CallAgrees
  <2>2. PICK s \in Seq(Files) : /\ s = <<arg[p].f, arg[p].g>> /\ s # <<>> /\ Len(s) = 2
                               /\ s[1] = arg[p].f /\ s[2] = arg[p].g
    <3>1. PICK f \in Files, g \in Files : f = arg[p].f /\ g = arg[p].g
      BY <2>1
    <3>2. <<f, g>> \in Seq(Files) /\ <<f, g>> # <<>> /\ Len(<<f, g>>) = 2 /\ <<f, g>>[1] = f /\ <<f, g>>[2] = g
      OBVIOUS
    <3>. QED
      BY <3>1, <3>2
  <2>3. CloseAll(p, s)
    BY <1>2, <2>1, <2>2
  <2>4. \A i, j \in 1 .. Len(s) : s[i] = s[j] => i = j
    <3>1. 1 .. Len(s) = {1, 2}
      BY <2>2
    <3>. QED
      BY <2>1, <2>2, <3>1
  <2>5. ToSet(s) = InHand(p)
    BY <2>1, <2>2, TodoSets
  <2>. QED
    BY <2>1, <2>2, <2>3, <2>4, <2>5, GiveUpInv
<1>. QED
  BY <1>1, <1>2

\* PipeSecond with and without a free file.
LEMMA PipeSecondInv ==
  ASSUME Inv, nofile' = nofile, NEW p \in Procs, PipeSecond(p) PROVE Inv'
<1>1. CASE FreeFiles # {}
  BY <1>1, SecondFileInv
<1>2. CASE FreeFiles = {}
  BY <1>2, GiveUpFilesInv DEF PipeSecond, pipeVars, procVars
<1>. QED
  BY <1>1, <1>2

\* The page of a pipe is allocated as long as a file or a fileclose has an end of it.
LEMMA EndsInPage ==
  ASSUME Inv
  PROVE  /\ \A f \in Files : file[f].type = "pipe" =>
              /\ file[f].pipe \in page /\ file[f].pipe \in Pages
              /\ file[f].writable => pipe[file[f].pipe].writeopen
              /\ ~file[f].writable => pipe[file[f].pipe].readopen
         /\ \A p \in Procs : ff[p].type = "pipe" =>
              /\ ff[p].pipe \in page /\ ff[p].pipe \in Pages
              /\ ff[p].writable => pipe[ff[p].pipe].writeopen
              /\ ~ff[p].writable => pipe[ff[p].pipe].readopen
<1>1. ASSUME NEW f \in Files, file[f].type = "pipe"
      PROVE  /\ file[f].pipe \in page /\ file[f].pipe \in Pages
             /\ file[f].writable => pipe[file[f].pipe].writeopen
             /\ ~file[f].writable => pipe[file[f].pipe].readopen
  <2>1. file[f].ref > 0 /\ file[f].pipe \in Pages
    BY <1>1, Typed DEF Inv, EndsAgree
  <2>2. (file[f].writable => HasEnd(file[f].pipe, TRUE)) /\ (~file[f].writable => HasEnd(file[f].pipe, FALSE))
    BY <1>1, <2>1 DEF HasEnd
  <2>. QED
    BY <2>1, <2>2 DEF Inv, PipeFreedOnce
<1>2. ASSUME NEW p \in Procs, ff[p].type = "pipe"
      PROVE  /\ ff[p].pipe \in page /\ ff[p].pipe \in Pages
             /\ ff[p].writable => pipe[ff[p].pipe].writeopen
             /\ ~ff[p].writable => pipe[ff[p].pipe].readopen
  <2>1. ff[p].pipe \in Pages
    BY <1>2 DEF Inv, EndsAgree
  <2>2. (ff[p].writable => HasEnd(ff[p].pipe, TRUE)) /\ (~ff[p].writable => HasEnd(ff[p].pipe, FALSE))
    BY <1>2 DEF HasEnd
  <2>. QED
    BY <2>1, <2>2 DEF Inv, PipeFreedOnce
<1>. QED
  BY <1>1, <1>2

\* A call on a pipe has an open end of it, so the page cannot go.
LEMMA PipeCallIs ==
  ASSUME Inv, NEW q \in Procs, pc[q] \in Reading \cup Writing
  PROVE  /\ arg[q].f \in Files /\ file[arg[q].f].type = "pipe" /\ PipeOf(q) = file[arg[q].f].pipe
         /\ \E d \in FDs : ofile[q][d] = arg[q].f
         /\ file[arg[q].f].writable <=> pc[q] \in Writing
         /\ PipeOf(q) \in page /\ PipeOf(q) \in Pages
         /\ pc[q] \in Writing => pipe[PipeOf(q)].writeopen
         /\ pc[q] \in Reading => pipe[PipeOf(q)].readopen
<1>1. /\ arg[q].f \in Files /\ file[arg[q].f].type = "pipe" /\ PipeOf(q) = file[arg[q].f].pipe
      /\ \E d \in FDs : ofile[q][d] = arg[q].f
      /\ file[arg[q].f].writable <=> pc[q] \in Writing
  BY DEF Inv, TypeOK, CallsAgree, CallAgrees, PipeOf
<1>2. pc[q] \in Reading => pc[q] \notin Writing
  BY DEF Reading, Writing
<1>. QED
  BY <1>1, <1>2, EndsInPage

\* pipealloc: both ends of a new pipe in a page nobody has.
LEMMA PipeMadeInv ==
  ASSUME Inv, nofile' = nofile, NEW p \in Procs, NEW a \in Pages, a \notin page, pc[p] = "pipe2",
         page' = page \cup {a}, pipe' = [pipe EXCEPT ![a] = NewPipe],
         file' = [file EXCEPT
           ![arg[p].f] = [ref |-> 1, type |-> "pipe", writable |-> FALSE, pipe |-> a],
           ![arg[p].g] = [ref |-> 1, type |-> "pipe", writable |-> TRUE, pipe |-> a]],
         pc' = [pc EXCEPT ![p] = "pipe3"],
         UNCHANGED <<iref, ofile, run, killed, todo, ff, arg, panicked>>
  PROVE  Inv'
<1>0. arg[p].f \in Files /\ arg[p].g \in Files /\ arg[p].f # arg[p].g
  BY HandIs DEF Inv, CallsAgree, CallAgrees, Creating
<1>1. PICK f \in Files, g \in Files : f = arg[p].f /\ g = arg[p].g /\ f # g
  BY <1>0
<1>2. InHand(p) = {f, g} /\ f \in InHand(p) /\ g \in InHand(p)
  BY <1>1, HandIs DEF Inv
<1>3. file[f].ref = 1 /\ file[f].type = "none" /\ file[g].ref = 1 /\ file[g].type = "none"
  BY <1>2 DEF Inv, NewFilesAgree, Creating
<1>. DEFINE rf == [ref |-> 1, type |-> "pipe", writable |-> FALSE, pipe |-> a]
            rg == [ref |-> 1, type |-> "pipe", writable |-> TRUE, pipe |-> a]
<1>4. rf \in FileRecords /\ rg \in FileRecords
  BY DEF FileRecords
<1>5. file' = [file EXCEPT ![f] = rf, ![g] = rg]
  BY <1>1
<1>6. /\ rf.ref = 1 /\ rf.type = "pipe" /\ ~rf.writable /\ rf.pipe = a
      /\ rg.ref = 1 /\ rg.type = "pipe" /\ rg.writable /\ rg.pipe = a
  OBVIOUS
<1>. HIDE DEF rf, rg
<1>7. file' \in [Files -> FileRecords] /\ file'[f] = rf /\ file'[g] = rg
      /\ \A h \in Files \ {f, g} : file'[h] = file[h]
  <2>1. file \in [Files -> FileRecords]
    BY DEF Inv, TypeOK
  <2>2. PICK old \in [Files -> FileRecords], s \in FileRecords, t \in FileRecords :
          old = file /\ s = rf /\ t = rg
    BY <1>4, <2>1
  <2>3. PICK n : n = file'
    OBVIOUS
  <2>4. n = [old EXCEPT ![f] = s, ![g] = t] /\ f # g
    BY <1>1, <1>5, <2>2, <2>3
  <2>5. n \in [Files -> FileRecords] /\ n[f] = s /\ n[g] = t /\ \A x \in Files \ {f, g} : n[x] = old[x]
    BY <2>4, TwoUpdates
  <2>. QED
    BY <2>2, <2>3, <2>5
<1>8. NewPipe \in PipeRecords
  BY FilesAssumption DEF NewPipe, PipeRecords, Bytes
<1>9. /\ pipe' \in [Pages -> PipeRecords] /\ pipe'[a] = NewPipe /\ \A b \in Pages \ {a} : pipe'[b] = pipe[b]
      /\ pc'[p] = "pipe3" /\ \A q \in Procs : q # p => pc'[q] = pc[q]
  BY <1>8 DEF Inv, TypeOK
<1>10. TypeOK'
  <2>1. pc' \in [Procs -> {"user", "close", "pipeclose", "pipe1", "pipe2", "pipe3", "open1",
                           "read", "readAsleep", "write", "writing", "writeAsleep"}]
    BY DEF Inv, TypeOK
  <2>. QED
    BY <1>7, <1>9, <2>1 DEF Inv, TypeOK
<1>11. \A q \in Procs : InHand(q)' = InHand(q)
  BY <1>9 DEF InHand, Creating
<1>12. RefsCounted'
  <2>1. \A h \in Files : file'[h].ref = file[h].ref
    BY <1>3, <1>6, <1>7
  <2>. QED
    BY <1>11, <2>1, RefsKept DEF Inv
<1>13. IrefCounted'
  <2>1. InodeFiles' = InodeFiles /\ InodeCloses' = InodeCloses
    BY <1>3, <1>6, <1>7 DEF InodeFiles, InodeCloses
  <2>. QED
    BY <2>1 DEF Inv, IrefCounted
<1>14. /\ \A h \in Files : file[h].type = "pipe" => h # f /\ h # g /\ file[h].pipe # a
       /\ \A q \in Procs : ff[q].type = "pipe" => ff[q].pipe # a
  BY <1>3, EndsInPage
<1>15. PipeFreedOnce'
  <2>1. HasEnd(a, TRUE)' /\ HasEnd(a, FALSE)'
    <3>1. /\ file'[f].ref > 0 /\ file'[f].type = "pipe" /\ file'[f].pipe = a /\ ~file'[f].writable
          /\ file'[g].ref > 0 /\ file'[g].type = "pipe" /\ file'[g].pipe = a /\ file'[g].writable
      BY <1>6, <1>7
    <3>. QED
      BY <3>1 DEF HasEnd
  <2>2. pipe'[a].writeopen /\ pipe'[a].readopen
    BY <1>9 DEF NewPipe
  <2>3. ASSUME NEW b \in Pages \ {a}
        PROVE  (HasEnd(b, TRUE)' <=> HasEnd(b, TRUE)) /\ (HasEnd(b, FALSE)' <=> HasEnd(b, FALSE))
    <3>1. \A h \in Files :
            /\ file'[h].ref > 0 /\ file'[h].type = "pipe" /\ file'[h].pipe = b <=>
               file[h].ref > 0 /\ file[h].type = "pipe" /\ file[h].pipe = b
            /\ file[h].type = "pipe" => file'[h] = file[h]
      BY <1>3, <1>6, <1>7, <1>14
    <3>. QED
      BY <3>1, ZenonT(60) DEF HasEnd
  <2>. QED
    BY <1>9, <2>1, <2>2, <2>3 DEF Inv, PipeFreedOnce
<1>16. EndsAgree'
  <2>1. \A h \in Files : file'[h].type = "pipe" =>
          \/ h = f /\ file'[h].pipe = a /\ ~file'[h].writable
          \/ h = g /\ file'[h].pipe = a /\ file'[h].writable
          \/ file'[h] = file[h] /\ file[h].pipe # a
    BY <1>6, <1>7, <1>14
  <2>2. \A h \in Files : file'[h].type = "pipe" => file'[h].pipe \in Pages
    BY <2>1 DEF Inv, EndsAgree
  <2>3. \A h, k \in Files : file'[h].type = "pipe" /\ file'[k].type = "pipe" /\ file'[h].pipe = file'[k].pipe
                              /\ (file'[h].writable <=> file'[k].writable) => h = k
    BY <2>1 DEF Inv, EndsAgree
  <2>4. \A q \in Procs, h \in Files :
          ff[q].type = "pipe" /\ file'[h].type = "pipe" /\ ff[q].pipe = file'[h].pipe =>
            (ff[q].writable <=> ~file'[h].writable)
    <3>. SUFFICES ASSUME NEW q \in Procs, NEW h \in Files,
                         ff[q].type = "pipe", file'[h].type = "pipe", ff[q].pipe = file'[h].pipe
                  PROVE  ff[q].writable <=> ~file'[h].writable
      OBVIOUS
    <3>1. file'[h] = file[h]
      BY <1>14, <2>1, ZenonT(60)
    <3>. QED
      BY <3>1 DEF Inv, EndsAgree
  <2>. QED
    BY <2>2, <2>3, <2>4, ZenonT(60) DEF Inv, EndsAgree
<1>17. ASSUME NEW q \in Procs, pc[q] \in Reading \cup Writing
       PROVE  PipeOf(q)' = PipeOf(q) /\ PipeOf(q) \in Pages \ {a} /\ pc'[q] = pc[q]
              /\ pipe'[PipeOf(q)] = pipe[PipeOf(q)]
  <2>1. arg[q].f \in Files /\ file[arg[q].f].type = "pipe" /\ PipeOf(q) \in page /\ PipeOf(q) \in Pages
    BY <1>17, PipeCallIs
  <2>2. file'[arg[q].f] = file[arg[q].f]
    BY <1>7, <1>14, <2>1
  <2>3. q # p
    BY <1>17 DEF Reading, Writing
  <2>. QED
    BY <1>9, <2>1, <2>2, <2>3 DEF PipeOf
<1>18. \A q \in Procs, w \in Reading \cup Writing : pc'[q] = w => pc[q] = w
  BY <1>9 DEF Reading, Writing
<1>19. PipesAgree'
  <2>1. Unread(a)' = 0 /\ pipe'[a].lock = None
    <3>1. Unread(a)' = (pipe'[a].nwrite - pipe'[a].nread) % Wrap
      BY DEF Unread
    <3>2. pipe'[a].nwrite = 0 /\ pipe'[a].nread = 0 /\ pipe'[a].lock = None
      BY <1>9 DEF NewPipe
    <3>3. Wrap \in Nat /\ Wrap > 0
      BY FilesAssumption
    <3>. QED
      BY <3>1, <3>2, <3>3
  <2>2. \A q \in Procs : ~(pc'[q] = "writing" /\ PipeOf(q)' = a) /\ None # q
    BY <1>17, <1>18, FilesAssumption DEF Writing
  <2>3. \A b \in Pages \ {a} : Unread(b)' = Unread(b)
    BY <1>9 DEF Unread
  <2>4. \A b \in Pages \ {a}, q \in Procs :
          pc'[q] = "writing" /\ PipeOf(q)' = b <=> pc[q] = "writing" /\ PipeOf(q) = b
    BY <1>17, <1>18 DEF Writing
  <2>. QED
    BY <1>9, <2>1, <2>2, <2>3, <2>4, FilesAssumption DEF Inv, PipesAgree
<1>20. PipeSleepersHaveCause'
  <2>1. ASSUME NEW q \in Procs, pc'[q] = "readAsleep" PROVE pipe'[PipeOf(q)'].writeopen
    BY <1>17, <1>18, <2>1 DEF Inv, PipeSleepersHaveCause, Reading
  <2>2. ASSUME NEW q \in Procs, pc'[q] = "writeAsleep"
        PROVE  PipeFull(PipeOf(q))' /\ pipe'[PipeOf(q)'].readopen
    BY <1>17, <1>18, <2>2 DEF Inv, PipeSleepersHaveCause, Writing, PipeFull
  <2>. QED
    BY <2>1, <2>2 DEF PipeSleepersHaveCause
<1>21. CallsAgree'
  <2>1. ASSUME NEW q \in Procs, q # p PROVE CallAgrees(q)'
    <3>1. \A h \in Files : file[h].type = "pipe" => file'[h] = file[h]
      BY <1>7, <1>14
    <3>. QED
      BY <1>9, <2>1, <3>1, CallKept
  <2>2. CallAgrees(p)'
    <3>1. CallAgrees(p)
      BY DEF Inv, CallsAgree
    <3>2. OpenFds(p)' = OpenFds(p)
      BY DEF OpenFds
    <3>. QED
      BY <1>9, <3>1, <3>2 DEF CallAgrees, Creating, Reading, Writing
  <2>. QED
    BY <2>1, <2>2 DEF CallsAgree
<1>22. NewFilesAgree'
  <2>1. \A h \in Files : file'[h].ref = 0 => file'[h].type = "none"
    BY <1>6, <1>7 DEF Inv, NewFilesAgree
  <2>2. ASSUME NEW q \in Procs, pc'[q] \in Creating, NEW h \in InHand(q)'
        PROVE  file'[h].ref = 1 /\ (pc'[q] # "pipe3" => file'[h].type = "none")
    <3>1. CASE q = p
      BY <1>2, <1>6, <1>7, <1>9, <1>11, <2>2, <3>1
    <3>2. CASE q # p
      <4>1. h \in InHand(q) /\ h \in Files /\ pc[q] \in Creating /\ pc'[q] = pc[q]
        BY <1>9, <1>11, <2>2, <3>2, HandIs DEF Inv
      <4>2. h # f /\ h # g
        BY <1>2, <1>3, <3>2, <4>1, RefFacts
      <4>. QED
        BY <1>7, <4>1, <4>2 DEF Inv, NewFilesAgree
    <3>. QED
      BY <3>1, <3>2
  <2>. QED
    BY <2>1, <2>2 DEF NewFilesAgree
<1>. QED
  BY <1>10, <1>12, <1>13, <1>15, <1>16, <1>19, <1>20, <1>21, <1>22 DEF Inv

\* pipealloc with and without a page.
LEMMA PipeInitInv ==
  ASSUME Inv, nofile' = nofile, NEW p \in Procs, PipeInit(p) PROVE Inv'
<1>1. CASE page = Pages /\ CloseAll(p, <<arg[p].f, arg[p].g>>) /\ UNCHANGED <<file, pipe, page>>
  BY <1>1, GiveUpFilesInv DEF PipeInit, procVars
<1>2. ASSUME NEW a \in Pages \ page,
             page' = page \cup {a}, pipe' = [pipe EXCEPT ![a] = NewPipe],
             file' = [file EXCEPT
               ![arg[p].f] = [ref |-> 1, type |-> "pipe", writable |-> FALSE, pipe |-> a],
               ![arg[p].g] = [ref |-> 1, type |-> "pipe", writable |-> TRUE, pipe |-> a]],
             pc' = [pc EXCEPT ![p] = "pipe3"], UNCHANGED <<todo, arg>>
      PROVE  Inv'
  <2>1. pc[p] = "pipe2" /\ UNCHANGED <<iref, ofile, run, killed, ff, panicked>>
    BY DEF PipeInit, procVars
  <2>2. a \in Pages /\ a \notin page
    OBVIOUS
  <2>. QED
    BY <1>2, <2>1, <2>2, PipeMadeInv
<1>. QED
  BY <1>1, <1>2 DEF PipeInit

\* pipe and open return with nothing in hand.
LEMMA ReturnIs ==
  ASSUME TypeOK, NEW p \in Procs, CloseAll(p, <<>>)
  PROVE  /\ \A q \in Procs : q # p => pc'[q] = pc[q] /\ arg'[q] = arg[q] /\ todo'[q] = todo[q]
         /\ pc'[p] = "user" /\ arg'[p] = NoArg /\ todo'[p] = <<>>
         /\ InHand(p)' = {} /\ \A q \in Procs : q # p => InHand(q)' = InHand(q)
         /\ todo' \in [Procs -> Seq(Files)]
         /\ arg' \in [Procs -> [f : Files \cup {None}, g : Files \cup {None}, n : 0 .. MaxWrite]]
         /\ pc' \in [Procs -> {"user", "close", "pipeclose", "pipe1", "pipe2", "pipe3", "open1",
                               "read", "readAsleep", "write", "writing", "writeAsleep"}]
<1>1. /\ \A q \in Procs : q # p => pc'[q] = pc[q] /\ arg'[q] = arg[q] /\ todo'[q] = todo[q]
      /\ pc'[p] = "user" /\ arg'[p] = NoArg /\ todo'[p] = <<>>
  BY DEF TypeOK, CloseAll
<1>2. NoArg \in [f : Files \cup {None}, g : Files \cup {None}, n : 0 .. MaxWrite]
  BY FilesAssumption DEF NoArg
<1>3. /\ todo' \in [Procs -> Seq(Files)]
      /\ arg' \in [Procs -> [f : Files \cup {None}, g : Files \cup {None}, n : 0 .. MaxWrite]]
  BY <1>2 DEF TypeOK, CloseAll
<1>4. pc' \in [Procs -> {"user", "close", "pipeclose", "pipe1", "pipe2", "pipe3", "open1",
                         "read", "readAsleep", "write", "writing", "writeAsleep"}]
  BY DEF TypeOK, CloseAll
<1>5. InHand(p)' = {} /\ \A q \in Procs : q # p => InHand(q)' = InHand(q)
  BY <1>1, TodoSets DEF InHand, Creating
<1>. QED
  BY <1>1, <1>3, <1>4, <1>5

\* sys_pipe: both files get descriptors.
LEMMA PipeFdsMadeInv ==
  ASSUME Inv, nofile' = nofile, NEW p \in Procs, NEW d \in FreeFds(p), NEW e \in FreeFds(p), d # e,
         pc[p] = "pipe3", CloseAll(p, <<>>),
         ofile' = [ofile EXCEPT ![p][d] = arg[p].f, ![p][e] = arg[p].g],
         UNCHANGED <<file, iref, pipe, page, run, killed, ff, panicked>>
  PROVE  Inv'
<1>0. arg[p].f \in Files /\ arg[p].g \in Files /\ arg[p].f # arg[p].g
  BY HandIs DEF Inv, CallsAgree, CallAgrees, Creating
<1>1. PICK f \in Files, g \in Files : f = arg[p].f /\ g = arg[p].g /\ f # g
  BY <1>0
<1>2. InHand(p) = {f, g} /\ run[p] # "unused" /\ ff[p].type = "none" /\ todo[p] = <<>>
  BY <1>1, HandIs DEF Inv, CallsAgree, CallAgrees
<1>3. d \in FDs /\ e \in FDs /\ ofile[p][d] = None /\ ofile[p][e] = None /\ f # None /\ g # None
  BY FreeFdIs, FilesAssumption DEF Inv
<1>4. /\ ofile' \in [Procs -> [FDs -> Files \cup {None}]]
      /\ \A q \in Procs : q # p => ofile'[q] = ofile[q]
      /\ ofile'[p][d] = f /\ ofile'[p][e] = g
      /\ \A c \in FDs \ {d, e} : ofile'[p][c] = ofile[p][c]
  <2>. DEFINE row == [[ofile[p] EXCEPT ![d] = f] EXCEPT ![e] = g]
  <2>1. /\ row \in [FDs -> Files \cup {None}] /\ row[d] = f /\ row[e] = g
        /\ \A c \in FDs \ {d, e} : row[c] = ofile[p][c]
    BY <1>3 DEF Inv, TypeOK
  <2>2. ofile' = [ofile EXCEPT ![p] = row]
    BY <1>1 DEF Inv, TypeOK
  <2>3. DOMAIN ofile = Procs /\ ofile \in [Procs -> [FDs -> Files \cup {None}]]
    BY DEF Inv, TypeOK
  <2>. HIDE DEF row
  <2>4. ofile' \in [Procs -> [FDs -> Files \cup {None}]]
    BY <2>1, <2>2, <2>3
  <2>5. ofile'[p] = row /\ \A q \in Procs : q # p => ofile'[q] = ofile[q]
    BY <2>2, <2>3
  <2>. QED
    BY <2>1, <2>4, <2>5
<1>5. /\ \A q \in Procs : q # p => pc'[q] = pc[q] /\ arg'[q] = arg[q] /\ todo'[q] = todo[q]
      /\ pc'[p] = "user" /\ arg'[p] = NoArg /\ todo'[p] = <<>>
      /\ InHand(p)' = {} /\ \A q \in Procs : q # p => InHand(q)' = InHand(q)
  BY ReturnIs DEF Inv
<1>6. TypeOK'
  BY <1>4, ReturnIs DEF Inv, TypeOK
<1>7. RefsCounted'
  <2>1. ASSUME NEW h \in {f, g}, NEW c \in {d, e}, ofile'[p][c] = h,
               \A b \in {d, e} : b # c => ofile'[p][b] # h
        PROVE  file'[h].ref = Cardinality(Descriptors(h)') + Cardinality(Calls(h)')
    <3>0. h \in Files /\ h # None /\ c \in FDs
      BY <1>3
    <3>1. Descriptors(h)' = Descriptors(h) \cup {<<p, c>>} /\ <<p, c>> \notin Descriptors(h)
      BY <1>3, <1>4, <2>1, <3>0 DEF Descriptors
    <3>2. Calls(h)' = Calls(h) \ {p} /\ p \in Calls(h)
      BY <1>2, <1>5 DEF Calls
    <3>3. /\ IsFiniteSet(Descriptors(h)) /\ Cardinality(Descriptors(h)) \in Nat
          /\ IsFiniteSet(Calls(h)) /\ Cardinality(Calls(h)) \in Nat
      BY Counts
    <3>4. Cardinality(Descriptors(h)') = Cardinality(Descriptors(h)) + 1
      BY <3>1, <3>3, CardStep
    <3>5. Cardinality(Calls(h)') = Cardinality(Calls(h)) - 1
      BY <3>2, <3>3, CardStep
    <3>6. file[h].ref = Cardinality(Descriptors(h)) + Cardinality(Calls(h))
      BY <3>0 DEF Inv, RefsCounted
    <3>. QED
      BY <3>3, <3>4, <3>5, <3>6
  <2>2. ASSUME NEW h \in Files \ {f, g}
        PROVE  file'[h].ref = Cardinality(Descriptors(h)') + Cardinality(Calls(h)')
    <3>0. h # None
      BY FilesAssumption
    <3>1. Descriptors(h)' = Descriptors(h)
      BY <1>3, <1>4, <3>0 DEF Descriptors
    <3>2. Calls(h)' = Calls(h)
      BY <1>2, <1>5 DEF Calls
    <3>. QED
      BY <3>1, <3>2 DEF Inv, RefsCounted
  <2>3. file'[f].ref = Cardinality(Descriptors(f)') + Cardinality(Calls(f)')
    BY <1>1, <1>4, <2>1
  <2>4. file'[g].ref = Cardinality(Descriptors(g)') + Cardinality(Calls(g)')
    BY <1>1, <1>4, <2>1
  <2>. QED
    BY <2>2, <2>3, <2>4 DEF RefsCounted
<1>8. IrefCounted' /\ PipeFreedOnce' /\ EndsAgree'
  <2>1. \A h \in Files : file[h].type # "none" => file[h].ref > 0
    BY Typed
  <2>. QED
    BY <2>1, TypesKept
<1>9. PipesAgree' /\ PipeSleepersHaveCause'
  <2>1. \A q \in Procs : pc'[q] # pc[q] =>
           pc[q] \notin Reading \cup Writing /\ pc'[q] \notin {"readAsleep", "writing", "writeAsleep"}
    BY <1>5 DEF Reading, Writing
  <2>2. \A q \in Procs : pc[q] \in Reading \cup Writing => arg'[q].f = arg[q].f
    BY <1>5 DEF Reading, Writing
  <2>. QED
    BY <2>1, <2>2, PipesKept
<1>10. CallsAgree'
  <2>1. ASSUME NEW q \in Procs, q # p PROVE CallAgrees(q)'
    BY <1>4, <1>5, <2>1, CallKept
  <2>2. CallAgrees(p)'
    BY <1>2, <1>5 DEF CallAgrees, Creating, Reading, Writing, NoArg
  <2>. QED
    BY <2>1, <2>2 DEF CallsAgree
<1>11. NewFilesAgree'
  <2>1. \A q \in Procs : pc'[q] \in Creating => q # p /\ pc'[q] = pc[q]
    BY <1>5 DEF Creating
  <2>. QED
    BY <1>5, <2>1 DEF Inv, NewFilesAgree
<1>. QED
  BY <1>6, <1>7, <1>8, <1>9, <1>10, <1>11 DEF Inv

\* sys_pipe with and without descriptors for both ends.
LEMMA PipeFdsInv ==
  ASSUME Inv, nofile' = nofile, NEW p \in Procs, NEW copied \in BOOLEAN, PipeFds(p, copied) PROVE Inv'
<1>1. CASE copied /\ Cardinality(FreeFds(p)) >= 2
  <2>1. PICK d \in FreeFds(p), e \in FreeFds(p) :
          /\ d # e /\ d = Lowest(FreeFds(p)) /\ e = Lowest(FreeFds(p) \ {Lowest(FreeFds(p))})
    BY <1>1, TwoFreeFds DEF Inv
  <2>2. /\ ofile' = [ofile EXCEPT ![p][d] = arg[p].f, ![p][e] = arg[p].g]
        /\ CloseAll(p, <<>>) /\ pc[p] = "pipe3"
        /\ UNCHANGED <<file, iref, pipe, page, run, killed, ff, panicked>>
    BY <1>1, <2>1 DEF PipeFds, fileVars, pipeVars
  <2>. QED
    BY <2>1, <2>2, PipeFdsMadeInv
<1>2. CASE ~(copied /\ Cardinality(FreeFds(p)) >= 2)
  BY <1>2, GiveUpFilesInv DEF PipeFds, fileVars, pipeVars
<1>. QED
  BY <1>1, <1>2

\* sys_open: the file gets its type, an inode reference and a descriptor.
LEMMA OpenMadeInv ==
  ASSUME Inv, nofile' = nofile, NEW p \in Procs, NEW d \in FreeFds(p), pc[p] = "open1",
         CloseAll(p, <<>>), iref' = iref + 1,
         file' = [file EXCEPT ![arg[p].f].type = "inode", ![arg[p].f].writable = FALSE],
         ofile' = [ofile EXCEPT ![p][d] = arg[p].f],
         UNCHANGED <<pipe, page, run, killed, ff, panicked>>
  PROVE  Inv'
<1>0. arg[p].f \in Files
  BY HandIs DEF Inv, CallsAgree, CallAgrees, Creating
<1>1. PICK f \in Files : f = arg[p].f
  BY <1>0
<1>2. InHand(p) = {f} /\ f \in InHand(p) /\ run[p] # "unused" /\ ff[p].type = "none" /\ todo[p] = <<>>
  BY <1>1, HandIs DEF Inv, CallsAgree, CallAgrees
<1>3. file[f].ref = 1 /\ file[f].type = "none"
  BY <1>2 DEF Inv, NewFilesAgree, Creating
<1>4. d \in FDs /\ ofile[p][d] = None /\ f # None
  BY FreeFdIs, FilesAssumption DEF Inv
<1>5. /\ file' \in [Files -> FileRecords] /\ \A h \in Files \ {f} : file'[h] = file[h]
      /\ file'[f].ref = 1 /\ file'[f].type = "inode" /\ file'[f].pipe = file[f].pipe
  <2>. DEFINE r == [file[f] EXCEPT !.type = "inode", !.writable = FALSE]
  <2>1. file' = [file EXCEPT ![f] = r]
    BY <1>1 DEF Inv, TypeOK
  <2>2. r \in FileRecords /\ r.ref = file[f].ref /\ r.type = "inode" /\ r.pipe = file[f].pipe
    BY Typed DEF FileRecords
  <2>3. file \in [Files -> FileRecords]
    BY DEF Inv, TypeOK
  <2>. HIDE DEF r
  <2>. QED
    BY <1>3, <2>1, <2>2, <2>3
<1>6. /\ \A q \in Procs, c \in FDs : <<q, c>> # <<p, d>> => ofile'[q][c] = ofile[q][c]
      /\ ofile'[p][d] = f /\ \A q \in Procs : q # p => ofile'[q] = ofile[q]
      /\ ofile' \in [Procs -> [FDs -> Files \cup {None}]]
  BY <1>1, <1>4 DEF Inv, TypeOK
<1>7. /\ \A q \in Procs : q # p => pc'[q] = pc[q] /\ arg'[q] = arg[q] /\ todo'[q] = todo[q]
      /\ pc'[p] = "user" /\ arg'[p] = NoArg /\ todo'[p] = <<>>
      /\ InHand(p)' = {} /\ \A q \in Procs : q # p => InHand(q)' = InHand(q)
  BY ReturnIs DEF Inv
<1>8. TypeOK'
  <2>1. iref' \in Nat
    BY DEF Inv, TypeOK
  <2>. QED
    BY <1>5, <1>6, <2>1, ReturnIs DEF Inv, TypeOK
<1>9. RefsCounted'
  <2>1. file'[f].ref = Cardinality(Descriptors(f)') + Cardinality(Calls(f)')
    <3>1. Descriptors(f)' = Descriptors(f) \cup {<<p, d>>} /\ <<p, d>> \notin Descriptors(f)
      BY <1>4, <1>6 DEF Descriptors
    <3>2. Calls(f)' = Calls(f) \ {p} /\ p \in Calls(f)
      BY <1>2, <1>7 DEF Calls
    <3>3. /\ IsFiniteSet(Descriptors(f)) /\ Cardinality(Descriptors(f)) \in Nat
          /\ IsFiniteSet(Calls(f)) /\ Cardinality(Calls(f)) \in Nat
      BY Counts
    <3>4. Cardinality(Descriptors(f)') = Cardinality(Descriptors(f)) + 1
      BY <3>1, <3>3, CardStep
    <3>5. Cardinality(Calls(f)') = Cardinality(Calls(f)) - 1
      BY <3>2, <3>3, CardStep
    <3>6. file[f].ref = Cardinality(Descriptors(f)) + Cardinality(Calls(f))
      BY DEF Inv, RefsCounted
    <3>7. file'[f].ref = file[f].ref
      BY <1>3, <1>5
    <3>. QED
      BY <3>3, <3>4, <3>5, <3>6, <3>7
  <2>2. ASSUME NEW h \in Files \ {f}
        PROVE  file'[h].ref = Cardinality(Descriptors(h)') + Cardinality(Calls(h)')
    <3>0. h # None
      BY FilesAssumption
    <3>1. Descriptors(h)' = Descriptors(h)
      BY <1>4, <1>6, <3>0 DEF Descriptors
    <3>2. Calls(h)' = Calls(h)
      BY <1>2, <1>7 DEF Calls
    <3>. QED
      BY <1>5, <3>1, <3>2 DEF Inv, RefsCounted
  <2>. QED
    BY <2>1, <2>2 DEF RefsCounted
<1>10. IrefCounted'
  <2>1. InodeFiles' = InodeFiles \cup {f} /\ f \notin InodeFiles /\ InodeCloses' = InodeCloses
    BY <1>3, <1>5 DEF InodeFiles, InodeCloses
  <2>2. IsFiniteSet(InodeFiles) /\ IsFiniteSet(InodeCloses)
    BY FilesAssumption, FS_Subset DEF InodeFiles, InodeCloses
  <2>3. Cardinality(InodeFiles) \in Nat /\ Cardinality(InodeCloses) \in Nat
    BY <2>2, FS_CardinalityType
  <2>4. Cardinality(InodeFiles') = Cardinality(InodeFiles) + 1
    BY <2>1, <2>2, CardStep
  <2>. QED
    BY <2>1, <2>3, <2>4 DEF Inv, IrefCounted
<1>11. \A h \in Files : file'[h].type = "pipe" \/ file[h].type = "pipe" => h # f /\ file'[h] = file[h]
  BY <1>3, <1>5
<1>12. PipeFreedOnce'
  <2>1. \A b \in Pages : (HasEnd(b, TRUE)' <=> HasEnd(b, TRUE)) /\ (HasEnd(b, FALSE)' <=> HasEnd(b, FALSE))
    BY <1>11, ZenonT(60) DEF HasEnd
  <2>. QED
    BY <2>1 DEF Inv, PipeFreedOnce
<1>13. EndsAgree'
  <2>1. \A h \in Files : file'[h].type = "pipe" => file'[h].pipe \in Pages
    BY <1>11 DEF Inv, EndsAgree
  <2>2. \A h, k \in Files : file'[h].type = "pipe" /\ file'[k].type = "pipe" /\ file'[h].pipe = file'[k].pipe
                              /\ (file'[h].writable <=> file'[k].writable) => h = k
    BY <1>11 DEF Inv, EndsAgree
  <2>3. \A q \in Procs, h \in Files :
          ff[q].type = "pipe" /\ file'[h].type = "pipe" /\ ff[q].pipe = file'[h].pipe =>
            (ff[q].writable <=> ~file'[h].writable)
    <3>. SUFFICES ASSUME NEW q \in Procs, NEW h \in Files,
                         ff[q].type = "pipe", file'[h].type = "pipe", ff[q].pipe = file'[h].pipe
                  PROVE  ff[q].writable <=> ~file'[h].writable
      OBVIOUS
    <3>1. file'[h] = file[h]
      BY <1>11
    <3>2. file[h].type = "pipe" /\ ff[q].pipe = file[h].pipe
      BY <3>1
    <3>. QED
      BY <3>1, <3>2, ZenonT(60) DEF Inv, EndsAgree
  <2>. QED
    BY <2>1, <2>2, <2>3, ZenonT(60) DEF Inv, EndsAgree
<1>14. PipesAgree' /\ PipeSleepersHaveCause'
  <2>1. \A q \in Procs : pc'[q] # pc[q] =>
           pc[q] \notin Reading \cup Writing /\ pc'[q] \notin {"readAsleep", "writing", "writeAsleep"}
    BY <1>7 DEF Reading, Writing
  <2>2. \A q \in Procs : pc[q] \in Reading \cup Writing => arg'[q].f = arg[q].f
    BY <1>7 DEF Reading, Writing
  <2>3. \A h \in Files : file'[h].pipe = file[h].pipe
    BY <1>5
  <2>. QED
    BY <2>1, <2>2, <2>3, PipesKept
<1>15. CallsAgree'
  <2>1. ASSUME NEW q \in Procs, q # p PROVE CallAgrees(q)'
    <3>1. \A h \in Files : file[h].type = "pipe" => file'[h] = file[h]
      BY <1>11
    <3>. QED
      BY <1>6, <1>7, <2>1, <3>1, CallKept
  <2>2. CallAgrees(p)'
    BY <1>2, <1>7 DEF CallAgrees, Creating, Reading, Writing, NoArg
  <2>. QED
    BY <2>1, <2>2 DEF CallsAgree
<1>16. NewFilesAgree'
  <2>1. \A h \in Files : file'[h].ref = 0 => file'[h].type = "none"
    <3>1. ASSUME NEW h \in Files, file'[h].ref = 0 PROVE file'[h].type = "none"
      <4>1. h # f
        BY <1>5, <3>1
      <4>2. file'[h] = file[h]
        BY <1>5, <4>1
      <4>. QED
        BY <3>1, <4>2 DEF Inv, NewFilesAgree
    <3>. QED
      BY <3>1
  <2>2. ASSUME NEW q \in Procs, pc'[q] \in Creating, NEW h \in InHand(q)'
        PROVE  file'[h].ref = 1 /\ (pc'[q] # "pipe3" => file'[h].type = "none")
    <3>1. q # p
      BY <1>7, <2>2
    <3>2. h \in InHand(q) /\ h \in Files /\ pc[q] \in Creating /\ pc'[q] = pc[q]
      BY <1>7, <2>2, <3>1, HandIs DEF Inv
    <3>3. h # f
      BY <1>2, <1>3, <3>1, <3>2, RefFacts
    <3>. QED
      <4>1. file'[h] = file[h]
        BY <1>5, <3>2, <3>3
      <4>. QED
        BY <3>2, <4>1 DEF Inv, NewFilesAgree
  <2>. QED
    BY <2>1, <2>2 DEF NewFilesAgree
<1>. QED
  BY <1>8, <1>9, <1>10, <1>12, <1>13, <1>14, <1>15, <1>16 DEF Inv

\* sys_open with and without a descriptor.
LEMMA OpenFdInv ==
  ASSUME Inv, nofile' = nofile, NEW p \in Procs, OpenFd(p) PROVE Inv'
<1>1. CASE FreeFds(p) # {}
  <2>1. PICK d \in FreeFds(p) : d = Lowest(FreeFds(p))
    BY <1>1, FreeFdIs DEF Inv
  <2>2. /\ file' = [file EXCEPT ![arg[p].f].type = "inode", ![arg[p].f].writable = FALSE]
        /\ iref' = iref + 1 /\ ofile' = [ofile EXCEPT ![p][d] = arg[p].f]
        /\ CloseAll(p, <<>>) /\ pc[p] = "open1"
        /\ UNCHANGED <<pipe, page, run, killed, ff, panicked>>
    BY <1>1, <2>1 DEF OpenFd, pipeVars
  <2>. QED
    BY <2>2, OpenMadeInv
<1>2. CASE FreeFds(p) = {}
  BY <1>2, GiveUpFilesInv DEF OpenFd, pipeVars
<1>. QED
  BY <1>1, <1>2

\* fileclose goes through a list of files that are all different.
LEMMA TodoTail ==
  ASSUME NEW s \in Seq(Files), s # <<>>, \A i, j \in 1 .. Len(s) : s[i] = s[j] => i = j
  PROVE  /\ Head(s) \in Files /\ Head(s) \in ToSet(s) /\ Tail(s) \in Seq(Files)
         /\ ToSet(Tail(s)) = ToSet(s) \ {Head(s)}
         /\ \A i, j \in 1 .. Len(Tail(s)) : Tail(s)[i] = Tail(s)[j] => i = j
<1>1. PICK n \in Nat : n = Len(s) /\ n >= 1
  OBVIOUS
<1>2. /\ Head(s) = s[1] /\ Tail(s) \in Seq(Files) /\ Len(Tail(s)) = n - 1
      /\ \A i \in 1 .. n - 1 : Tail(s)[i] = s[i + 1]
  BY <1>1
<1>3. DOMAIN s = 1 .. n /\ DOMAIN Tail(s) = 1 .. n - 1 /\ \A i \in 1 .. n : s[i] \in Files
  BY <1>1, <1>2
<1>4. ToSet(s) = {s[i] : i \in 1 .. n} /\ ToSet(Tail(s)) = {Tail(s)[i] : i \in 1 .. n - 1}
  BY <1>3 DEF ToSet
<1>5. ASSUME NEW x \in ToSet(Tail(s)) PROVE x \in ToSet(s) \ {Head(s)}
  <2>1. PICK i \in 1 .. n - 1 : x = Tail(s)[i]
    BY <1>4
  <2>2. i + 1 \in 1 .. n /\ i + 1 # 1 /\ x = s[i + 1] /\ 1 \in 1 .. n
    BY <1>1, <1>2, <2>1
  <2>. QED
    BY <1>1, <1>2, <1>4, <2>2
<1>6. ASSUME NEW x \in ToSet(s) \ {Head(s)} PROVE x \in ToSet(Tail(s))
  <2>1. PICK i \in 1 .. n : x = s[i]
    BY <1>4
  <2>2. i # 1
    BY <1>2, <2>1
  <2>3. i - 1 \in 1 .. n - 1 /\ (i - 1) + 1 = i
    BY <1>1, <2>1, <2>2
  <2>4. Tail(s)[i - 1] = s[i]
    BY <1>2, <2>3
  <2>. QED
    BY <1>4, <2>1, <2>3, <2>4
<1>7. ASSUME NEW i \in 1 .. n - 1, NEW j \in 1 .. n - 1, Tail(s)[i] = Tail(s)[j] PROVE i = j
  <2>1. i + 1 \in 1 .. n /\ j + 1 \in 1 .. n /\ s[i + 1] = s[j + 1]
    BY <1>1, <1>2, <1>7
  <2>2. i + 1 = j + 1
    BY <1>1, <2>1
  <2>. QED
    BY <1>1, <2>2
<1>8. Head(s) \in Files /\ Head(s) \in ToSet(s)
  BY <1>1, <1>2, <1>3, <1>4
<1>. QED
  BY <1>2, <1>5, <1>6, <1>7, <1>8

\* What fileclose does under ftable.lock; it never finds a file without references.
LEMMA FileCloseIs ==
  ASSUME Inv, nofile' = nofile, NEW p \in Procs, FileClose(p)
  PROVE  \E f \in Files :
         /\ f \in InHand(p) /\ file[f].ref \in Nat /\ file[f].ref >= 1
         /\ UNCHANGED <<iref, pipe, page, ofile, run, killed, arg, panicked>>
         /\ TypeOK' /\ InHand(p)' = InHand(p) \ {f}
         /\ \A i, j \in 1 .. Len(todo'[p]) : todo'[p][i] = todo'[p][j] => i = j
         /\ todo'[p] = <<>> => pc'[p] # "close"
         /\ todo'[p] # <<>> => pc'[p] # "user"
         /\ \A q \in Procs : q # p => pc'[q] = pc[q] /\ todo'[q] = todo[q] /\ ff'[q] = ff[q]
         /\ \A h \in Files : h # f => file'[h] = file[h]
         /\ file'[f].ref = file[f].ref - 1
         /\ file'[f].pipe = file[f].pipe /\ (file'[f].writable <=> file[f].writable)
         /\ \/ /\ file'[f].type = file[f].type /\ (file'[f].ref = 0 => file[f].type = "none")
               /\ ff' = ff /\ pc'[p] \in {"user", "close"}
            \/ /\ file[f].ref = 1 /\ file[f].type # "none" /\ file'[f].type = "none"
               /\ ff'[p] = file[f] /\ pc'[p] = "pipeclose"
<1>1. pc[p] = "close" /\ todo[p] # <<>> /\ todo[p] \in Seq(Files) /\ InHand(p) = ToSet(todo[p])
  BY HandIs DEF FileClose, Inv, TypeOK, CallsAgree, CallAgrees
<1>2. \A i, j \in 1 .. Len(todo[p]) : todo[p][i] = todo[p][j] => i = j
  BY DEF Inv, CallsAgree, CallAgrees
<1>3. PICK t \in Seq(Files) : t = Tail(todo[p])
  BY <1>1, <1>2, TodoTail
<1>4. PICK f \in Files : f = Head(todo[p])
  BY <1>1, <1>2, TodoTail
<1>5. /\ f \in InHand(p) /\ ToSet(t) = InHand(p) \ {f}
      /\ \A i, j \in 1 .. Len(t) : t[i] = t[j] => i = j
  BY <1>1, <1>2, <1>3, <1>4, TodoTail
<1>6. file[f].ref \in Nat /\ file[f].ref >= 1 /\ file[f] \in FileRecords
  BY <1>5, RefFacts, Typed
<1>7. /\ todo' = [todo EXCEPT ![p] = t]
      /\ \/ /\ file[f].ref > 1 \/ file[f].type = "none"
            /\ pc' = [pc EXCEPT ![p] = IF t = <<>> THEN "user" ELSE "close"] /\ ff' = ff
         \/ /\ ~(file[f].ref > 1 \/ file[f].type = "none")
            /\ pc' = [pc EXCEPT ![p] = "pipeclose"] /\ ff' = [ff EXCEPT ![p] = file[f]]
      /\ file' = IF file[f].ref > 1 THEN [file EXCEPT ![f].ref = @ - 1] ELSE Emptied(f)
      /\ UNCHANGED <<iref, pipe, page, ofile, run, killed, arg, panicked>>
  BY <1>3, <1>4, <1>6 DEF FileClose, pipeVars, procVars
<1>. DEFINE r == IF file[f].ref > 1 THEN [file[f] EXCEPT !.ref = @ - 1]
                 ELSE [file[f] EXCEPT !.ref = 0, !.type = "none"]
<1>8. file \in [Files -> FileRecords] /\ ff \in [Procs -> FileRecords] /\ todo \in [Procs -> Seq(Files)]
  BY DEF Inv, TypeOK
<1>9. file' = [file EXCEPT ![f] = r]
  BY <1>7, <1>8 DEF Emptied
<1>10. /\ r \in FileRecords /\ r.ref = file[f].ref - 1 /\ r.pipe = file[f].pipe /\ (r.writable <=> file[f].writable)
       /\ file[f].ref > 1 => r.type = file[f].type
       /\ ~(file[f].ref > 1) => r.type = "none"
  <2>1. CASE file[f].ref > 1
    <3>1. r = [file[f] EXCEPT !.ref = @ - 1] /\ file[f].ref - 1 \in Nat
      BY <1>6, <2>1
    <3>. HIDE DEF r
    <3>. QED
      BY <1>6, <2>1, <3>1 DEF FileRecords
  <2>2. CASE ~(file[f].ref > 1)
    <3>1. r = [file[f] EXCEPT !.ref = 0, !.type = "none"] /\ file[f].ref - 1 = 0
      BY <1>6, <2>2
    <3>. HIDE DEF r
    <3>. QED
      BY <1>6, <2>2, <3>1 DEF FileRecords
  <2>. QED
    BY <2>1, <2>2
<1>. HIDE DEF r
<1>11. file' \in [Files -> FileRecords] /\ file'[f] = r /\ \A h \in Files : h # f => file'[h] = file[h]
  BY <1>8, <1>9, <1>10
<1>12. todo' \in [Procs -> Seq(Files)] /\ todo'[p] = t /\ \A q \in Procs : q # p => todo'[q] = todo[q]
  BY <1>7, <1>8
<1>13. ff' \in [Procs -> FileRecords] /\ \A q \in Procs : q # p => ff'[q] = ff[q]
  BY <1>6, <1>7, <1>8
<1>14. /\ pc' \in [Procs -> {"user", "close", "pipeclose", "pipe1", "pipe2", "pipe3", "open1",
                             "read", "readAsleep", "write", "writing", "writeAsleep"}]
       /\ \A q \in Procs : q # p => pc'[q] = pc[q]
       /\ pc'[p] \in {"user", "close", "pipeclose"}
       /\ t = <<>> => pc'[p] # "close"
       /\ t # <<>> => pc'[p] # "user"
  BY <1>7 DEF Inv, TypeOK
<1>15. TypeOK'
  <2>1. nofile' \in Nofiles
    BY DEF Inv, TypeOK
  <2>. QED
    BY <1>7, <1>11, <1>12, <1>13, <1>14, <2>1 DEF Inv, TypeOK
<1>16. InHand(p)' = InHand(p) \ {f}
  BY <1>5, <1>12, <1>14 DEF InHand, Creating
<1>17. \/ /\ file'[f].type = file[f].type /\ (file'[f].ref = 0 => file[f].type = "none")
          /\ ff' = ff /\ pc'[p] \in {"user", "close"}
       \/ /\ file[f].ref = 1 /\ file[f].type # "none" /\ file'[f].type = "none"
          /\ ff'[p] = file[f] /\ pc'[p] = "pipeclose"
  <2>1. CASE file[f].ref > 1 \/ file[f].type = "none"
    <3>1. ff' = ff /\ pc'[p] \in {"user", "close"}
      BY <1>7, <2>1 DEF Inv, TypeOK
    <3>2. file'[f].type = file[f].type /\ (file'[f].ref = 0 => file[f].type = "none")
      BY <1>6, <1>10, <1>11, <2>1
    <3>. QED
      BY <3>1, <3>2
  <2>2. CASE ~(file[f].ref > 1 \/ file[f].type = "none")
    <3>1. ff'[p] = file[f] /\ pc'[p] = "pipeclose"
      BY <1>7, <1>8, <2>2 DEF Inv, TypeOK
    <3>2. file[f].ref = 1 /\ file[f].type # "none" /\ file'[f].type = "none"
      BY <1>6, <1>10, <1>11, <2>2
    <3>. QED
      BY <3>1, <3>2
  <2>. QED
    BY <2>1, <2>2
<1>. WITNESS f \in Files
<1>. QED
  BY <1>5, <1>6, <1>7, <1>10, <1>11, <1>12, <1>13, <1>14, <1>15, <1>16, <1>17

\* The last reference to a file goes: its end of a pipe, or its inode, is now fileclose's.
LEMMA LastReferenceMoves ==
  ASSUME Inv, NEW p \in Procs, NEW f \in Files, UNCHANGED <<iref, pipe, page>>,
         ff[p].type = "none", file[f].type # "none", file[f].ref > 0,
         file'[f].ref = 0, file'[f].type = "none", ff'[p] = file[f],
         \A q \in Procs : q # p => ff'[q] = ff[q],
         \A h \in Files : h # f => file'[h] = file[h]
  PROVE  IrefCounted' /\ PipeFreedOnce' /\ EndsAgree'
<1>1. IrefCounted'
  <2>1. IsFiniteSet(InodeFiles) /\ IsFiniteSet(InodeCloses)
    BY FilesAssumption, FS_Subset DEF InodeFiles, InodeCloses
  <2>2. Cardinality(InodeFiles) \in Nat /\ Cardinality(InodeCloses) \in Nat
    BY <2>1, FS_CardinalityType
  <2>3. CASE file[f].type = "inode"
    <3>1. InodeFiles' = InodeFiles \ {f} /\ f \in InodeFiles
      BY <2>3 DEF InodeFiles
    <3>2. InodeCloses' = InodeCloses \cup {p} /\ p \notin InodeCloses
      BY <2>3 DEF InodeCloses
    <3>3. Cardinality(InodeFiles') = Cardinality(InodeFiles) - 1
      BY <2>1, <3>1, CardStep
    <3>4. Cardinality(InodeCloses') = Cardinality(InodeCloses) + 1
      BY <2>1, <3>2, CardStep
    <3>. QED
      BY <2>2, <3>3, <3>4 DEF Inv, IrefCounted
  <2>4. CASE file[f].type # "inode"
    <3>1. InodeFiles' = InodeFiles /\ InodeCloses' = InodeCloses
      BY <2>4 DEF InodeFiles, InodeCloses
    <3>. QED
      BY <3>1 DEF Inv, IrefCounted
  <2>. QED
    BY <2>3, <2>4
<1>2. ASSUME NEW b \in Pages, NEW w \in BOOLEAN PROVE HasEnd(b, w)' <=> HasEnd(b, w)
  <2>1. ASSUME HasEnd(b, w) PROVE HasEnd(b, w)'
    <3>1. CASE \E h \in Files : /\ file[h].ref > 0 /\ file[h].type = "pipe" /\ file[h].pipe = b
                                /\ file[h].writable <=> w
      <4>1. PICK h \in Files : /\ file[h].ref > 0 /\ file[h].type = "pipe" /\ file[h].pipe = b
                               /\ file[h].writable <=> w
        BY <3>1
      <4>2. CASE h = f
        BY <4>1, <4>2 DEF HasEnd
      <4>3. CASE h # f
        <5>1. file'[h] = file[h]
          BY <4>3
        <5>. QED
          BY <4>1, <5>1 DEF HasEnd
      <4>. QED
        BY <4>2, <4>3
    <3>2. CASE \E q \in Procs : ff[q].type = "pipe" /\ ff[q].pipe = b /\ (ff[q].writable <=> w)
      <4>1. PICK q \in Procs : ff[q].type = "pipe" /\ ff[q].pipe = b /\ (ff[q].writable <=> w)
        BY <3>2
      <4>2. ff'[q] = ff[q]
        BY <4>1
      <4>. QED
        BY <4>1, <4>2 DEF HasEnd
    <3>. QED
      BY <2>1, <3>1, <3>2 DEF HasEnd
  <2>2. ASSUME HasEnd(b, w)' PROVE HasEnd(b, w)
    <3>1. CASE \E h \in Files : /\ file'[h].ref > 0 /\ file'[h].type = "pipe" /\ file'[h].pipe = b
                                /\ file'[h].writable <=> w
      <4>1. PICK h \in Files : /\ file'[h].ref > 0 /\ file'[h].type = "pipe" /\ file'[h].pipe = b
                               /\ file'[h].writable <=> w
        BY <3>1
      <4>2. file'[h] = file[h]
        BY <4>1
      <4>. QED
        BY <4>1, <4>2 DEF HasEnd
    <3>2. CASE \E q \in Procs : ff'[q].type = "pipe" /\ ff'[q].pipe = b /\ (ff'[q].writable <=> w)
      <4>1. PICK q \in Procs : ff'[q].type = "pipe" /\ ff'[q].pipe = b /\ (ff'[q].writable <=> w)
        BY <3>2
      <4>2. CASE q = p
        BY <4>1, <4>2 DEF HasEnd
      <4>3. CASE q # p
        BY <4>1, <4>3 DEF HasEnd
      <4>. QED
        BY <4>2, <4>3
    <3>. QED
      BY <2>2, <3>1, <3>2 DEF HasEnd
  <2>. QED
    BY <2>1, <2>2
<1>3. PipeFreedOnce'
  <2>1. \A b \in Pages : (HasEnd(b, TRUE)' <=> HasEnd(b, TRUE)) /\ (HasEnd(b, FALSE)' <=> HasEnd(b, FALSE))
    BY <1>2
  <2>. QED
    BY <2>1 DEF Inv, PipeFreedOnce
<1>4. EndsAgree'
  <2>0. /\ \A h \in Files : file'[h].type = "pipe" => h # f /\ file'[h] = file[h]
        /\ \A q \in Procs : ff'[q].type = "pipe" =>
             (q = p /\ ff'[q] = file[f]) \/ (q # p /\ ff'[q] = ff[q])
    OBVIOUS
  <2>1. \A h \in Files : file'[h].type = "pipe" => file'[h].pipe \in Pages
    BY <2>0 DEF Inv, EndsAgree
  <2>2. \A q \in Procs : ff'[q].type = "pipe" => ff'[q].pipe \in Pages
    BY <2>0 DEF Inv, EndsAgree
  <2>3. \A h, k \in Files :
          file'[h].type = "pipe" /\ file'[k].type = "pipe" /\ file'[h].pipe = file'[k].pipe
            /\ (file'[h].writable <=> file'[k].writable) => h = k
    BY <2>0 DEF Inv, EndsAgree
  <2>4. ASSUME NEW q \in Procs, NEW s \in Procs, q # s, ff'[q].type = "pipe", ff'[s].type = "pipe",
               ff'[q].pipe = ff'[s].pipe, ff'[q].writable <=> ff'[s].writable
        PROVE  FALSE
    <3>1. CASE q = p
      <4>1. ff'[q] = file[f] /\ ff'[s] = ff[s]
        BY <2>4, <3>1
      <4>. QED
        BY <2>4, <4>1 DEF Inv, EndsAgree
    <3>2. CASE s = p
      <4>1. ff'[s] = file[f] /\ ff'[q] = ff[q]
        BY <2>4, <3>2
      <4>. QED
        BY <2>4, <4>1 DEF Inv, EndsAgree
    <3>3. CASE q # p /\ s # p
      <4>1. ff'[s] = ff[s] /\ ff'[q] = ff[q]
        BY <3>3
      <4>. QED
        BY <2>4, <4>1 DEF Inv, EndsAgree
    <3>. QED
      BY <3>1, <3>2, <3>3
  <2>5. ASSUME NEW q \in Procs, NEW h \in Files, ff'[q].type = "pipe", file'[h].type = "pipe",
               ff'[q].pipe = file'[h].pipe
        PROVE  ff'[q].writable <=> ~file'[h].writable
    <3>0. h # f /\ file'[h] = file[h]
      BY <2>0, <2>5
    <3>1. CASE q = p
      <4>1. file[f].type = "pipe" /\ file[h].type = "pipe" /\ file[f].pipe = file[h].pipe
        BY <2>5, <3>0, <3>1
      <4>. QED
        BY <3>0, <3>1, <4>1 DEF Inv, EndsAgree
    <3>2. CASE q # p
      <4>1. ff'[q] = ff[q]
        BY <3>2
      <4>. QED
        BY <2>5, <3>0, <4>1 DEF Inv, EndsAgree
    <3>. QED
      BY <3>1, <3>2
  <2>. QED
    BY <2>1, <2>2, <2>3, <2>4, <2>5 DEF EndsAgree
<1>. QED
  BY <1>1, <1>3, <1>4

\* fileclose under ftable.lock.
LEMMA FileCloseInv ==
  ASSUME Inv, nofile' = nofile, NEW p \in Procs, FileClose(p) PROVE Inv'
<1>1. PICK f \in Files :
         /\ f \in InHand(p) /\ file[f].ref \in Nat /\ file[f].ref >= 1
         /\ UNCHANGED <<iref, pipe, page, ofile, run, killed, arg, panicked>>
         /\ TypeOK' /\ InHand(p)' = InHand(p) \ {f}
         /\ \A i, j \in 1 .. Len(todo'[p]) : todo'[p][i] = todo'[p][j] => i = j
         /\ todo'[p] = <<>> => pc'[p] # "close"
         /\ todo'[p] # <<>> => pc'[p] # "user"
         /\ \A q \in Procs : q # p => pc'[q] = pc[q] /\ todo'[q] = todo[q] /\ ff'[q] = ff[q]
         /\ \A h \in Files : h # f => file'[h] = file[h]
         /\ file'[f].ref = file[f].ref - 1
         /\ file'[f].pipe = file[f].pipe /\ (file'[f].writable <=> file[f].writable)
         /\ \/ /\ file'[f].type = file[f].type /\ (file'[f].ref = 0 => file[f].type = "none")
               /\ ff' = ff /\ pc'[p] \in {"user", "close"}
            \/ /\ file[f].ref = 1 /\ file[f].type # "none" /\ file'[f].type = "none"
               /\ ff'[p] = file[f] /\ pc'[p] = "pipeclose"
  BY FileCloseIs
<1>2. pc[p] = "close" /\ ff[p].type = "none" /\ run[p] # "unused" /\ arg[p].g = None
  BY DEF FileClose, Inv, CallsAgree, CallAgrees
<1>3. pc'[p] \in {"user", "close", "pipeclose"}
  BY <1>1
<1>4. \A q \in Procs : q # p => InHand(q)' = InHand(q)
  BY <1>1 DEF InHand
<1>5. RefsCounted'
  <2>1. \A h \in Files : Descriptors(h)' = Descriptors(h)
    BY <1>1 DEF Descriptors
  <2>2. file'[f].ref = Cardinality(Descriptors(f)') + Cardinality(Calls(f)')
    <3>1. Calls(f)' = Calls(f) \ {p} /\ p \in Calls(f)
      BY <1>1, <1>4 DEF Calls
    <3>2. /\ IsFiniteSet(Calls(f)) /\ Cardinality(Calls(f)) \in Nat
          /\ Cardinality(Descriptors(f)) \in Nat
      BY Counts
    <3>3. Cardinality(Calls(f)') = Cardinality(Calls(f)) - 1
      BY <3>1, <3>2, CardStep
    <3>4. file[f].ref = Cardinality(Descriptors(f)) + Cardinality(Calls(f))
      BY DEF Inv, RefsCounted
    <3>5. file'[f].ref = file[f].ref - 1 /\ Descriptors(f)' = Descriptors(f)
      BY <1>1, <2>1
    <3>. QED
      BY <3>2, <3>3, <3>4, <3>5
  <2>3. ASSUME NEW h \in Files, h # f
        PROVE  file'[h].ref = Cardinality(Descriptors(h)') + Cardinality(Calls(h)')
    <3>1. Calls(h)' = Calls(h)
      BY <1>1, <1>4, <2>3 DEF Calls
    <3>2. file'[h] = file[h]
      BY <1>1, <2>3
    <3>. QED
      BY <2>1, <3>1, <3>2 DEF Inv, RefsCounted
  <2>. QED
    BY <2>2, <2>3 DEF RefsCounted
<1>6. IrefCounted' /\ PipeFreedOnce' /\ EndsAgree'
  <2>1. CASE /\ file'[f].type = file[f].type /\ (file'[f].ref = 0 => file[f].type = "none") /\ ff' = ff
    <3>1. ASSUME NEW h \in Files
          PROVE  /\ file'[h].type = file[h].type /\ file'[h].pipe = file[h].pipe
                 /\ file'[h].writable <=> file[h].writable
                 /\ file[h].type # "none" => file'[h].ref > 0
      <4>1. CASE h = f
        BY <1>1, <2>1, <4>1
      <4>2. CASE h # f
        BY <1>1, <4>2, Typed
      <4>. QED
        BY <4>1, <4>2
    <3>. QED
      BY <1>1, <2>1, <3>1, TypesKept
  <2>2. CASE /\ file[f].ref = 1 /\ file[f].type # "none" /\ file'[f].type = "none" /\ ff'[p] = file[f]
    <3>1. file'[f].ref = 0 /\ file[f].ref > 0
      BY <1>1, <2>2
    <3>. QED
      BY <1>1, <1>2, <2>2, <3>1, LastReferenceMoves
  <2>. QED
    BY <1>1, <2>1, <2>2
<1>7. PipesAgree' /\ PipeSleepersHaveCause'
  <2>1. \A q \in Procs : pc'[q] # pc[q] =>
           pc[q] \notin Reading \cup Writing /\ pc'[q] \notin {"readAsleep", "writing", "writeAsleep"}
    BY <1>1, <1>2, <1>3 DEF Reading, Writing
  <2>2. \A h \in Files : file'[h].pipe = file[h].pipe
    BY <1>1
  <2>. QED
    BY <1>1, <2>1, <2>2, PipesKept
<1>8. CallsAgree'
  <2>1. ASSUME NEW q \in Procs, q # p PROVE CallAgrees(q)'
    <3>1. ASSUME NEW h \in Files, \E d \in FDs : ofile[q][d] = h, file[h].type = "pipe"
          PROVE  file'[h].type = "pipe" /\ (file'[h].writable <=> file[h].writable)
      <4>1. CASE h = f
        <5>1. file[f].ref >= 2
          BY <1>1, <3>1, <4>1, RefFacts
        <5>2. file'[f].type = file[f].type
          BY <1>1, <5>1
        <5>. QED
          BY <1>1, <3>1, <4>1, <5>2
      <4>2. CASE h # f
        BY <1>1, <3>1, <4>2
      <4>. QED
        BY <4>1, <4>2
    <3>. QED
      BY <1>1, <2>1, <3>1, CallKept
  <2>2. CallAgrees(p)'
    <3>1. ff'[p].type # "none" <=> pc'[p] = "pipeclose"
      BY <1>1, <1>2
    <3>. QED
      BY <1>1, <1>2, <1>3, <3>1 DEF CallAgrees, Creating, Reading, Writing
  <2>. QED
    BY <2>1, <2>2 DEF CallsAgree
<1>9. NewFilesAgree'
  <2>1. ASSUME NEW h \in Files, file'[h].ref = 0 PROVE file'[h].type = "none"
    <3>1. CASE h = f
      BY <1>1, <2>1, <3>1
    <3>2. CASE h # f
      BY <1>1, <2>1, <3>2 DEF Inv, NewFilesAgree
    <3>. QED
      BY <3>1, <3>2
  <2>2. ASSUME NEW q \in Procs, pc'[q] \in Creating, NEW h \in InHand(q)'
        PROVE  file'[h].ref = 1 /\ (pc'[q] # "pipe3" => file'[h].type = "none")
    <3>1. q # p
      BY <1>3, <2>2 DEF Creating
    <3>2. h \in InHand(q) /\ h \in Files /\ pc[q] \in Creating /\ pc'[q] = pc[q]
      BY <1>1, <1>4, <2>2, <3>1, HandIs DEF Inv
    <3>3. file[h].ref = 1
      BY <3>2 DEF Inv, NewFilesAgree
    <3>4. h # f
      BY <1>1, <3>1, <3>2, <3>3, RefFacts
    <3>5. file'[h] = file[h]
      BY <1>1, <3>2, <3>4
    <3>. QED
      BY <3>2, <3>5 DEF Inv, NewFilesAgree
  <2>. QED
    BY <2>1, <2>2 DEF NewFilesAgree
<1>. QED
  BY <1>1, <1>5, <1>6, <1>7, <1>8, <1>9 DEF Inv

-----------------------------------------------------------------------------
(* wakeup, pipeclose and kill *)

\* A process that goes on where it was, or leaves its sleep for the loop around it.
Woken(q) == \/ pc'[q] = pc[q]
            \/ pc[q] = "readAsleep" /\ pc'[q] = "read"
            \/ pc[q] = "writeAsleep" /\ pc'[q] = "write"

\* wakeup(&pi->nread) and wakeup(&pi->nwrite) wake the sleepers of one pipe.
LEMMA WakeIs ==
  ASSUME NEW p \in Procs, NEW a, NEW x,
         \/ pc' = [WakeReaders(a) EXCEPT ![p] = x]
         \/ pc' = [WakeWriters(a) EXCEPT ![p] = x]
  PROVE  /\ pc'[p] = x /\ DOMAIN pc' = Procs
         /\ \A q \in Procs : q # p => Woken(q)
<1>1. CASE pc' = [WakeReaders(a) EXCEPT ![p] = x]
  BY <1>1 DEF WakeReaders, Sleeps, Woken
<1>2. CASE pc' = [WakeWriters(a) EXCEPT ![p] = x]
  BY <1>2 DEF WakeWriters, Sleeps, Woken
<1>. QED
  BY <1>1, <1>2

\* No reader, no writer of the pipe sleeps after its wakeup.
LEMMA WakesAll ==
  ASSUME NEW p \in Procs, NEW a, NEW x
  PROVE  /\ pc' = [WakeReaders(a) EXCEPT ![p] = x] =>
              \A q \in Procs : q # p => ~(pc'[q] = "readAsleep" /\ PipeOf(q) = a)
         /\ pc' = [WakeWriters(a) EXCEPT ![p] = x] =>
              \A q \in Procs : q # p => ~(pc'[q] = "writeAsleep" /\ PipeOf(q) = a)
<1>1. ASSUME pc' = [WakeReaders(a) EXCEPT ![p] = x], NEW q \in Procs, q # p
      PROVE  ~(pc'[q] = "readAsleep" /\ PipeOf(q) = a)
  BY <1>1 DEF WakeReaders, Sleeps, PipeOf
<1>2. ASSUME pc' = [WakeWriters(a) EXCEPT ![p] = x], NEW q \in Procs, q # p
      PROVE  ~(pc'[q] = "writeAsleep" /\ PipeOf(q) = a)
  BY <1>2 DEF WakeWriters, Sleeps, PipeOf
<1>. QED
  BY <1>1, <1>2

\* What a wakeup leaves of the process it wakes.
LEMMA WokenKept ==
  ASSUME Inv, NEW q \in Procs, Woken(q), arg'[q] = arg[q], UNCHANGED <<file, ofile, run, todo>>,
         ff'[q] = ff[q]
  PROVE  /\ CallAgrees(q)' /\ InHand(q)' = InHand(q) /\ PipeOf(q)' = PipeOf(q)
         /\ pc'[q] = "writing" <=> pc[q] = "writing"
         /\ pc'[q] \in Creating => pc'[q] = pc[q]
         /\ pc'[q] \in {"user", "close", "pipeclose", "pipe1", "pipe2", "pipe3", "open1",
                        "read", "readAsleep", "write", "writing", "writeAsleep"}
<1>1. CallAgrees(q) /\ OpenFds(q)' = OpenFds(q)
  BY DEF Inv, CallsAgree, OpenFds
<1>2. pc[q] \in {"user", "close", "pipeclose", "pipe1", "pipe2", "pipe3", "open1",
                 "read", "readAsleep", "write", "writing", "writeAsleep"}
  BY DEF Inv, TypeOK
<1>3. /\ pc'[q] \in Reading <=> pc[q] \in Reading
      /\ pc'[q] \in Writing <=> pc[q] \in Writing
      /\ pc'[q] \in Creating <=> pc[q] \in Creating
      /\ pc'[q] \in {"close", "pipeclose", "user", "pipe2", "pipe3"} \/ pc[q] \in {"close", "pipeclose", "user", "pipe2", "pipe3"}
           => pc'[q] = pc[q]
  BY DEF Woken, Reading, Writing, Creating
<1>4. CallAgrees(q)'
  BY <1>1, <1>3 DEF CallAgrees
<1>5. InHand(q)' = InHand(q)
  BY <1>3 DEF InHand
<1>6. /\ pc'[q] = "writing" <=> pc[q] = "writing"
      /\ pc'[q] \in Creating => pc'[q] = pc[q]
      /\ pc'[q] \in {"user", "close", "pipeclose", "pipe1", "pipe2", "pipe3", "open1",
                     "read", "readAsleep", "write", "writing", "writeAsleep"}
  BY <1>2 DEF Woken, Creating
<1>7. PipeOf(q)' = PipeOf(q)
  BY DEF PipeOf
<1>. QED
  BY <1>4, <1>5, <1>6, <1>7

\* kill wakes a sleeper.
LEMMA KillInv ==
  ASSUME Inv, nofile' = nofile, NEW p \in Procs, Kill(p) PROVE Inv'
<1>1. /\ UNCHANGED <<file, iref, pipe, page, ofile, run, todo, ff, arg, panicked>>
      /\ killed' = [killed EXCEPT ![p] = TRUE] /\ DOMAIN pc' = Procs
      /\ pc'[p] = CASE pc[p] = "readAsleep"  -> "read"
                    [] pc[p] = "writeAsleep" -> "write"
                    [] OTHER -> pc[p]
      /\ \A q \in Procs : q # p => pc'[q] = pc[q]
  BY DEF Kill, fileVars, pipeVars, Inv, TypeOK
<1>2. ASSUME NEW q \in Procs PROVE Woken(q)
  BY <1>1 DEF Woken
<1>3. ASSUME NEW q \in Procs
      PROVE  /\ CallAgrees(q)' /\ InHand(q)' = InHand(q) /\ PipeOf(q)' = PipeOf(q)
             /\ pc'[q] = "writing" <=> pc[q] = "writing"
             /\ pc'[q] \in Creating => pc'[q] = pc[q]
             /\ pc'[q] \in {"user", "close", "pipeclose", "pipe1", "pipe2", "pipe3", "open1",
                            "read", "readAsleep", "write", "writing", "writeAsleep"}
  BY <1>1, <1>2, WokenKept
<1>4. TypeOK'
  <2>1. pc' \in [Procs -> {"user", "close", "pipeclose", "pipe1", "pipe2", "pipe3", "open1",
                           "read", "readAsleep", "write", "writing", "writeAsleep"}]
    <3>1. pc' = [q \in Procs |-> pc'[q]]
      BY DEF Kill, Inv, TypeOK
    <3>. QED
      BY <1>3, <3>1
  <2>2. killed' \in [Procs -> BOOLEAN]
    BY <1>1 DEF Inv, TypeOK
  <2>. QED
    BY <1>1, <2>1, <2>2 DEF Inv, TypeOK
<1>5. RefsCounted'
  BY <1>1, <1>3, RefsKept DEF Inv
<1>6. IrefCounted' /\ PipeFreedOnce' /\ EndsAgree'
  <2>1. \A f \in Files : file[f].type # "none" => file[f].ref > 0
    BY Typed
  <2>. QED
    BY <1>1, <2>1, TypesKept
<1>7. PipesAgree'
  <2>1. \A b \in Pages : Unread(b)' = Unread(b)
    BY <1>1 DEF Unread
  <2>. QED
    BY <1>1, <1>3, <2>1 DEF Inv, PipesAgree
<1>8. PipeSleepersHaveCause'
  <2>1. \A q \in Procs : (pc'[q] = "readAsleep" => pc[q] = "readAsleep") /\ (pc'[q] = "writeAsleep" => pc[q] = "writeAsleep")
    BY <1>2 DEF Woken
  <2>2. \A q \in Procs : PipeFull(PipeOf(q))' <=> PipeFull(PipeOf(q))
    BY <1>1, <1>3 DEF PipeFull
  <2>. QED
    BY <1>1, <1>3, <2>1, <2>2 DEF Inv, PipeSleepersHaveCause
<1>9. CallsAgree'
  BY <1>3 DEF CallsAgree
<1>10. NewFilesAgree'
  BY <1>1, <1>3 DEF Inv, NewFilesAgree
<1>. QED
  BY <1>1, <1>4, <1>5, <1>6, <1>7, <1>8, <1>9, <1>10 DEF Inv

\* iput: fileclose gives the inode reference back.
LEMMA InodeCloseInv ==
  ASSUME Inv, nofile' = nofile, NEW p \in Procs, pc[p] = "pipeclose", ff[p].type = "inode",
         iref' = iref - 1, pc' = [pc EXCEPT ![p] = Next1(p)], ff' = [ff EXCEPT ![p] = Closed],
         UNCHANGED <<file, pipe, page, ofile, run, killed, todo, arg, panicked>>
  PROVE  Inv'
<1>1. /\ ff' \in [Procs -> FileRecords] /\ ff'[p] = Closed /\ \A q \in Procs : q # p => ff'[q] = ff[q]
      /\ \A q \in Procs : q # p => pc'[q] = pc[q]
      /\ pc'[p] = IF todo[p] = <<>> THEN "user" ELSE "close"
      /\ pc' \in [Procs -> {"user", "close", "pipeclose", "pipe1", "pipe2", "pipe3", "open1",
                            "read", "readAsleep", "write", "writing", "writeAsleep"}]
  <2>1. Closed \in FileRecords
    BY DEF Closed, FileRecords
  <2>2. ff \in [Procs -> FileRecords] /\ DOMAIN pc = Procs
    BY DEF Inv, TypeOK
  <2>3. ff' \in [Procs -> FileRecords] /\ ff'[p] = Closed /\ \A q \in Procs : q # p => ff'[q] = ff[q]
    BY <2>1, <2>2
  <2>4. pc'[p] = Next1(p) /\ \A q \in Procs : q # p => pc'[q] = pc[q]
    BY <2>2
  <2>5. pc' \in [Procs -> {"user", "close", "pipeclose", "pipe1", "pipe2", "pipe3", "open1",
                           "read", "readAsleep", "write", "writing", "writeAsleep"}]
    BY DEF Inv, TypeOK, Next1
  <2>. QED
    BY <2>3, <2>4, <2>5 DEF Next1
<1>2. \A q \in Procs : InHand(q)' = InHand(q)
  BY <1>1 DEF InHand, Creating
<1>3. IrefCounted' /\ iref' \in Nat
  <2>1. IsFiniteSet(InodeFiles) /\ IsFiniteSet(InodeCloses)
    BY FilesAssumption, FS_Subset DEF InodeFiles, InodeCloses
  <2>2. Cardinality(InodeFiles) \in Nat /\ Cardinality(InodeCloses) \in Nat
    BY <2>1, FS_CardinalityType
  <2>3. InodeFiles' = InodeFiles
    BY DEF InodeFiles
  <2>4. InodeCloses' = InodeCloses \ {p} /\ p \in InodeCloses
    BY <1>1 DEF InodeCloses, Closed
  <2>5. Cardinality(InodeCloses') = Cardinality(InodeCloses) - 1
    BY <2>1, <2>4, CardStep
  <2>6. IsFiniteSet(InodeCloses \ {p})
    BY <2>1, FS_RemoveElement
  <2>7. Cardinality(InodeCloses') \in Nat
    BY <2>4, <2>6, FS_CardinalityType
  <2>. QED
    BY <2>2, <2>3, <2>5, <2>7 DEF Inv, IrefCounted
<1>4. TypeOK'
  BY <1>1, <1>3 DEF Inv, TypeOK
<1>5. RefsCounted'
  BY <1>2, RefsKept DEF Inv
<1>6. \A q \in Procs : ff'[q].type = "pipe" \/ ff[q].type = "pipe" => ff'[q] = ff[q] /\ q # p
  BY <1>1 DEF Closed
<1>7. PipeFreedOnce'
  <2>1. \A b \in Pages : (HasEnd(b, TRUE)' <=> HasEnd(b, TRUE)) /\ (HasEnd(b, FALSE)' <=> HasEnd(b, FALSE))
    BY <1>6 DEF HasEnd
  <2>. QED
    BY <2>1 DEF Inv, PipeFreedOnce
<1>8. EndsAgree'
  <2>1. \A q \in Procs : ff'[q].type = "pipe" => ff'[q].pipe \in Pages
    BY <1>6 DEF Inv, EndsAgree
  <2>2. \A q, s \in Procs :
          ff'[q].type = "pipe" /\ ff'[s].type = "pipe" /\ ff'[q].pipe = ff'[s].pipe
            /\ (ff'[q].writable <=> ff'[s].writable) => q = s
    BY <1>6 DEF Inv, EndsAgree
  <2>3. \A q \in Procs, h \in Files :
          ff'[q].type = "pipe" /\ file[h].type = "pipe" /\ ff'[q].pipe = file[h].pipe =>
            (ff'[q].writable <=> ~file[h].writable)
    BY <1>6 DEF Inv, EndsAgree
  <2>. QED
    BY <2>1, <2>2, <2>3 DEF Inv, EndsAgree
<1>9. PipesAgree' /\ PipeSleepersHaveCause'
  <2>1. \A q \in Procs : pc'[q] # pc[q] =>
           pc[q] \notin Reading \cup Writing /\ pc'[q] \notin {"readAsleep", "writing", "writeAsleep"}
    BY <1>1 DEF Reading, Writing
  <2>. QED
    BY <2>1, PipesKept
<1>10. CallsAgree'
  <2>1. ASSUME NEW q \in Procs, q # p PROVE CallAgrees(q)'
    BY <1>1, <2>1, CallKept
  <2>2. CallAgrees(p)'
    <3>1. CallAgrees(p) /\ OpenFds(p)' = OpenFds(p)
      BY DEF Inv, CallsAgree, OpenFds
    <3>2. ff'[p].type = "none"
      BY <1>1 DEF Closed
    <3>. QED
      BY <1>1, <3>1, <3>2 DEF CallAgrees, Creating, Reading, Writing
  <2>. QED
    BY <2>1, <2>2 DEF CallsAgree
<1>11. NewFilesAgree'
  <2>1. \A q \in Procs : pc'[q] \in Creating => pc'[q] = pc[q]
    BY <1>1 DEF Creating
  <2>. QED
    BY <1>2, <2>1 DEF Inv, NewFilesAgree
<1>. QED
  BY <1>3, <1>4, <1>5, <1>7, <1>8, <1>9, <1>10, <1>11 DEF Inv

\* pipeclose: the end is gone, and the page with the second one.
LEMMA EndCloseInv ==
  ASSUME Inv, nofile' = nofile, NEW p \in Procs, NEW a, NEW w, pc[p] = "pipeclose", ff[p].type = "pipe",
         a = ff[p].pipe, w = ff[p].writable, pipe[a].lock = None,
         pc' = [ClosedEnd(a, w) EXCEPT ![p] = Next1(p)],
         IF IF w THEN pipe[a].readopen ELSE pipe[a].writeopen
           THEN /\ pipe' = [pipe EXCEPT ![a].writeopen = @ /\ ~w, ![a].readopen = @ /\ w]
                /\ UNCHANGED page
           ELSE pipe' = [pipe EXCEPT ![a] = Junk] /\ page' = page \ {a},
         ff' = [ff EXCEPT ![p] = Closed],
         UNCHANGED <<file, iref, ofile, run, killed, todo, arg, panicked>>
  PROVE  Inv'
<1>1. a \in Pages /\ a \in page /\ w \in BOOLEAN /\ pipe[a] \in PipeRecords
  BY EndsInPage DEF Inv, TypeOK, FileRecords
<1>2. (IF w THEN pipe[a].readopen ELSE pipe[a].writeopen) <=> HasEnd(a, ~w)
  BY <1>1 DEF Inv, PipeFreedOnce
<1>3. /\ \A f \in Files : file[f].type = "pipe" /\ file[f].pipe = a => (file[f].writable <=> ~w)
      /\ \A q \in Procs : q # p /\ ff[q].type = "pipe" /\ ff[q].pipe = a => (ff[q].writable <=> ~w)
  BY <1>1 DEF Inv, EndsAgree
<1>4. /\ pc'[p] = Next1(p) /\ DOMAIN pc' = Procs
      /\ \A q \in Procs : q # p => Woken(q)
      /\ \A q \in Procs : q # p => ~(w /\ pc'[q] = "readAsleep" /\ PipeOf(q) = a)
      /\ \A q \in Procs : q # p => ~(~w /\ pc'[q] = "writeAsleep" /\ PipeOf(q) = a)
  <2>1. CASE w
    BY <2>1, WakeIs, WakesAll DEF ClosedEnd
  <2>2. CASE ~w
    BY <2>2, WakeIs, WakesAll DEF ClosedEnd
  <2>. QED
    BY <2>1, <2>2
<1>5. /\ ff' \in [Procs -> FileRecords] /\ ff'[p] = Closed /\ \A q \in Procs : q # p => ff'[q] = ff[q]
  <2>1. Closed \in FileRecords
    BY DEF Closed, FileRecords
  <2>2. ff \in [Procs -> FileRecords]
    BY DEF Inv, TypeOK
  <2>. QED
    BY <2>1, <2>2
<1>6. ASSUME NEW q \in Procs, q # p
      PROVE  /\ CallAgrees(q)' /\ InHand(q)' = InHand(q) /\ PipeOf(q)' = PipeOf(q)
             /\ pc'[q] = "writing" <=> pc[q] = "writing"
             /\ pc'[q] \in Creating => pc'[q] = pc[q]
             /\ pc'[q] \in {"user", "close", "pipeclose", "pipe1", "pipe2", "pipe3", "open1",
                            "read", "readAsleep", "write", "writing", "writeAsleep"}
  BY <1>4, <1>5, <1>6, WokenKept
<1>7. pc'[p] = IF todo[p] = <<>> THEN "user" ELSE "close"
  BY <1>4 DEF Next1
<1>8. \A q \in Procs : InHand(q)' = InHand(q)
  <2>1. InHand(p)' = InHand(p)
    BY <1>7 DEF InHand, Creating
  <2>. QED
    BY <1>6, <2>1
<1>9. /\ pipe' \in [Pages -> PipeRecords] /\ pipe'[a].lock = None
      /\ \A b \in Pages : b # a => pipe'[b] = pipe[b]
      /\ \/ HasEnd(a, ~w) /\ page' = page /\ Unread(a)' = Unread(a)
            /\ (pipe'[a].writeopen <=> ~w) /\ (pipe'[a].readopen <=> w)
         \/ ~HasEnd(a, ~w) /\ page' = page \ {a} /\ Unread(a)' = 0
  <2>0. pipe \in [Pages -> PipeRecords]
    BY DEF Inv, TypeOK
  <2>1. CASE HasEnd(a, ~w)
    <3>. DEFINE r == [pipe[a] EXCEPT !.writeopen = @ /\ ~w, !.readopen = @ /\ w]
    <3>1. pipe' = [pipe EXCEPT ![a] = r] /\ page' = page
      BY <1>1, <1>2, <2>0, <2>1
    <3>2. r \in PipeRecords
      BY <1>1 DEF PipeRecords
    <3>3. /\ r.lock = None /\ r.nwrite = pipe[a].nwrite /\ r.nread = pipe[a].nread
          /\ r.writeopen <=> (pipe[a].writeopen /\ ~w)
          /\ r.readopen <=> (pipe[a].readopen /\ w)
      BY <1>1 DEF PipeRecords
    <3>. HIDE DEF r
    <3>4. pipe' \in [Pages -> PipeRecords] /\ pipe'[a] = r /\ \A b \in Pages : b # a => pipe'[b] = pipe[b]
      BY <1>1, <2>0, <3>1, <3>2
    <3>5. Unread(a)' = Unread(a)
      <4>1. Unread(a)' = (pipe'[a].nwrite - pipe'[a].nread) % Wrap
        BY DEF Unread
      <4>. QED
        BY <3>3, <3>4, <4>1 DEF Unread
    <3>6. (w => pipe[a].readopen) /\ (~w => pipe[a].writeopen)
      BY <1>2, <2>1
    <3>7. (r.writeopen <=> ~w) /\ (r.readopen <=> w)
      BY <3>3, <3>6
    <3>. QED
      BY <2>1, <3>1, <3>3, <3>4, <3>5, <3>7
  <2>2. CASE ~HasEnd(a, ~w)
    <3>1. pipe' = [pipe EXCEPT ![a] = NewPipe] /\ page' = page \ {a}
      BY <1>2, <2>2 DEF Junk
    <3>2. NewPipe \in PipeRecords
      BY FilesAssumption DEF NewPipe, PipeRecords, Bytes
    <3>3. pipe' \in [Pages -> PipeRecords] /\ pipe'[a] = NewPipe /\ \A b \in Pages : b # a => pipe'[b] = pipe[b]
      BY <1>1, <2>0, <3>1, <3>2
    <3>4. Unread(a)' = 0 /\ pipe'[a].lock = None
      <4>1. Unread(a)' = (pipe'[a].nwrite - pipe'[a].nread) % Wrap
        BY DEF Unread
      <4>2. pipe'[a].nwrite = 0 /\ pipe'[a].nread = 0 /\ pipe'[a].lock = None
        BY <3>3 DEF NewPipe
      <4>3. Wrap \in Nat /\ Wrap > 0
        BY FilesAssumption
      <4>. QED
        BY <4>1, <4>2, <4>3
    <3>. QED
      BY <2>2, <3>1, <3>3, <3>4
  <2>. QED
    BY <2>1, <2>2
<1>10. TypeOK'
  <2>1. pc' \in [Procs -> {"user", "close", "pipeclose", "pipe1", "pipe2", "pipe3", "open1",
                           "read", "readAsleep", "write", "writing", "writeAsleep"}]
    <3>1. pc' = [q \in Procs |-> pc'[q]]
      BY DEF ClosedEnd, WakeReaders, WakeWriters
    <3>2. \A q \in Procs : pc'[q] \in {"user", "close", "pipeclose", "pipe1", "pipe2", "pipe3", "open1",
                           "read", "readAsleep", "write", "writing", "writeAsleep"}
      BY <1>6, <1>7
    <3>. QED
      BY <3>1, <3>2
  <2>2. page' \subseteq Pages
    BY <1>9 DEF Inv, TypeOK
  <2>. QED
    BY <1>5, <1>9, <2>1, <2>2 DEF Inv, TypeOK
<1>11. RefsCounted'
  BY <1>8, RefsKept DEF Inv
<1>12. IrefCounted'
  <2>1. InodeFiles' = InodeFiles /\ InodeCloses' = InodeCloses
    BY <1>5 DEF InodeFiles, InodeCloses, Closed
  <2>. QED
    BY <2>1 DEF Inv, IrefCounted
<1>13. /\ ~HasEnd(a, w)' /\ (HasEnd(a, ~w)' <=> HasEnd(a, ~w))
       /\ \A b \in Pages, v \in BOOLEAN : b # a => (HasEnd(b, v)' <=> HasEnd(b, v))
  <2>0. /\ ff'[p].type = "none"
        /\ \A q \in Procs : ff'[q].type = "pipe" => q # p /\ ff'[q] = ff[q]
    BY <1>5 DEF Closed
  <2>1. ~HasEnd(a, w)'
    BY <1>3, <2>0 DEF HasEnd
  <2>2. ASSUME NEW b \in Pages, NEW v \in BOOLEAN, b # a \/ v # w PROVE HasEnd(b, v)' <=> HasEnd(b, v)
    <3>1. (\E q \in Procs : ff'[q].type = "pipe" /\ ff'[q].pipe = b /\ (ff'[q].writable <=> v)) <=>
          (\E q \in Procs : ff[q].type = "pipe" /\ ff[q].pipe = b /\ (ff[q].writable <=> v))
      <4>1. ~(ff[p].type = "pipe" /\ ff[p].pipe = b /\ (ff[p].writable <=> v))
        BY <1>1, <2>2
      <4>. QED
        BY <1>5, <2>0, <4>1
    <3>. QED
      BY <3>1 DEF HasEnd
  <2>. QED
    BY <1>1, <2>1, <2>2
<1>14. PipeFreedOnce'
  <2>1. ASSUME NEW b \in Pages, b # a
        PROVE  /\ b \in page' <=> HasEnd(b, TRUE)' \/ HasEnd(b, FALSE)'
               /\ b \in page' => /\ pipe'[b].writeopen <=> HasEnd(b, TRUE)'
                                 /\ pipe'[b].readopen <=> HasEnd(b, FALSE)'
    <3>1. /\ HasEnd(b, TRUE)' <=> HasEnd(b, TRUE)
          /\ HasEnd(b, FALSE)' <=> HasEnd(b, FALSE)
          /\ pipe'[b] = pipe[b] /\ (b \in page' <=> b \in page)
      BY <1>9, <1>13, <2>1
    <3>. QED
      BY <3>1 DEF Inv, PipeFreedOnce
  <2>2. /\ a \in page' <=> HasEnd(a, TRUE)' \/ HasEnd(a, FALSE)'
        /\ a \in page' => /\ pipe'[a].writeopen <=> HasEnd(a, TRUE)'
                          /\ pipe'[a].readopen <=> HasEnd(a, FALSE)'
    <3>1. CASE w = TRUE
      BY <1>1, <1>9, <1>13, <3>1
    <3>2. CASE w = FALSE
      BY <1>1, <1>9, <1>13, <3>2
    <3>. QED
      BY <1>1, <3>1, <3>2
  <2>. QED
    BY <2>1, <2>2 DEF PipeFreedOnce
<1>15. EndsAgree'
  <2>0. \A q \in Procs : ff'[q].type = "pipe" => ff'[q] = ff[q]
    BY <1>5 DEF Closed
  <2>1. \A q \in Procs : ff'[q].type = "pipe" => ff'[q].pipe \in Pages
    BY <2>0 DEF Inv, EndsAgree
  <2>2. \A q, s \in Procs :
          ff'[q].type = "pipe" /\ ff'[s].type = "pipe" /\ ff'[q].pipe = ff'[s].pipe
            /\ (ff'[q].writable <=> ff'[s].writable) => q = s
    BY <2>0 DEF Inv, EndsAgree
  <2>3. \A q \in Procs, h \in Files :
          ff'[q].type = "pipe" /\ file[h].type = "pipe" /\ ff'[q].pipe = file[h].pipe =>
            (ff'[q].writable <=> ~file[h].writable)
    BY <2>0 DEF Inv, EndsAgree
  <2>. QED
    BY <2>1, <2>2, <2>3 DEF Inv, EndsAgree
<1>16. PipesAgree'
  <2>1. ASSUME NEW b \in Pages, NEW q \in Procs
        PROVE  pipe'[b].lock = q <=> pc'[q] = "writing" /\ PipeOf(q)' = b
    <3>1. pipe[b].lock = q <=> pc[q] = "writing" /\ PipeOf(q) = b
      BY DEF Inv, PipesAgree
    <3>2. pipe'[b].lock = pipe[b].lock
      BY <1>9
    <3>3. pc'[q] = "writing" <=> pc[q] = "writing"
      BY <1>6, <1>7
    <3>4. pc[q] = "writing" => PipeOf(q)' = PipeOf(q)
      BY <1>6
    <3>. QED
      BY <3>1, <3>2, <3>3, <3>4
  <2>2. ASSUME NEW b \in Pages PROVE Unread(b)' <= PIPESIZE
    <3>1. Unread(b)' = Unread(b) \/ Unread(b)' = 0
      <4>1. CASE b # a
        BY <1>9, <4>1 DEF Unread
      <4>. QED
        BY <1>9, <4>1, SMTT(30)
    <3>2. Unread(b) <= PIPESIZE /\ 0 <= PIPESIZE
      BY FilesAssumption DEF Inv, PipesAgree
    <3>. QED
      BY <3>1, <3>2
  <2>. QED
    BY <2>1, <2>2 DEF PipesAgree
<1>17. PipeSleepersHaveCause'
  <2>0. \A q \in Procs : (pc'[q] = "readAsleep" => pc[q] = "readAsleep") /\ (pc'[q] = "writeAsleep" => pc[q] = "writeAsleep")
    BY <1>4, <1>7 DEF Woken
  <2>1. ASSUME NEW q \in Procs, pc'[q] \in {"readAsleep", "writeAsleep"}
        PROVE  PipeOf(q) \in Pages /\ PipeOf(q) # a /\ pc'[q] = pc[q] /\ PipeOf(q)' = PipeOf(q)
    <3>0. q # p /\ pc'[q] = pc[q]
      BY <1>7, <2>0, <2>1
    <3>1. /\ arg[q].f \in Files /\ file[arg[q].f].type = "pipe" /\ PipeOf(q) = file[arg[q].f].pipe
          /\ PipeOf(q) \in Pages
          /\ file[arg[q].f].writable <=> pc[q] = "writeAsleep"
      BY <2>1, <3>0, PipeCallIs DEF Reading, Writing
    <3>2. PipeOf(q) # a
      BY <1>3, <1>4, <2>1, <3>0, <3>1
    <3>. QED
      BY <1>6, <3>0, <3>1, <3>2
  <2>2. ASSUME NEW q \in Procs, pc'[q] = "readAsleep" PROVE pipe'[PipeOf(q)'].writeopen
    BY <1>9, <2>1, <2>2 DEF Inv, PipeSleepersHaveCause
  <2>3. ASSUME NEW q \in Procs, pc'[q] = "writeAsleep"
        PROVE  PipeFull(PipeOf(q))' /\ pipe'[PipeOf(q)'].readopen
    BY <1>9, <2>1, <2>3 DEF Inv, PipeSleepersHaveCause, PipeFull
  <2>. QED
    BY <2>2, <2>3 DEF PipeSleepersHaveCause
<1>18. CallsAgree'
  <2>1. CallAgrees(p)'
    <3>1. CallAgrees(p) /\ OpenFds(p)' = OpenFds(p)
      BY DEF Inv, CallsAgree, OpenFds
    <3>2. ff'[p].type = "none"
      BY <1>5 DEF Closed
    <3>. QED
      BY <1>7, <3>1, <3>2 DEF CallAgrees, Creating, Reading, Writing
  <2>. QED
    BY <1>6, <2>1 DEF CallsAgree
<1>19. NewFilesAgree'
  <2>1. \A q \in Procs : pc'[q] \in Creating => pc'[q] = pc[q]
    BY <1>6, <1>7 DEF Creating
  <2>. QED
    BY <1>8, <2>1 DEF Inv, NewFilesAgree
<1>. QED
  BY <1>10, <1>11, <1>12, <1>14, <1>15, <1>16, <1>17, <1>18, <1>19 DEF Inv

\* The rest of fileclose.
LEMMA PipeCloseInv ==
  ASSUME Inv, nofile' = nofile, NEW p \in Procs, PipeClose(p) PROVE Inv'
<1>1. CASE ff[p].type = "pipe"
  BY <1>1, EndCloseInv DEF PipeClose, procVars
<1>2. CASE ff[p].type = "inode"
  BY <1>2, InodeCloseInv DEF PipeClose, procVars
<1>. QED
  BY <1>1, <1>2 DEF PipeClose

-----------------------------------------------------------------------------
(* Counters that wrap around *)

\* nwrite - nread as an unsigned number.
LEMMA RingIs ==
  ASSUME NEW W \in Nat \ {0}, NEW r \in 0 .. W - 1, NEW w \in 0 .. W - 1
  PROVE  (w - r) % W = IF r <= w THEN w - r ELSE (w - r) + W
<1>1. CASE r <= w
  BY <1>1
<1>2. CASE w < r
  BY <1>2
<1>. QED
  BY <1>1, <1>2

\* A counter that goes on by less than once around.
LEMMA RingPlus ==
  ASSUME NEW W \in Nat \ {0}, NEW r \in 0 .. W - 1, NEW k \in 0 .. W - 1
  PROVE  (r + k) % W = IF r + k < W THEN r + k ELSE (r + k) - W
<1>1. CASE r + k < W
  BY <1>1
<1>2. CASE W <= r + k
  BY <1>2
<1>. QED
  BY <1>1, <1>2

\* nwrite == nread + k says that there are k bytes.
LEMMA RingFull ==
  ASSUME NEW W \in Nat \ {0}, NEW r \in 0 .. W - 1, NEW w \in 0 .. W - 1, NEW k \in 0 .. W - 1
  PROVE  w = (r + k) % W <=> (w - r) % W = k
<1>1. (r + k) % W = IF r + k < W THEN r + k ELSE (r + k) - W
  BY RingPlus
<1>2. (w - r) % W = IF r <= w THEN w - r ELSE (w - r) + W
  BY RingIs
<1>. QED
  BY <1>1, <1>2

\* k bytes are read.
LEMMA RingRead ==
  ASSUME NEW W \in Nat \ {0}, NEW r \in 0 .. W - 1, NEW w \in 0 .. W - 1, NEW k \in 0 .. W - 1,
         k <= (w - r) % W
  PROVE  (r + k) % W \in 0 .. W - 1 /\ (w - ((r + k) % W)) % W = ((w - r) % W) - k
<1>1. (r + k) % W = IF r + k < W THEN r + k ELSE (r + k) - W
  BY RingPlus
<1>2. (w - r) % W = IF r <= w THEN w - r ELSE (w - r) + W
  BY RingIs
<1>3. PICK z \in 0 .. W - 1 : z = (r + k) % W
  BY <1>1
<1>4. (w - z) % W = IF z <= w THEN w - z ELSE (w - z) + W
  BY RingIs
<1>. QED
  BY <1>1, <1>2, <1>3, <1>4

\* A byte is written.
LEMMA RingWrite ==
  ASSUME NEW W \in Nat \ {0}, NEW r \in 0 .. W - 1, NEW w \in 0 .. W - 1, ((w - r) % W) + 1 < W
  PROVE  (w + 1) % W \in 0 .. W - 1 /\ (((w + 1) % W) - r) % W = ((w - r) % W) + 1
<1>1. (w + 1) % W = IF w + 1 < W THEN w + 1 ELSE (w + 1) - W
  <2>1. CASE w + 1 < W
    BY <2>1
  <2>2. CASE w + 1 = W
    BY <2>2
  <2>. QED
    BY <2>1, <2>2
<1>2. (w - r) % W = IF r <= w THEN w - r ELSE (w - r) + W
  BY RingIs
<1>3. PICK z \in 0 .. W - 1 : z = (w + 1) % W
  BY <1>1
<1>4. (z - r) % W = IF r <= z THEN z - r ELSE (z - r) + W
  BY RingIs
<1>. QED
  BY <1>1, <1>2, <1>3, <1>4

\* The constants of a pipe.
LEMMA Sizes ==
  /\ Wrap \in Nat \ {0} /\ PIPESIZE \in Nat \ {0} /\ PIPESIZE < Wrap /\ Bytes = 0 .. Wrap - 1
  /\ \E c \in Nat : Wrap = PIPESIZE * c
<1>1. PICK c \in 2 .. Wrap : Wrap = c * PIPESIZE
  BY FilesAssumption
<1>2. Wrap \in Nat /\ PIPESIZE \in Nat \ {0} /\ c \in Nat /\ c >= 2
  BY <1>1, FilesAssumption
<1>3. Wrap >= PIPESIZE + PIPESIZE
  <2>1. PICK e \in Nat : c = e + 2
    BY <1>2
  <2>2. Wrap = (e * PIPESIZE) + PIPESIZE + PIPESIZE /\ e * PIPESIZE \in Nat
    BY <1>1, <1>2, <2>1
  <2>. QED
    BY <1>2, <2>2
<1>4. Wrap = PIPESIZE * c
  BY <1>1, <1>2
<1>. QED
  BY <1>2, <1>3, <1>4 DEF Bytes

\* nwrite is nread and what is between them.
LEMMA CounterIs ==
  ASSUME NEW x \in 0 .. Wrap - 1, NEW w \in 0 .. Wrap - 1, NEW k \in 0 .. Wrap - 1, (w - x) % Wrap = k
  PROVE  w = (x + k) % Wrap
<1>1. Wrap \in Nat \ {0}
  BY Sizes
<1>2. (w = (x + k) % Wrap) <=> ((w - x) % Wrap = k)
  BY <1>1, RingFull
<1>. QED
  BY <1>2

\* piperead's counter.
LEMMA CounterRead ==
  ASSUME NEW x \in 0 .. Wrap - 1, NEW w \in 0 .. Wrap - 1, NEW k \in 0 .. Wrap - 1, k <= (w - x) % Wrap
  PROVE  (x + k) % Wrap \in 0 .. Wrap - 1 /\ (w - ((x + k) % Wrap)) % Wrap = ((w - x) % Wrap) - k
<1>1. Wrap \in Nat \ {0}
  BY Sizes
<1>. QED
  BY <1>1, RingRead, ZenonT(60)

\* pipewrite's counter.
LEMMA CounterWritten ==
  ASSUME NEW x \in 0 .. Wrap - 1, NEW w \in 0 .. Wrap - 1, ((w - x) % Wrap) + 1 < Wrap
  PROVE  (w + 1) % Wrap \in 0 .. Wrap - 1 /\ (((w + 1) % Wrap) - x) % Wrap = ((w - x) % Wrap) + 1
<1>1. Wrap \in Nat \ {0}
  BY Sizes
<1>. QED
  BY <1>1, RingWrite

\* The counters of a pipe, and what is between them.
LEMMA PipeIs ==
  ASSUME Inv, NEW a \in Pages
  PROVE  /\ pipe[a] \in PipeRecords /\ pipe[a].nread \in 0 .. Wrap - 1 /\ pipe[a].nwrite \in 0 .. Wrap - 1
         /\ Unread(a) \in 0 .. PIPESIZE
         /\ PipeFull(a) <=> Unread(a) = PIPESIZE
<1>1. pipe[a] \in PipeRecords /\ pipe[a].nread \in 0 .. Wrap - 1 /\ pipe[a].nwrite \in 0 .. Wrap - 1
  BY DEF Inv, TypeOK, PipeRecords, Bytes
<1>2. PICK r \in 0 .. Wrap - 1, w \in 0 .. Wrap - 1 : r = pipe[a].nread /\ w = pipe[a].nwrite
  BY <1>1
<1>3. Unread(a) = (w - r) % Wrap /\ Unread(a) <= PIPESIZE
  BY <1>2 DEF Unread, Inv, PipesAgree
<1>4. (w - r) % Wrap \in Nat
  BY RingIs, Sizes
<1>5. Unread(a) \in 0 .. PIPESIZE
  BY <1>3, <1>4, Sizes
<1>6. Wrap \in Nat \ {0} /\ \E k \in 0 .. Wrap - 1 : k = PIPESIZE
  BY Sizes
<1>7. PICK k \in 0 .. Wrap - 1 : k = PIPESIZE
  BY <1>6
<1>8. (w = (r + k) % Wrap) <=> ((w - r) % Wrap = k)
  BY <1>6, RingFull
<1>. QED
  BY <1>1, <1>2, <1>3, <1>5, <1>7, <1>8 DEF PipeFull

-----------------------------------------------------------------------------
(* read and write *)

\* A step of a call on a pipe: it changes no end, and what it does to the lock, the bytes
\* and the sleepers agrees.
LEMMA PipeCallInv ==
  ASSUME Inv, nofile' = nofile, NEW p \in Procs, NEW a \in Pages, pc[p] \in Reading \cup Writing, PipeOf(p) = a,
         UNCHANGED <<file, iref, page, ofile, run, todo, ff, panicked>>, killed' \in [Procs -> BOOLEAN],
         pipe' \in [Pages -> PipeRecords], \A b \in Pages : b # a => pipe'[b] = pipe[b],
         pipe'[a].readopen <=> pipe[a].readopen, pipe'[a].writeopen <=> pipe[a].writeopen,
         arg' \in [Procs -> [f : Files \cup {None}, g : Files \cup {None}, n : 0 .. MaxWrite]],
         \A q \in Procs : q # p => Woken(q) /\ arg'[q] = arg[q],
         \/ pc'[p] = "user" /\ arg'[p] = NoArg
         \/ /\ arg'[p].f = arg[p].f /\ arg'[p].g = arg[p].g
            /\ \/ pc[p] \in Reading /\ pc'[p] \in Reading
               \/ pc[p] \in Writing /\ pc'[p] \in Writing,
         pc' = [q \in Procs |-> pc'[q]],
         Unread(a)' <= PIPESIZE,
         \A q \in Procs : pipe'[a].lock = q <=> pc'[q] = "writing" /\ PipeOf(q) = a,
         \A q \in Procs : PipeOf(q) = a =>
            /\ pc'[q] = "readAsleep" => pipe[a].writeopen
            /\ pc'[q] = "writeAsleep" => PipeFull(a)' /\ pipe[a].readopen
  PROVE  Inv'
<1>1. ASSUME NEW q \in Procs, q # p
      PROVE  /\ CallAgrees(q)' /\ InHand(q)' = InHand(q) /\ PipeOf(q)' = PipeOf(q)
             /\ pc'[q] = "writing" <=> pc[q] = "writing"
             /\ pc'[q] \in Creating => pc'[q] = pc[q]
             /\ pc'[q] \in {"user", "close", "pipeclose", "pipe1", "pipe2", "pipe3", "open1",
                            "read", "readAsleep", "write", "writing", "writeAsleep"}
  BY <1>1, WokenKept
<1>2. /\ pc[p] \notin Creating \cup {"close", "pipeclose", "user"}
      /\ pc'[p] \in {"user"} \cup Reading \cup Writing /\ pc'[p] \notin Creating \cup {"close", "pipeclose"}
      /\ pc'[p] \in {"user", "close", "pipeclose", "pipe1", "pipe2", "pipe3", "open1",
                     "read", "readAsleep", "write", "writing", "writeAsleep"}
  BY DEF Reading, Writing, Creating
<1>3. CallAgrees(p) /\ OpenFds(p)' = OpenFds(p)
  BY DEF Inv, CallsAgree, OpenFds
<1>4. TypeOK'
  <2>1. pc' \in [Procs -> {"user", "close", "pipeclose", "pipe1", "pipe2", "pipe3", "open1",
                           "read", "readAsleep", "write", "writing", "writeAsleep"}]
    <3>1. \A q \in Procs : pc'[q] \in {"user", "close", "pipeclose", "pipe1", "pipe2", "pipe3", "open1",
                           "read", "readAsleep", "write", "writing", "writeAsleep"}
      BY <1>1, <1>2
    <3>. QED
      BY <3>1
  <2>. QED
    BY <2>1 DEF Inv, TypeOK
<1>5. \A q \in Procs : InHand(q)' = InHand(q)
  <2>1. InHand(p)' = InHand(p)
    BY <1>2 DEF InHand
  <2>. QED
    BY <1>1, <2>1
<1>6. RefsCounted'
  BY <1>5, RefsKept DEF Inv
<1>7. IrefCounted'
  <2>1. InodeFiles' = InodeFiles /\ InodeCloses' = InodeCloses
    BY DEF InodeFiles, InodeCloses
  <2>. QED
    BY <2>1 DEF Inv, IrefCounted
<1>8. PipeFreedOnce'
  <2>1. \A b \in Pages : (HasEnd(b, TRUE)' <=> HasEnd(b, TRUE)) /\ (HasEnd(b, FALSE)' <=> HasEnd(b, FALSE))
    BY DEF HasEnd
  <2>2. \A b \in Pages : (pipe'[b].readopen <=> pipe[b].readopen) /\ (pipe'[b].writeopen <=> pipe[b].writeopen)
    OBVIOUS
  <2>. QED
    BY <2>1, <2>2 DEF Inv, PipeFreedOnce
<1>9. EndsAgree'
  BY DEF Inv, EndsAgree
<1>10. pc'[p] # "user" => PipeOf(p)' = PipeOf(p)
  BY DEF PipeOf
<1>11. PipesAgree'
  <2>1. ASSUME NEW b \in Pages, NEW q \in Procs
        PROVE  pipe'[b].lock = q <=> pc'[q] = "writing" /\ PipeOf(q)' = b
    <3>1. pc'[q] = "writing" => PipeOf(q)' = PipeOf(q)
      BY <1>1, <1>10
    <3>2. CASE b = a
      BY <3>1, <3>2
    <3>3. CASE b # a
      <4>1. pipe[b].lock = q <=> pc[q] = "writing" /\ PipeOf(q) = b
        BY DEF Inv, PipesAgree
      <4>2. pipe'[b] = pipe[b]
        BY <3>3
      <4>3. q # p => (pc'[q] = "writing" <=> pc[q] = "writing")
        BY <1>1
      <4>. QED
        BY <3>1, <3>3, <4>1, <4>2, <4>3
    <3>. QED
      BY <3>2, <3>3
  <2>2. ASSUME NEW b \in Pages PROVE Unread(b)' <= PIPESIZE
    <3>1. CASE b = a
      BY <3>1
    <3>2. CASE b # a
      <4>1. Unread(b)' = Unread(b)
        BY <3>2 DEF Unread
      <4>. QED
        BY <4>1 DEF Inv, PipesAgree
    <3>. QED
      BY <3>1, <3>2
  <2>. QED
    BY <2>1, <2>2 DEF PipesAgree
<1>12. PipeSleepersHaveCause'
  <2>0. ASSUME NEW q \in Procs, pc'[q] \in {"readAsleep", "writeAsleep"}
        PROVE  PipeOf(q)' = PipeOf(q) /\ PipeOf(q) \in Pages /\ (PipeOf(q) # a => pc'[q] = pc[q])
    <3>1. CASE q = p
      BY <1>10, <2>0, <3>1
    <3>2. CASE q # p
      <4>1. pc'[q] = pc[q]
        BY <2>0, <3>2 DEF Woken
      <4>2. PipeOf(q) \in Pages
        BY <2>0, <4>1, PipeCallIs DEF Reading, Writing
      <4>. QED
        BY <1>1, <3>2, <4>1, <4>2
    <3>. QED
      BY <3>1, <3>2
  <2>1. ASSUME NEW q \in Procs, pc'[q] = "readAsleep" PROVE pipe'[PipeOf(q)'].writeopen
    <3>1. CASE PipeOf(q) = a
      BY <2>0, <2>1, <3>1
    <3>2. CASE PipeOf(q) # a
      BY <2>0, <2>1, <3>2 DEF Inv, PipeSleepersHaveCause
    <3>. QED
      BY <3>1, <3>2
  <2>2. ASSUME NEW q \in Procs, pc'[q] = "writeAsleep"
        PROVE  PipeFull(PipeOf(q))' /\ pipe'[PipeOf(q)'].readopen
    <3>1. CASE PipeOf(q) = a
      BY <2>0, <2>2, <3>1 DEF PipeFull
    <3>2. CASE PipeOf(q) # a
      BY <2>0, <2>2, <3>2 DEF Inv, PipeSleepersHaveCause, PipeFull
    <3>. QED
      BY <3>1, <3>2
  <2>. QED
    BY <2>1, <2>2 DEF PipeSleepersHaveCause
<1>13. CallsAgree'
  <2>1. CASE pc'[p] = "user" /\ arg'[p] = NoArg
    <3>1. CallAgrees(p)'
      BY <1>2, <1>3, <2>1 DEF CallAgrees, NoArg, Creating, Reading, Writing
    <3>. QED
      BY <1>1, <3>1 DEF CallsAgree
  <2>2. CASE /\ arg'[p].f = arg[p].f /\ arg'[p].g = arg[p].g
             /\ \/ pc[p] \in Reading /\ pc'[p] \in Reading
                \/ pc[p] \in Writing /\ pc'[p] \in Writing
    <3>1. pc'[p] \in Writing <=> pc[p] \in Writing
      BY <2>2 DEF Reading, Writing
    <3>2. CallAgrees(p)'
      BY <1>2, <1>3, <2>2, <3>1 DEF CallAgrees, Creating, Reading, Writing
    <3>. QED
      BY <1>1, <3>2 DEF CallsAgree
  <2>. QED
    BY <2>1, <2>2
<1>14. NewFilesAgree'
  <2>1. \A q \in Procs : pc'[q] \in Creating => pc'[q] = pc[q]
    BY <1>1, <1>2
  <2>. QED
    BY <1>5, <2>1 DEF Inv, NewFilesAgree
<1>. QED
  BY <1>4, <1>6, <1>7, <1>8, <1>9, <1>11, <1>12, <1>13, <1>14 DEF Inv

\* piperead.
LEMMA PipeReadInv ==
  ASSUME Inv, nofile' = nofile, NEW p \in Procs, NEW k \in 0 .. PIPESIZE, PipeRead(p, k) PROVE Inv'
<1>1. PICK a \in Pages : a = PipeOf(p)
  BY PipeCallIs DEF PipeRead, Reading
<1>2. /\ pc[p] = "read" /\ pc[p] \in Reading /\ pipe[a].lock = None
      /\ UNCHANGED <<file, iref, page, ofile, run, todo, ff, panicked>>
      /\ killed' \in [Procs -> BOOLEAN]
  <2>1. \/ killed' = killed
        \/ killed' = [killed EXCEPT ![p] = TRUE]
    BY DEF PipeRead, LateKill
  <2>2. killed' \in [Procs -> BOOLEAN]
    BY <2>1 DEF Inv, TypeOK
  <2>. QED
    BY <1>1, <2>2 DEF PipeRead, Reading, fileVars
<1>3. NoArg \in [f : Files \cup {None}, g : Files \cup {None}, n : 0 .. MaxWrite]
  BY FilesAssumption DEF NoArg
<1>. DEFINE Args == [f : Files \cup {None}, g : Files \cup {None}, n : 0 .. MaxWrite]
<1>4. arg \in [Procs -> Args] /\ pc = [q \in Procs |-> pc[q]] /\ pipe \in [Pages -> PipeRecords]
  BY DEF Inv, TypeOK
<1>5. \A q \in Procs : pipe[a].lock = q <=> pc[q] = "writing" /\ PipeOf(q) = a
  BY DEF Inv, PipesAgree
<1>6. \A q \in Procs : PipeOf(q) = a =>
            /\ pc[q] = "readAsleep" => pipe[a].writeopen
            /\ pc[q] = "writeAsleep" => PipeFull(a) /\ pipe[a].readopen
  BY DEF Inv, PipeSleepersHaveCause
<1>7. CASE Unread(a) = 0 /\ pipe[a].writeopen
  <2>1. /\ pc' = [pc EXCEPT ![p] = IF killed[p] THEN "user" ELSE "readAsleep"]
        /\ arg' = [arg EXCEPT ![p] = IF killed[p] THEN NoArg ELSE @] /\ pipe' = pipe
    BY <1>1, <1>7 DEF PipeRead
  <2>2. /\ pc' = [q \in Procs |-> pc'[q]] /\ \A q \in Procs : q # p => pc'[q] = pc[q]
        /\ pc'[p] = IF killed[p] THEN "user" ELSE "readAsleep"
    BY <1>4, <2>1
  <2>3. /\ arg' \in [Procs -> Args] /\ \A q \in Procs : q # p => arg'[q] = arg[q]
        /\ arg'[p] = IF killed[p] THEN NoArg ELSE arg[p]
    <3>. HIDE DEF Args
    <3>1. NoArg \in Args /\ arg[p] \in Args
      BY <1>3, <1>4 DEF Args
    <3>. QED
      BY <1>4, <2>1, <3>1
  <2>4. Unread(a)' <= PIPESIZE /\ (PipeFull(a)' <=> PipeFull(a))
    BY <2>1, PipeIs DEF Unread, PipeFull
  <2>5. \A q \in Procs : q # p => Woken(q)
    BY <2>2 DEF Woken
  <2>6. \/ pc'[p] = "user" /\ arg'[p] = NoArg
        \/ arg'[p] = arg[p] /\ pc'[p] \in Reading
    BY <2>2, <2>3 DEF Reading
  <2>7. \A q \in Procs : pipe'[a].lock = q <=> pc'[q] = "writing" /\ PipeOf(q) = a
    BY <1>2, <1>5, <2>1, <2>2
  <2>8. \A q \in Procs : PipeOf(q) = a =>
            /\ pc'[q] = "readAsleep" => pipe[a].writeopen
            /\ pc'[q] = "writeAsleep" => PipeFull(a)' /\ pipe[a].readopen
    BY <1>6, <1>7, <2>2, <2>4
  <2>. QED
    BY <1>1, <1>2, <1>4, <2>1, <2>2, <2>3, <2>4, <2>5, <2>6, <2>7, <2>8, PipeCallInv, SMTT(30)
<1>8. CASE ~(Unread(a) = 0 /\ pipe[a].writeopen)
  <2>. DEFINE r == [pipe[a] EXCEPT !.nread = (@ + k) % Wrap]
  <2>1. /\ k <= Unread(a) /\ pipe' = [pipe EXCEPT ![a] = r]
        /\ pc' = [WakeWriters(a) EXCEPT ![p] = "user"]
        /\ arg' = [arg EXCEPT ![p] = NoArg]
    BY <1>1, <1>8 DEF PipeRead
  <2>2. PICK x \in 0 .. Wrap - 1, w \in 0 .. Wrap - 1, j \in 0 .. Wrap - 1 :
          x = pipe[a].nread /\ w = pipe[a].nwrite /\ j = k
    <3>1. PIPESIZE \in Nat /\ Wrap \in Nat /\ PIPESIZE < Wrap
      BY Sizes
    <3>2. k \in 0 .. Wrap - 1
      BY <3>1
    <3>3. pipe[a].nread \in 0 .. Wrap - 1 /\ pipe[a].nwrite \in 0 .. Wrap - 1
      BY PipeIs
    <3>. QED
      BY <3>2, <3>3, Zenon
  <2>3. Unread(a) = (w - x) % Wrap /\ Unread(a) \in 0 .. PIPESIZE /\ pipe[a] \in PipeRecords
    BY <2>2, PipeIs DEF Unread
  <2>4. (x + j) % Wrap \in 0 .. Wrap - 1 /\ (w - ((x + j) % Wrap)) % Wrap = ((w - x) % Wrap) - j
    <3>1. j <= (w - x) % Wrap
      BY <2>1, <2>2, <2>3
    <3>. QED
      BY <3>1, CounterRead
  <2>5. /\ r \in PipeRecords /\ r.nread = (x + j) % Wrap /\ r.nwrite = w /\ r.lock = pipe[a].lock
        /\ r.readopen = pipe[a].readopen /\ r.writeopen = pipe[a].writeopen
    BY <2>2, <2>3, <2>4 DEF PipeRecords, Bytes
  <2>. HIDE DEF r
  <2>6. pipe' \in [Pages -> PipeRecords] /\ pipe'[a] = r /\ \A b \in Pages : b # a => pipe'[b] = pipe[b]
    BY <1>4, <2>1, <2>5
  <2>7. Unread(a)' <= PIPESIZE
    <3>1. Unread(a)' = (pipe'[a].nwrite - pipe'[a].nread) % Wrap
      BY DEF Unread
    <3>2. Unread(a)' = Unread(a) - j
      BY <2>3, <2>4, <2>5, <2>6, <3>1
    <3>. QED
      BY <2>2, <2>3, <3>2, Sizes
  <2>8. arg' \in [Procs -> Args] /\ arg'[p] = NoArg /\ \A q \in Procs : q # p => arg'[q] = arg[q]
    <3>. HIDE DEF Args
    <3>1. NoArg \in Args
      BY <1>3 DEF Args
    <3>. QED
      BY <1>4, <2>1, <3>1
  <2>9. pc'[p] = "user" /\ \A q \in Procs : q # p => Woken(q) /\ ~(pc'[q] = "writeAsleep" /\ PipeOf(q) = a)
    BY <2>1, WakeIs, WakesAll
  <2>10. pc' = [q \in Procs |-> pc'[q]]
    BY <2>1 DEF WakeWriters
  <2>11. \A q \in Procs : pipe'[a].lock = q <=> pc'[q] = "writing" /\ PipeOf(q) = a
    BY <1>2, <1>5, <2>5, <2>6, <2>9 DEF Woken
  <2>12. \A q \in Procs : PipeOf(q) = a =>
            /\ pc'[q] = "readAsleep" => pipe[a].writeopen
            /\ pc'[q] = "writeAsleep" => PipeFull(a)' /\ pipe[a].readopen
    BY <1>6, <2>9 DEF Woken
  <2>13. (pipe'[a].readopen <=> pipe[a].readopen) /\ (pipe'[a].writeopen <=> pipe[a].writeopen)
    BY <2>5, <2>6
  <2>. QED
    BY <1>1, <1>2, <2>6, <2>7, <2>8, <2>9, <2>10, <2>11, <2>12, <2>13, PipeCallInv
<1>. QED
  BY <1>7, <1>8

\* pipewrite takes the lock.
LEMMA PipeWriteLockInv ==
  ASSUME Inv, nofile' = nofile, NEW p \in Procs, PipeWriteLock(p) PROVE Inv'
<1>1. PICK a \in Pages : a = PipeOf(p)
  BY PipeCallIs DEF PipeWriteLock, Writing
<1>2. /\ pc[p] = "write" /\ pipe[a].lock = None /\ pc' = [pc EXCEPT ![p] = "writing"]
      /\ pipe' = [pipe EXCEPT ![a].lock = p]
      /\ UNCHANGED <<file, iref, page, ofile, run, killed, todo, ff, arg, panicked>>
  BY <1>1 DEF PipeWriteLock, fileVars, procVars
<1>. DEFINE r == [pipe[a] EXCEPT !.lock = p]
<1>3. pipe' = [pipe EXCEPT ![a] = r] /\ pipe \in [Pages -> PipeRecords] /\ pc = [q \in Procs |-> pc[q]]
  BY <1>2 DEF Inv, TypeOK
<1>4. r \in PipeRecords
  BY PipeIs DEF PipeRecords
<1>5. /\ r.lock = p /\ r.nread = pipe[a].nread /\ r.nwrite = pipe[a].nwrite
      /\ r.readopen = pipe[a].readopen /\ r.writeopen = pipe[a].writeopen
  BY PipeIs DEF PipeRecords
<1>. HIDE DEF r
<1>6. pipe' \in [Pages -> PipeRecords] /\ pipe'[a] = r /\ \A b \in Pages : b # a => pipe'[b] = pipe[b]
  BY <1>3, <1>4
<1>7. pc' = [q \in Procs |-> pc'[q]] /\ pc'[p] = "writing" /\ \A q \in Procs : q # p => pc'[q] = pc[q]
  BY <1>2, <1>3
<1>8. Unread(a)' <= PIPESIZE /\ (PipeFull(a)' <=> PipeFull(a))
  <2>1. Unread(a)' = Unread(a) /\ (PipeFull(a)' <=> PipeFull(a))
    BY <1>5, <1>6 DEF Unread, PipeFull
  <2>. QED
    BY <2>1 DEF Inv, PipesAgree
<1>9. \A q \in Procs : pipe[a].lock = q <=> pc[q] = "writing" /\ PipeOf(q) = a
  BY DEF Inv, PipesAgree
<1>10. \A q \in Procs : q # p => ~(pc'[q] = "writing" /\ PipeOf(q) = a)
  BY <1>2, <1>7, <1>9, FilesAssumption
<1>11. \A q \in Procs : pipe'[a].lock = q <=> pc'[q] = "writing" /\ PipeOf(q) = a
  BY <1>1, <1>5, <1>6, <1>7, <1>10
<1>12. \A q \in Procs : PipeOf(q) = a =>
            /\ pc'[q] = "readAsleep" => pipe[a].writeopen
            /\ pc'[q] = "writeAsleep" => PipeFull(a)' /\ pipe[a].readopen
  BY <1>7, <1>8 DEF Inv, PipeSleepersHaveCause
<1>13. pc[p] \in Writing /\ pc'[p] \in Writing /\ \A q \in Procs : q # p => Woken(q)
  BY <1>2, <1>7 DEF Writing, Woken
<1>14. arg' \in [Procs -> [f : Files \cup {None}, g : Files \cup {None}, n : 0 .. MaxWrite]]
  BY <1>2 DEF Inv, TypeOK
<1>15. (pipe'[a].readopen <=> pipe[a].readopen) /\ (pipe'[a].writeopen <=> pipe[a].writeopen)
  BY <1>5, <1>6
<1>16. /\ \A q \in Procs : q # p => Woken(q) /\ arg'[q] = arg[q]
       /\ arg'[p].f = arg[p].f /\ arg'[p].g = arg[p].g /\ pc[p] \in Reading \cup Writing
  BY <1>2, <1>13
<1>17. UNCHANGED <<file, iref, page, ofile, run, todo, ff, panicked>> /\ killed' \in [Procs -> BOOLEAN]
  BY <1>2 DEF Inv, TypeOK
<1>. QED
  BY <1>1, <1>6, <1>7, <1>8, <1>11, <1>12, <1>13, <1>14, <1>15, <1>16, <1>17, PipeCallInv

\* pipewrite gives the lock back.
LEMMA PipeWriteUnlockInv ==
  ASSUME Inv, nofile' = nofile, NEW p \in Procs, PipeWriteUnlock(p) PROVE Inv'
<1>1. PICK a \in Pages : a = PipeOf(p)
  BY PipeCallIs DEF PipeWriteUnlock, Writing
<1>2. /\ pc[p] = "writing" /\ pc[p] \in Writing /\ pipe' = [pipe EXCEPT ![a].lock = None]
      /\ UNCHANGED <<file, iref, page, ofile, run, todo, ff, panicked>>
      /\ killed' \in [Procs -> BOOLEAN]
      /\ arg' = [arg EXCEPT ![p] = IF pc'[p] = "user" THEN NoArg ELSE @]
  <2>1. killed' = killed \/ killed' = [killed EXCEPT ![p] = TRUE]
    BY DEF PipeWriteUnlock, PipeWriteWaits, LateKill
  <2>2. killed' \in [Procs -> BOOLEAN]
    BY <2>1 DEF Inv, TypeOK
  <2>. QED
    BY <1>1, <2>2 DEF PipeWriteUnlock, fileVars, Writing
<1>. DEFINE r == [pipe[a] EXCEPT !.lock = None]
<1>3. pipe' = [pipe EXCEPT ![a] = r] /\ pipe \in [Pages -> PipeRecords] /\ pc = [q \in Procs |-> pc[q]]
  BY <1>2 DEF Inv, TypeOK
<1>4. r \in PipeRecords
  BY PipeIs DEF PipeRecords
<1>5. /\ r.lock = None /\ r.nread = pipe[a].nread /\ r.nwrite = pipe[a].nwrite
      /\ r.readopen = pipe[a].readopen /\ r.writeopen = pipe[a].writeopen
  BY PipeIs DEF PipeRecords
<1>. HIDE DEF r
<1>6. pipe' \in [Pages -> PipeRecords] /\ pipe'[a] = r /\ \A b \in Pages : b # a => pipe'[b] = pipe[b]
  BY <1>3, <1>4
<1>7. /\ pc' = [q \in Procs |-> pc'[q]] /\ \A q \in Procs : q # p => Woken(q)
      /\ pc'[p] = "user" \/ (pc'[p] = "writeAsleep" /\ PipeFull(a) /\ pipe[a].readopen)
  <2>1. CASE PipeWriteDone(p)
    <3>1. pc' = [WakeReaders(a) EXCEPT ![p] = "user"]
      BY <1>1, <2>1 DEF PipeWriteDone
    <3>2. pc' = [q \in Procs |-> pc'[q]]
      BY <3>1 DEF WakeReaders
    <3>. QED
      BY <3>1, <3>2, WakeIs
  <2>2. CASE PipeWriteFails(p)
    <3>1. pc' = [pc EXCEPT ![p] = "user"]
      BY <2>2 DEF PipeWriteFails
    <3>. QED
      BY <1>3, <3>1 DEF Woken
  <2>3. CASE PipeWriteWaits(p)
    <3>1. pc' = [WakeReaders(a) EXCEPT ![p] = "writeAsleep"] /\ PipeFull(a) /\ pipe[a].readopen
      BY <1>1, <2>3 DEF PipeWriteWaits
    <3>2. pc' = [q \in Procs |-> pc'[q]]
      BY <3>1 DEF WakeReaders
    <3>. QED
      BY <3>1, <3>2, WakeIs
  <2>. QED
    BY <2>1, <2>2, <2>3 DEF PipeWriteUnlock
<1>8. Unread(a)' <= PIPESIZE /\ (PipeFull(a)' <=> PipeFull(a))
  <2>1. Unread(a)' = Unread(a) /\ (PipeFull(a)' <=> PipeFull(a))
    BY <1>5, <1>6 DEF Unread, PipeFull
  <2>. QED
    BY <2>1 DEF Inv, PipesAgree
<1>9. \A q \in Procs : pipe[a].lock = q <=> pc[q] = "writing" /\ PipeOf(q) = a
  BY DEF Inv, PipesAgree
<1>10. \A q \in Procs : ~(pc'[q] = "writing" /\ PipeOf(q) = a)
  BY <1>1, <1>2, <1>7, <1>9 DEF Woken
<1>11. \A q \in Procs : pipe'[a].lock = q <=> pc'[q] = "writing" /\ PipeOf(q) = a
  BY <1>5, <1>6, <1>10, FilesAssumption
<1>12. \A q \in Procs : PipeOf(q) = a =>
            /\ pc'[q] = "readAsleep" => pipe[a].writeopen
            /\ pc'[q] = "writeAsleep" => PipeFull(a)' /\ pipe[a].readopen
  BY <1>7, <1>8 DEF Inv, PipeSleepersHaveCause, Woken
<1>13. /\ arg' \in [Procs -> [f : Files \cup {None}, g : Files \cup {None}, n : 0 .. MaxWrite]]
       /\ \A q \in Procs : q # p => arg'[q] = arg[q]
       /\ arg'[p] = IF pc'[p] = "user" THEN NoArg ELSE arg[p]
  <2>. DEFINE Args == [f : Files \cup {None}, g : Files \cup {None}, n : 0 .. MaxWrite]
  <2>1. NoArg \in Args /\ arg \in [Procs -> Args]
    BY FilesAssumption DEF NoArg, Inv, TypeOK
  <2>. HIDE DEF Args
  <2>2. /\ arg' \in [Procs -> Args] /\ \A q \in Procs : q # p => arg'[q] = arg[q]
        /\ arg'[p] = IF pc'[p] = "user" THEN NoArg ELSE arg[p]
    BY <1>2, <2>1
  <2>. QED
    BY <2>2 DEF Args
<1>14. \/ pc'[p] = "user" /\ arg'[p] = NoArg
       \/ arg'[p] = arg[p] /\ pc'[p] \in Writing
  BY <1>7, <1>13 DEF Writing
<1>15. (pipe'[a].readopen <=> pipe[a].readopen) /\ (pipe'[a].writeopen <=> pipe[a].writeopen)
  BY <1>5, <1>6
<1>. QED
  BY <1>1, <1>2, <1>6, <1>7, <1>8, <1>11, <1>12, <1>13, <1>14, <1>15, PipeCallInv

\* What a turn of pipewrite's loop does to the pipe.
LEMMA PipeByteIs ==
  ASSUME Inv, NEW p \in Procs, NEW a \in Pages, a = PipeOf(p), PipeByte(p)
  PROVE  /\ pipe' \in [Pages -> PipeRecords] /\ \A b \in Pages : b # a => pipe'[b] = pipe[b]
         /\ pipe'[a].nread = pipe[a].nread /\ pipe'[a].lock = pipe[a].lock
         /\ pipe'[a].readopen = pipe[a].readopen /\ pipe'[a].writeopen = pipe[a].writeopen
         /\ pipe'[a].data = [pipe[a].data EXCEPT ![pipe[a].nwrite % PIPESIZE] = pipe[a].nwrite]
         /\ pipe[a].nwrite % PIPESIZE \in 0 .. PIPESIZE - 1
         /\ Unread(a)' = Unread(a) + 1 /\ Unread(a) < PIPESIZE
<1>1. PICK x \in 0 .. Wrap - 1, w \in 0 .. Wrap - 1 : x = pipe[a].nread /\ w = pipe[a].nwrite
  BY PipeIs
<1>2. /\ Unread(a) = (w - x) % Wrap /\ Unread(a) \in 0 .. PIPESIZE /\ Unread(a) # PIPESIZE
      /\ pipe[a] \in PipeRecords
  BY <1>1, PipeIs DEF Unread, PipeByte
<1>3. (w + 1) % Wrap \in 0 .. Wrap - 1 /\ (((w + 1) % Wrap) - x) % Wrap = ((w - x) % Wrap) + 1
  <2>1. ((w - x) % Wrap) + 1 < Wrap
    BY <1>2, Sizes
  <2>. QED
    BY <2>1, CounterWritten
<1>4. w % PIPESIZE \in 0 .. PIPESIZE - 1
  BY Sizes
<1>. DEFINE dt == [pipe[a].data EXCEPT ![w % PIPESIZE] = w]
            r == [pipe[a] EXCEPT !.data = dt, !.nwrite = (@ + 1) % Wrap]
<1>5. pipe' = [pipe EXCEPT ![a] = r] /\ pipe \in [Pages -> PipeRecords]
  BY <1>1 DEF PipeByte, Inv, TypeOK
<1>6. dt \in [0 .. PIPESIZE - 1 -> Bytes]
  BY <1>2, <1>4 DEF PipeRecords, Bytes
<1>. HIDE DEF dt
<1>7. r \in PipeRecords
  BY <1>1, <1>2, <1>3, <1>6 DEF PipeRecords, Bytes
<1>8. /\ r.data = dt /\ r.nread = x /\ r.nwrite = (w + 1) % Wrap /\ r.lock = pipe[a].lock
      /\ r.readopen = pipe[a].readopen /\ r.writeopen = pipe[a].writeopen
  BY <1>1, <1>2 DEF PipeRecords
<1>. HIDE DEF r
<1>9. pipe' \in [Pages -> PipeRecords] /\ pipe'[a] = r /\ \A b \in Pages : b # a => pipe'[b] = pipe[b]
  BY <1>5, <1>7
<1>10. Unread(a)' = Unread(a) + 1
  <2>1. Unread(a)' = (pipe'[a].nwrite - pipe'[a].nread) % Wrap
    BY DEF Unread
  <2>. QED
    BY <1>2, <1>3, <1>8, <1>9, <2>1
<1>11. pipe'[a].data = [pipe[a].data EXCEPT ![pipe[a].nwrite % PIPESIZE] = pipe[a].nwrite]
  BY <1>1, <1>8, <1>9 DEF dt
<1>12. Unread(a) < PIPESIZE
  BY <1>2, Sizes
<1>. QED
  BY <1>1, <1>4, <1>8, <1>9, <1>10, <1>11, <1>12

\* One turn of pipewrite's loop.
LEMMA PipeByteInv ==
  ASSUME Inv, nofile' = nofile, NEW p \in Procs, PipeByte(p) PROVE Inv'
<1>1. PICK a \in Pages : a = PipeOf(p)
  BY PipeCallIs DEF PipeByte, Writing
<1>2. /\ pc[p] = "writing" /\ pc[p] \in Writing /\ arg[p].n > 0 /\ pipe[a].readopen /\ ~PipeFull(a)
      /\ arg' = [arg EXCEPT ![p].n = @ - 1]
      /\ UNCHANGED <<file, iref, page, ofile, run, killed, pc, todo, ff, panicked>>
  BY <1>1 DEF PipeByte, fileVars, procVars, Writing
<1>3. /\ pipe' \in [Pages -> PipeRecords] /\ \A b \in Pages : b # a => pipe'[b] = pipe[b]
      /\ pipe'[a].lock = pipe[a].lock
      /\ pipe'[a].readopen = pipe[a].readopen /\ pipe'[a].writeopen = pipe[a].writeopen
      /\ Unread(a)' = Unread(a) + 1 /\ Unread(a) < PIPESIZE
  BY <1>1, PipeByteIs
<1>4. Unread(a)' <= PIPESIZE
  <2>1. Unread(a) \in 0 .. PIPESIZE
    BY PipeIs
  <2>. QED
    BY <1>3, <2>1, Sizes
<1>5. /\ arg' \in [Procs -> [f : Files \cup {None}, g : Files \cup {None}, n : 0 .. MaxWrite]]
      /\ \A q \in Procs : q # p => arg'[q] = arg[q]
      /\ arg'[p].f = arg[p].f /\ arg'[p].g = arg[p].g
  <2>. DEFINE Args == [f : Files \cup {None}, g : Files \cup {None}, n : 0 .. MaxWrite]
              s == [arg[p] EXCEPT !.n = @ - 1]
  <2>1. arg' = [arg EXCEPT ![p] = s] /\ arg \in [Procs -> Args]
    BY <1>2 DEF Inv, TypeOK
  <2>2. s \in Args /\ s.f = arg[p].f /\ s.g = arg[p].g
    <3>1. arg[p] \in Args /\ arg[p].n \in 0 .. MaxWrite /\ arg[p].n - 1 \in 0 .. MaxWrite
      BY <1>2, FilesAssumption, SMTT(30) DEF Inv, TypeOK
    <3>. QED
      BY <3>1
  <2>. HIDE DEF Args, s
  <2>3. arg' \in [Procs -> Args] /\ arg'[p] = s /\ \A q \in Procs : q # p => arg'[q] = arg[q]
    BY <2>1, <2>2
  <2>. QED
    BY <2>2, <2>3 DEF Args
<1>6. \A q \in Procs : pipe'[a].lock = q <=> pc'[q] = "writing" /\ PipeOf(q) = a
  BY <1>2, <1>3 DEF Inv, PipesAgree
<1>7. \A q \in Procs : PipeOf(q) = a =>
            /\ pc'[q] = "readAsleep" => pipe[a].writeopen
            /\ pc'[q] = "writeAsleep" => PipeFull(a)' /\ pipe[a].readopen
  BY <1>2 DEF Inv, PipeSleepersHaveCause
<1>8. pc' = [q \in Procs |-> pc'[q]] /\ \A q \in Procs : Woken(q)
  BY <1>2 DEF Inv, TypeOK, Woken
<1>9. /\ \A q \in Procs : q # p => Woken(q) /\ arg'[q] = arg[q]
      /\ pc[p] \in Reading \cup Writing /\ pc[p] \in Writing /\ pc'[p] \in Writing
      /\ pipe'[a].readopen <=> pipe[a].readopen
      /\ pipe'[a].writeopen <=> pipe[a].writeopen
  BY <1>2, <1>3, <1>5, <1>8
<1>10. UNCHANGED <<file, iref, page, ofile, run, todo, ff, panicked>> /\ killed' \in [Procs -> BOOLEAN]
  BY <1>2 DEF Inv, TypeOK
<1>11. /\ pipe' \in [Pages -> PipeRecords] /\ \A b \in Pages : b # a => pipe'[b] = pipe[b]
       /\ pc' = [q \in Procs |-> pc'[q]]
  BY <1>3, <1>8
<1>. QED
  BY <1>1, <1>4, <1>5, <1>6, <1>7, <1>9, <1>10, <1>11, PipeCallInv

-----------------------------------------------------------------------------
(* The theorems *)

\* Every step keeps the invariant.
LEMMA NextInv == Inv /\ [Next]_vars => Inv'
<1>. SUFFICES ASSUME Inv, [Next]_vars PROVE Inv'
  OBVIOUS
<1>1. CASE UNCHANGED vars
  <2>1. /\ UNCHANGED <<nofile, file, iref, pipe, page, ofile, run, killed, pc, todo, ff, arg, panicked>>
    BY <1>1 DEF vars, fileVars, pipeVars, procVars, callVars
  <2>2. \A q \in Procs : InHand(q)' = InHand(q) /\ OpenFds(q)' = OpenFds(q)
    BY <2>1 DEF InHand, OpenFds
  <2>3. TypeOK'
    BY <2>1 DEF Inv, TypeOK
  <2>4. RefsCounted'
    BY <2>1, <2>2, RefsKept DEF Inv
  <2>5. IrefCounted' /\ PipeFreedOnce' /\ EndsAgree'
    <3>1. \A f \in Files : file[f].type # "none" => file[f].ref > 0
      BY Typed
    <3>. QED
      BY <2>1, <3>1, TypesKept
  <2>6. PipesAgree' /\ PipeSleepersHaveCause'
    BY <2>1, PipesKept
  <2>7. CallsAgree'
    BY <2>1, <2>2 DEF Inv, CallsAgree, CallAgrees
  <2>8. NewFilesAgree'
    BY <2>1, <2>2 DEF Inv, NewFilesAgree
  <2>. QED
    BY <2>1, <2>3, <2>4, <2>5, <2>6, <2>7, <2>8 DEF Inv
<1>2. CASE Next
  <2>0. nofile' = nofile
    BY <1>2 DEF Next
  <2>1. PICK p \in Procs :
          \/ \E d \in FDs : \/ Dup(p, d) \/ Close(p, d) \/ Read(p, d)
                            \/ \E n \in 1 .. MaxWrite : Write(p, d, n)
          \/ \E q \in Procs : Fork(p, q)
          \/ Exit(p) \/ ExitFile(p) \/ Reap(p) \/ FileClose(p) \/ PipeClose(p)
          \/ PipeStart(p) \/ PipeSecond(p) \/ PipeInit(p)
          \/ \E copied \in BOOLEAN : PipeFds(p, copied)
          \/ OpenStart(p) \/ OpenFd(p)
          \/ \E k \in 0 .. PIPESIZE : PipeRead(p, k)
          \/ PipeWriteLock(p) \/ PipeByte(p) \/ PipeWriteUnlock(p)
          \/ Kill(p)
    BY <1>2 DEF Next
  <2>2. ASSUME NEW d \in FDs, Dup(p, d) PROVE Inv'
    BY <2>0, <2>2, DupInv
  <2>3. ASSUME NEW d \in FDs, Close(p, d) PROVE Inv'
    BY <2>0, <2>3, CloseInv
  <2>4. ASSUME NEW d \in FDs, Read(p, d) \/ \E n \in 1 .. MaxWrite : Write(p, d, n) PROVE Inv'
    BY <2>0, <2>4, StartInv
  <2>5. ASSUME NEW q \in Procs, Fork(p, q) PROVE Inv'
    BY <2>0, <2>5, ForkInv
  <2>6. CASE Exit(p) \/ Reap(p)
    BY <2>0, <2>6, RunInv
  <2>7. CASE ExitFile(p)
    BY <2>0, <2>7, ExitFileInv
  <2>8. CASE FileClose(p)
    BY <2>0, <2>8, FileCloseInv
  <2>9. CASE PipeClose(p)
    BY <2>0, <2>9, PipeCloseInv
  <2>10. CASE PipeStart(p) \/ OpenStart(p)
    BY <2>0, <2>10, FirstFileInv
  <2>11. CASE PipeSecond(p)
    BY <2>0, <2>11, PipeSecondInv
  <2>12. CASE PipeInit(p)
    BY <2>0, <2>12, PipeInitInv
  <2>13. ASSUME NEW copied \in BOOLEAN, PipeFds(p, copied) PROVE Inv'
    BY <2>0, <2>13, PipeFdsInv
  <2>14. CASE OpenFd(p)
    BY <2>0, <2>14, OpenFdInv
  <2>15. ASSUME NEW k \in 0 .. PIPESIZE, PipeRead(p, k) PROVE Inv'
    BY <2>0, <2>15, PipeReadInv
  <2>16. CASE PipeWriteLock(p)
    BY <2>0, <2>16, PipeWriteLockInv
  <2>17. CASE PipeByte(p)
    BY <2>0, <2>17, PipeByteInv
  <2>18. CASE PipeWriteUnlock(p)
    BY <2>0, <2>18, PipeWriteUnlockInv
  <2>19. CASE Kill(p)
    BY <2>0, <2>19, KillInv
  <2>. QED
    BY <2>1, <2>2, <2>3, <2>4, <2>5, <2>6, <2>7, <2>8, <2>9, <2>10, <2>11, <2>12, <2>13, <2>14,
       <2>15, <2>16, <2>17, <2>18, <2>19
<1>. QED
  BY <1>1, <1>2

\* The invariant holds in every state.
LEMMA InvHolds == Spec => []Inv
  BY InitInv, NextInv, PTL DEF Spec

\* The conjunction the run MCFiles was checked with is an invariant.
THEOREM IInvHolds == Spec => []IInv
<1>1. Inv => IInv
  BY IInvIs
<1>. QED
  BY <1>1, InvHolds, PTL

\* Open files: a file structure has exactly as many references as there are descriptors of
\* it and calls creating or closing it, and the open files as many inode references, in
\* every interleaving of close, dup, fork, exit, pipe and open, error paths included,
\* and fileclose never panics.
THEOREM FileReferencesExact == Spec => []FileRefsExact
<1>1. IInv => FileRefsExact
  BY DEF IInv
<1>. QED
  BY <1>1, IInvHolds, PTL

\* Pipes: the page is allocated as long as one end is open, each end is marked open as long
\* as somebody has it, and so the page is freed once, after both ends (pipeclose).
THEOREM PipeFreed == Spec => []PipeFreedOnce
<1>1. IInv => PipeFreedOnce
  BY DEF IInv
<1>. QED
  BY <1>1, IInvHolds, PTL

\* Pipes: nobody sleeps at a pipe whose other end is closed, and no writer at one with room
\* (pipeclose and piperead wake them).
THEOREM PipeSleepers == Spec => []PipeSleepersHaveCause
<1>1. IInv => PipeSleepersHaveCause
  BY DEF IInv
<1>. QED
  BY <1>1, IInvHolds, PTL

-----------------------------------------------------------------------------
(* What a step does to one pipe *)

\* The data and the counters of a pipe, and its lock.
SameBytes(a) == /\ pipe'[a].data = pipe[a].data /\ pipe'[a].nread = pipe[a].nread
                /\ pipe'[a].nwrite = pipe[a].nwrite
SameLock(a) == pipe'[a].lock = pipe[a].lock

\* Only piperead and pipewrite move bytes of a pipe in use, and only pipewrite its lock.
LEMMA PipeStep ==
  ASSUME Inv, Next, NEW a \in Pages, a \in page, a \in page' \/ pipe[a].lock # None
  PROVE  \/ SameBytes(a) /\ SameLock(a)
         \/ \E p \in Procs : PipeOf(p) = a /\ SameLock(a) /\ \E k \in 0 .. PIPESIZE : PipeRead(p, k)
         \/ \E p \in Procs : PipeOf(p) = a /\ SameLock(a) /\ PipeByte(p)
         \/ \E p \in Procs : PipeOf(p) = a /\ SameBytes(a) /\ (PipeWriteLock(p) \/ PipeWriteUnlock(p))
<1>. DEFINE Goal == \/ SameBytes(a) /\ SameLock(a)
                    \/ \E p \in Procs : PipeOf(p) = a /\ SameLock(a) /\ \E k \in 0 .. PIPESIZE : PipeRead(p, k)
                    \/ \E p \in Procs : PipeOf(p) = a /\ SameLock(a) /\ PipeByte(p)
                    \/ \E p \in Procs : PipeOf(p) = a /\ SameBytes(a) /\ (PipeWriteLock(p) \/ PipeWriteUnlock(p))
<1>0. pipe \in [Pages -> PipeRecords] /\ pipe[a] \in PipeRecords
  BY DEF Inv, TypeOK
<1>1. CASE pipe'[a] = pipe[a]
  BY <1>1 DEF SameBytes, SameLock
<1>2. ASSUME NEW p \in Procs, NEW k \in 0 .. PIPESIZE, PipeRead(p, k) PROVE Goal
  <2>1. PICK b \in Pages : b = PipeOf(p)
    BY <1>2, PipeCallIs DEF PipeRead, Reading
  <2>2. pipe' = pipe \/ pipe' = [pipe EXCEPT ![b].nread = (@ + k) % Wrap]
    BY <1>2, <2>1 DEF PipeRead
  <2>3. CASE b = a
    <3>1. SameLock(a)
      BY <1>0, <2>2, <2>3 DEF SameLock, PipeRecords
    <3>. QED
      BY <1>2, <2>1, <2>3, <3>1
  <2>4. CASE b # a
    BY <1>0, <1>1, <2>2, <2>4
  <2>. QED
    BY <2>3, <2>4
<1>3. ASSUME NEW p \in Procs, PipeByte(p) PROVE Goal
  <2>1. PICK b \in Pages : b = PipeOf(p)
    BY <1>3, PipeCallIs DEF PipeByte, Writing
  <2>2. (\A c \in Pages : c # b => pipe'[c] = pipe[c]) /\ pipe'[b].lock = pipe[b].lock
    BY <1>3, <2>1, PipeByteIs
  <2>3. CASE b = a
    BY <1>3, <2>1, <2>2, <2>3 DEF SameLock
  <2>4. CASE b # a
    BY <1>1, <2>2, <2>4
  <2>. QED
    BY <2>3, <2>4
<1>4. ASSUME NEW p \in Procs, PipeWriteLock(p) \/ PipeWriteUnlock(p) PROVE Goal
  <2>1. PICK b \in Pages : b = PipeOf(p)
    BY <1>4, PipeCallIs DEF PipeWriteLock, PipeWriteUnlock, Writing
  <2>2. pipe' = [pipe EXCEPT ![b].lock = p] \/ pipe' = [pipe EXCEPT ![b].lock = None]
    BY <1>4, <2>1 DEF PipeWriteLock, PipeWriteUnlock
  <2>3. CASE b = a
    <3>1. SameBytes(a)
      BY <1>0, <2>2, <2>3 DEF SameBytes, PipeRecords
    <3>. QED
      BY <1>4, <2>1, <2>3, <3>1
  <2>4. CASE b # a
    BY <1>0, <1>1, <2>2, <2>4
  <2>. QED
    BY <2>3, <2>4
<1>5. ASSUME NEW p \in Procs, PipeInit(p) PROVE Goal
  <2>1. pipe' = pipe \/ \E b \in Pages \ page : pipe' = [pipe EXCEPT ![b] = NewPipe]
    BY <1>5 DEF PipeInit
  <2>2. pipe'[a] = pipe[a]
    BY <1>0, <2>1
  <2>. QED
    BY <1>1, <2>2
<1>6. ASSUME NEW p \in Procs, PipeClose(p) PROVE Goal
  <2>1. CASE ff[p].type = "inode"
    BY <1>1, <1>6, <2>1 DEF PipeClose
  <2>2. CASE ff[p].type = "pipe"
    <3>1. PICK b \in Pages, w \in BOOLEAN : b = ff[p].pipe /\ w = ff[p].writable
      BY <2>2 DEF Inv, TypeOK, FileRecords, EndsAgree
    <3>2. /\ pipe[b].lock = None
          /\ \/ pipe' = [pipe EXCEPT ![b].writeopen = @ /\ ~w, ![b].readopen = @ /\ w]
             \/ pipe' = [pipe EXCEPT ![b] = Junk] /\ page' = page \ {b}
      BY <1>6, <2>2, <3>1 DEF PipeClose
    <3>3. CASE b # a
      <4>1. pipe'[a] = pipe[a]
        BY <1>0, <3>2, <3>3
      <4>. QED
        BY <1>1, <4>1
    <3>4. CASE b = a
      <4>1. a \in page'
        BY <3>2, <3>4
      <4>2. pipe' = [pipe EXCEPT ![a] = [pipe[a] EXCEPT !.writeopen = @ /\ ~w, !.readopen = @ /\ w]]
        BY <1>0, <3>2, <3>4, <4>1
      <4>3. pipe'[a] = [pipe[a] EXCEPT !.writeopen = @ /\ ~w, !.readopen = @ /\ w]
        BY <1>0, <4>2
      <4>. QED
        BY <1>0, <4>3 DEF SameBytes, SameLock, PipeRecords
    <3>. QED
      BY <3>3, <3>4
  <2>. QED
    BY <1>6, <2>1, <2>2 DEF PipeClose
<1>7. ASSUME NEW p \in Procs,
             \/ \E d \in FDs : \/ Dup(p, d) \/ Close(p, d) \/ Read(p, d)
                               \/ \E n \in 1 .. MaxWrite : Write(p, d, n)
             \/ \E q \in Procs : Fork(p, q)
             \/ Exit(p) \/ ExitFile(p) \/ Reap(p) \/ FileClose(p)
             \/ PipeStart(p) \/ PipeSecond(p) \/ \E copied \in BOOLEAN : PipeFds(p, copied)
             \/ OpenStart(p) \/ OpenFd(p) \/ Kill(p)
      PROVE  Goal
  <2>1. pipe' = pipe
    BY <1>7 DEF Dup, Close, Read, Write, Fork, Exit, ExitFile, Reap, FileClose, PipeStart, PipeSecond,
                PipeFds, OpenStart, OpenFd, Kill, pipeVars
  <2>. QED
    BY <1>1, <2>1
<1>. QED
  BY <1>2, <1>3, <1>4, <1>5, <1>6, <1>7 DEF Next

\* Pipes: a pipewrite that returns or goes to sleep wakes the readers that wait for its
\* bytes, unless it was killed (pipewrite's return without a wakeup).
THEOREM ReadersAreWoken == Spec => ReadersWoken
<1>. DEFINE A == \A a \in Pages :
       LET w == pipe[a].lock IN
       w # None /\ pipe'[a].lock = None =>
         \/ \A q \in Procs : ~(pc'[q] = "readAsleep" /\ Sleeps(q, "readAsleep", a))
         \/ Unread(a) = 0
         \/ killed[w]
<1>1. Inv /\ Next => A
  <2>. SUFFICES ASSUME Inv, Next, NEW a \in Pages, pipe[a].lock # None, pipe'[a].lock = None
                PROVE  \/ \A q \in Procs : ~(pc'[q] = "readAsleep" /\ Sleeps(q, "readAsleep", a))
                       \/ killed[pipe[a].lock]
    OBVIOUS
  <2>1. PICK w \in Procs : w = pipe[a].lock
    BY DEF Inv, TypeOK, PipeRecords
  <2>2. pc[w] = "writing" /\ PipeOf(w) = a
    BY <2>1 DEF Inv, PipesAgree
  <2>3. a \in page
    BY <2>2, PipeCallIs DEF Writing
  <2>4. PICK p \in Procs : PipeOf(p) = a /\ (PipeWriteLock(p) \/ PipeWriteUnlock(p))
    BY <2>3, PipeStep DEF SameLock
  <2>5. PipeWriteUnlock(p)
    BY <2>4 DEF PipeWriteLock
  <2>6. p = w
    BY <2>1, <2>4, <2>5 DEF Inv, PipesAgree, PipeWriteUnlock
  <2>7. \A q \in Procs : Sleeps(q, "readAsleep", a) => q # p /\ PipeOf(q) = a /\ pipe[a].readopen
    <3>. SUFFICES ASSUME NEW q \in Procs, Sleeps(q, "readAsleep", a)
                  PROVE  q # p /\ PipeOf(q) = a /\ pipe[a].readopen
      OBVIOUS
    <3>1. pc[q] = "readAsleep" /\ PipeOf(q) = a
      BY DEF Sleeps, PipeOf
    <3>. QED
      BY <2>2, <2>6, <3>1, PipeCallIs DEF Reading
  <2>8. CASE PipeWriteFails(p)
    BY <2>1, <2>4, <2>6, <2>7, <2>8 DEF PipeWriteFails
  <2>9. CASE PipeWriteDone(p)
    <3>1. pc' = [WakeReaders(a) EXCEPT ![p] = "user"]
      BY <2>4, <2>9 DEF PipeWriteDone
    <3>. QED
      BY <2>7, <3>1, WakesAll
  <2>10. CASE PipeWriteWaits(p)
    <3>1. pc' = [WakeReaders(a) EXCEPT ![p] = "writeAsleep"]
      BY <2>4, <2>10 DEF PipeWriteWaits
    <3>. QED
      BY <2>7, <3>1, WakesAll
  <2>. QED
    BY <2>5, <2>8, <2>9, <2>10 DEF PipeWriteUnlock
<1>2. Inv /\ [Next]_vars => [A]_vars
  BY <1>1
<1>. QED
  BY <1>2, InvHolds, PTL DEF Spec, ReadersWoken

-----------------------------------------------------------------------------
(* A pipe is a queue *)

\* Division with remainder.
LEMMA DivIs ==
  ASSUME NEW P \in Nat \ {0}, NEW x \in Int
  PROVE  x = (P * (x \div P)) + (x % P) /\ x \div P \in Int /\ x % P \in 0 .. P - 1
<1>1. x \div P \in Int
  OBVIOUS
<1>2. x % P \in 0 .. P - 1
  OBVIOUS
<1>3. x = (P * (x \div P)) + (x % P)
  OBVIOUS
<1>. QED
  BY <1>1, <1>2, <1>3

\* A multiple of P other than 0 is at least P away from it.
LEMMA MultipleGap == ASSUME NEW P \in Nat \ {0}, NEW c \in Int, c # 0 PROVE P * c >= P \/ P * c <= -P
<1>1. CASE c >= 1
  BY <1>1
<1>2. CASE c <= -1
  BY <1>2
<1>. QED
  BY <1>1, <1>2

\* The counters may wrap at any multiple of the size: the place in the buffer is the same.
LEMMA ModMultiple ==
  ASSUME NEW P \in Nat \ {0}, NEW x \in Int, NEW y \in Int, NEW c \in Int, x = y + (P * c)
  PROVE  x % P = y % P
<1>1. PICK a \in Int : x = (P * a) + (x % P)
  BY DivIs
<1>2. PICK b \in Int : y = (P * b) + (y % P)
  BY DivIs
<1>3. PICK s \in 0 .. P - 1, t \in 0 .. P - 1 : s = x % P /\ t = y % P
  BY DivIs
<1>4. PICK i \in Int, j \in Int, k \in Int : i = P * a /\ j = P * b /\ k = P * c
  OBVIOUS
<1>5. x = i + s /\ y = j + t /\ x = y + k
  BY <1>1, <1>2, <1>3, <1>4
<1>6. s - t = (j + k) - i
  BY <1>5
<1>7. s - t = ((P * b) + (P * c)) - (P * a)
  BY <1>4, <1>6
<1>8. PICK g \in Int : g = (b + c) - a
  OBVIOUS
<1>9. s - t = P * g
  BY <1>7, <1>8
<1>10. CASE g # 0
  BY <1>3, <1>9, <1>10, MultipleGap
<1>11. CASE g = 0
  BY <1>3, <1>9, <1>11
<1>. QED
  BY <1>10, <1>11

\* Bytes less than PIPESIZE apart have different places in the buffer.
LEMMA ModDiffer ==
  ASSUME NEW P \in Nat \ {0}, NEW x \in Int, NEW i \in 1 .. P - 1 PROVE x % P # (x + i) % P
<1>0. PICK y \in Int : y = x + i
  OBVIOUS
<1>1. PICK a \in Int : x = (P * a) + (x % P)
  BY DivIs
<1>2. PICK b \in Int : y = (P * b) + (y % P)
  BY DivIs
<1>3. PICK s \in 0 .. P - 1, t \in 0 .. P - 1 : s = x % P /\ t = y % P
  BY DivIs
<1>4. ASSUME s = t PROVE FALSE
  <2>1. i = (P * b) - (P * a)
    BY <1>0, <1>1, <1>2, <1>3, <1>4
  <2>2. PICK g \in Int : g = b - a
    OBVIOUS
  <2>3. i = P * g
    BY <2>1, <2>2
  <2>4. CASE g = 0
    BY <2>3, <2>4
  <2>5. CASE g # 0
    BY <2>3, <2>5, MultipleGap
  <2>. QED
    BY <2>4, <2>5
<1>. QED
  BY <1>0, <1>3, <1>4

\* A counter that wrapped around has the same place in the buffer.
LEMMA SamePlace ==
  ASSUME NEW x \in 0 .. Wrap - 1, NEW k \in 0 .. Wrap - 1, NEW i \in Nat
  PROVE  (((x + k) % Wrap) + i) % PIPESIZE = ((x + k) + i) % PIPESIZE
<1>1. PICK c \in Int : Wrap = PIPESIZE * c
  BY Sizes
<1>2. Wrap \in Nat \ {0} /\ PIPESIZE \in Nat \ {0}
  BY Sizes
<1>3. PICK z \in Int : z = (x + k) % Wrap
  BY <1>2
<1>4. z = IF x + k < Wrap THEN x + k ELSE (x + k) - Wrap
  BY <1>2, <1>3, RingPlus
<1>5. CASE x + k < Wrap
  BY <1>3, <1>4, <1>5
<1>6. CASE ~(x + k < Wrap)
  <2>1. PICK u \in Int, v \in Int : u = z + i /\ v = (x + k) + i
    BY <1>2
  <2>2. v = u + (PIPESIZE * c)
    BY <1>1, <1>2, <1>4, <1>6, <2>1
  <2>3. v % PIPESIZE = u % PIPESIZE
    BY <1>2, <2>2, ModMultiple
  <2>. QED
    BY <1>3, <2>1, <2>3
<1>. QED
  BY <1>5, <1>6

\* The bytes between the counters are a sequence of at most PIPESIZE.
QueueAgrees ==
  \A a \in Pages :
    /\ Queue(a) \in Seq(Bytes) /\ Len(Queue(a)) = Unread(a) /\ Unread(a) \in 0 .. PIPESIZE
    /\ DOMAIN Queue(a) = 1 .. Unread(a)
    /\ \A i \in 1 .. Unread(a) : Queue(a)[i] = pipe[a].data[(pipe[a].nread + i - 1) % PIPESIZE]

\* The queue in a pipe's buffer.
LEMMA QueueIs == Inv => QueueAgrees
<1>. SUFFICES ASSUME Inv, NEW a \in Pages
     PROVE  /\ Queue(a) \in Seq(Bytes) /\ Len(Queue(a)) = Unread(a) /\ Unread(a) \in 0 .. PIPESIZE
            /\ DOMAIN Queue(a) = 1 .. Unread(a)
            /\ \A i \in 1 .. Unread(a) : Queue(a)[i] = pipe[a].data[(pipe[a].nread + i - 1) % PIPESIZE]
  BY DEF QueueAgrees
<1>1. PICK u \in Nat : u = Unread(a) /\ u <= PIPESIZE
  BY PipeIs, Sizes
<1>2. pipe[a].data \in [0 .. PIPESIZE - 1 -> Bytes] /\ pipe[a].nread \in Nat
  BY PipeIs DEF PipeRecords
<1>3. \A i \in 1 .. u : (pipe[a].nread + i - 1) % PIPESIZE \in 0 .. PIPESIZE - 1
  BY <1>2, Sizes
<1>4. Queue(a) = [i \in 1 .. u |-> pipe[a].data[(pipe[a].nread + i - 1) % PIPESIZE]]
  BY <1>1 DEF Queue
<1>5. \A i \in 1 .. u : pipe[a].data[(pipe[a].nread + i - 1) % PIPESIZE] \in Bytes
  BY <1>2, <1>3
<1>6. Queue(a) \in [1 .. u -> Bytes]
  BY <1>4, <1>5
<1>7. Queue(a) \in Seq(Bytes) /\ Len(Queue(a)) = u
  BY <1>6
<1>. QED
  BY <1>1, <1>4, <1>6, <1>7, Sizes

\* The same after a step.
LEMMA QueueNext == Inv' => QueueAgrees'
  BY QueueIs, PTL

\* A step that moves no bytes leaves the queue as it is.
LEMMA QueueSame ==
  ASSUME Inv, NEW a \in Pages, SameBytes(a)
  PROVE  Queue(a)' = SubSeq(Queue(a), 0 + 1, Len(Queue(a))) /\ 0 \in 0 .. Len(Queue(a))
<1>1. Queue(a)' = Queue(a)
  BY DEF SameBytes, Queue, Unread
<1>2. Queue(a) \in Seq(Bytes) /\ Len(Queue(a)) \in Nat
  BY QueueIs DEF QueueAgrees
<1>3. SubSeq(Queue(a), 1, Len(Queue(a))) = Queue(a)
  BY <1>2, SubSeqFull
<1>. QED
  BY <1>1, <1>2, <1>3

\* piperead takes the first bytes.
LEMMA QueueRead ==
  ASSUME Inv, Inv', NEW p \in Procs, NEW k \in 0 .. PIPESIZE, PipeRead(p, k), NEW a \in Pages, PipeOf(p) = a
  PROVE  \E j \in 0 .. Len(Queue(a)) : Queue(a)' = SubSeq(Queue(a), j + 1, Len(Queue(a)))
<1>1. CASE Unread(a) = 0 /\ pipe[a].writeopen
  <2>1. SameBytes(a)
    BY <1>1 DEF PipeRead, SameBytes
  <2>. QED
    BY <2>1, QueueSame
<1>2. CASE ~(Unread(a) = 0 /\ pipe[a].writeopen)
  <2>1. k <= Unread(a) /\ pipe' = [pipe EXCEPT ![a].nread = (@ + k) % Wrap]
    BY <1>2 DEF PipeRead
  <2>2. PICK x \in 0 .. Wrap - 1, w \in 0 .. Wrap - 1, j \in 0 .. Wrap - 1 :
          x = pipe[a].nread /\ w = pipe[a].nwrite /\ j = k
    <3>1. PIPESIZE \in Nat /\ Wrap \in Nat /\ PIPESIZE < Wrap
      BY Sizes
    <3>2. k \in 0 .. Wrap - 1
      BY <3>1
    <3>3. pipe[a].nread \in 0 .. Wrap - 1 /\ pipe[a].nwrite \in 0 .. Wrap - 1
      BY PipeIs
    <3>. QED
      BY <3>2, <3>3, Zenon
  <2>3. pipe'[a].nread = (x + j) % Wrap /\ pipe'[a].nwrite = w /\ pipe'[a].data = pipe[a].data
    BY <2>1, <2>2 DEF Inv, TypeOK, PipeRecords
  <2>4. PICK u \in Nat : u = Unread(a) /\ j <= u
    BY <2>1, <2>2, PipeIs, Sizes
  <2>5. u = (w - x) % Wrap
    BY <2>2, <2>4 DEF Unread
  <2>6. Unread(a)' = u - j
    <3>1. Unread(a)' = (w - ((x + j) % Wrap)) % Wrap
      BY <2>3 DEF Unread
    <3>2. j <= (w - x) % Wrap
      BY <2>4, <2>5
    <3>3. (w - ((x + j) % Wrap)) % Wrap = ((w - x) % Wrap) - j
      BY <3>2, CounterRead
    <3>. QED
      BY <2>5, <3>1, <3>3
  <2>7. PICK q \in Seq(Bytes) : /\ q = Queue(a) /\ Len(q) = u
                                /\ \A i \in 1 .. u : q[i] = pipe[a].data[(x + i - 1) % PIPESIZE]
    BY <2>2, <2>4, QueueIs DEF QueueAgrees
  <2>8. PICK n \in Seq(Bytes) : /\ n = Queue(a)' /\ Len(n) = u - j
                                /\ \A i \in 1 .. u - j : n[i] = pipe[a].data[(((x + j) % Wrap) + i - 1) % PIPESIZE]
    <3>1. /\ Queue(a)' \in Seq(Bytes) /\ Len(Queue(a)') = Unread(a)'
          /\ \A i \in 1 .. Unread(a)' : Queue(a)'[i] = pipe'[a].data[(pipe'[a].nread + i - 1) % PIPESIZE]
      BY QueueNext DEF QueueAgrees
    <3>2. PICK y : y = (x + j) % Wrap
      OBVIOUS
    <3>3. pipe'[a].nread = y /\ pipe'[a].data = pipe[a].data
      BY <2>3, <3>2
    <3>4. \A i \in 1 .. u - j : Queue(a)'[i] = pipe[a].data[(y + i - 1) % PIPESIZE]
      BY <2>6, <3>1, <3>3
    <3>5. Queue(a)' \in Seq(Bytes) /\ Len(Queue(a)') = u - j
      BY <2>6, <3>1
    <3>. QED
      BY <3>2, <3>4, <3>5
  <2>9. ASSUME NEW i \in 1 .. u - j PROVE n[i] = q[j + i] /\ j + i \in 1 .. u
    <3>1. i - 1 \in Nat /\ j + i \in 1 .. u
      BY <2>4
    <3>2. (((x + j) % Wrap) + (i - 1)) % PIPESIZE = ((x + j) + (i - 1)) % PIPESIZE
      BY <3>1, SamePlace
    <3>3. /\ ((x + j) % Wrap) + i - 1 = ((x + j) % Wrap) + (i - 1)
          /\ x + (j + i) - 1 = (x + j) + (i - 1)
      BY <2>4, Sizes
    <3>4. n[i] = pipe[a].data[(((x + j) % Wrap) + i - 1) % PIPESIZE]
      BY <2>8
    <3>5. q[j + i] = pipe[a].data[(x + (j + i) - 1) % PIPESIZE]
      BY <2>7, <3>1
    <3>. QED
      BY <3>1, <3>2, <3>3, <3>4, <3>5
  <2>10. PICK t \in Seq(Bytes) : /\ t = SubSeq(q, j + 1, u) /\ Len(t) = u - j
                                 /\ \A i \in 1 .. u - j : t[i] = q[j + i]
    <3>1. \A i \in j + 1 .. u : q[i] \in Bytes
      BY <2>4, <2>7
    <3>2. /\ SubSeq(q, j + 1, u) \in Seq(Bytes)
          /\ Len(SubSeq(q, j + 1, u)) = IF j + 1 <= u THEN u - (j + 1) + 1 ELSE 0
          /\ \A i \in 1 .. u - (j + 1) + 1 : SubSeq(q, j + 1, u)[i] = q[(j + 1) + i - 1]
      BY <2>4, <3>1, SubSeqProperties, SMTT(30)
    <3>3. Len(SubSeq(q, j + 1, u)) = u - j /\ u - (j + 1) + 1 = u - j
      BY <2>4, <3>2
    <3>4. ASSUME NEW i \in 1 .. u - j PROVE SubSeq(q, j + 1, u)[i] = q[j + i]
      <4>1. (j + 1) + i - 1 = j + i
        OBVIOUS
      <4>. QED
        BY <3>2, <3>3, <4>1
    <3>. QED
      BY <3>2, <3>3, <3>4
  <2>11. n = t
    <3>1. Len(n) = Len(t) /\ \A i \in 1 .. Len(n) : n[i] = t[i]
      BY <2>8, <2>9, <2>10
    <3>. QED
      BY <3>1, SeqEqual
  <2>12. j \in 0 .. Len(Queue(a)) /\ Queue(a)' = SubSeq(Queue(a), j + 1, Len(Queue(a)))
    BY <2>4, <2>7, <2>8, <2>10, <2>11
  <2>. QED
    BY <2>12
<1>. QED
  BY <1>1, <1>2

\* pipewrite appends a byte, and overwrites none that has still to be read.
LEMMA QueueAppend ==
  ASSUME Inv, Inv', NEW p \in Procs, PipeByte(p), NEW a \in Pages, PipeOf(p) = a
  PROVE  \E b \in Bytes : Queue(a)' = Append(Queue(a), b)
<1>1. PICK x \in 0 .. Wrap - 1, w \in 0 .. Wrap - 1 : x = pipe[a].nread /\ w = pipe[a].nwrite
  BY PipeIs
<1>2. PICK u \in Nat : u = Unread(a) /\ u < PIPESIZE /\ Unread(a)' = u + 1
  <2>1. Unread(a) \in 0 .. PIPESIZE
    BY PipeIs
  <2>2. Unread(a)' = Unread(a) + 1 /\ Unread(a) < PIPESIZE
    BY PipeByteIs
  <2>3. Unread(a) \in Nat
    BY <2>1, Sizes
  <2>. QED
    BY <2>2, <2>3
<1>3. PICK dt \in [0 .. PIPESIZE - 1 -> Bytes] : dt = pipe[a].data
  BY PipeIs DEF PipeRecords
<1>4. /\ pipe'[a].nread = x /\ w % PIPESIZE \in 0 .. PIPESIZE - 1
      /\ pipe'[a].data = [dt EXCEPT ![w % PIPESIZE] = w]
  BY <1>1, <1>3, PipeByteIs
<1>5. PICK q \in Seq(Bytes) : /\ q = Queue(a) /\ Len(q) = u
                              /\ \A i \in 1 .. u : q[i] = dt[(x + i - 1) % PIPESIZE]
  BY <1>1, <1>2, <1>3, QueueIs DEF QueueAgrees
<1>6. PICK n \in Seq(Bytes) : /\ n = Queue(a)' /\ Len(n) = u + 1
                              /\ \A i \in 1 .. u + 1 : n[i] = pipe'[a].data[(x + i - 1) % PIPESIZE]
  <2>1. /\ Queue(a)' \in Seq(Bytes) /\ Len(Queue(a)') = Unread(a)'
        /\ \A i \in 1 .. Unread(a)' : Queue(a)'[i] = pipe'[a].data[(pipe'[a].nread + i - 1) % PIPESIZE]
    BY QueueNext DEF QueueAgrees
  <2>2. Unread(a)' = u + 1 /\ pipe'[a].nread = x
    BY <1>2, <1>4
  <2>. HIDE DEF Queue, Unread
  <2>. QED
    BY <2>1, <2>2
<1>7. w % PIPESIZE = (x + u) % PIPESIZE
  <2>0. Wrap \in Nat \ {0} /\ PIPESIZE \in Nat \ {0} /\ \E k \in 0 .. Wrap - 1 : k = u
    <3>1. Wrap \in Nat \ {0} /\ PIPESIZE \in Nat \ {0} /\ PIPESIZE < Wrap
      BY Sizes
    <3>2. u \in Nat /\ u < PIPESIZE
      BY <1>2
    <3>3. u \in 0 .. Wrap - 1
      BY <3>1, <3>2
    <3>. QED
      BY <3>1, <3>3
  <2>1. PICK k \in 0 .. Wrap - 1 : k = u
    BY <2>0
  <2>2. (w - x) % Wrap = k
    BY <1>1, <1>2, <2>1 DEF Unread
  <2>3. w = (x + k) % Wrap
    BY <2>2, CounterIs
  <2>4. (((x + k) % Wrap) + 0) % PIPESIZE = ((x + k) + 0) % PIPESIZE
    BY SamePlace
  <2>5. ((x + k) % Wrap) + 0 = w /\ (x + k) + 0 = x + u
    BY <2>1, <2>3
  <2>. QED
    BY <2>4, <2>5
<1>8. ASSUME NEW i \in 1 .. u PROVE n[i] = q[i]
  <2>1. PICK y \in Int, d \in 1 .. PIPESIZE - 1 : y = x + i - 1 /\ y + d = x + u
    <3>1. PIPESIZE \in Nat \ {0} /\ u \in Nat /\ u < PIPESIZE /\ x \in Nat /\ i \in Nat /\ 1 <= i /\ i <= u
      BY <1>2, Sizes
    <3>2. (u - i) + 1 \in 1 .. PIPESIZE - 1
      BY <3>1
    <3>3. x + i - 1 \in Int /\ (x + i - 1) + ((u - i) + 1) = x + u
      BY <3>1
    <3>. QED
      BY <3>2, <3>3
  <2>2. y % PIPESIZE # w % PIPESIZE /\ y % PIPESIZE \in 0 .. PIPESIZE - 1
    <3>1. y % PIPESIZE # (y + d) % PIPESIZE
      BY Sizes, ModDiffer
    <3>2. y % PIPESIZE \in 0 .. PIPESIZE - 1
      BY Sizes
    <3>. QED
      BY <1>7, <2>1, <3>1, <3>2
  <2>3. pipe'[a].data[y % PIPESIZE] = dt[y % PIPESIZE]
    BY <1>4, <2>2
  <2>4. n[i] = pipe'[a].data[(x + i - 1) % PIPESIZE] /\ q[i] = dt[(x + i - 1) % PIPESIZE]
    BY <1>2, <1>5, <1>6
  <2>. QED
    BY <2>1, <2>3, <2>4
<1>9. n[u + 1] = w
  <2>1. n[u + 1] = pipe'[a].data[(x + (u + 1) - 1) % PIPESIZE] /\ x + (u + 1) - 1 = x + u
    BY <1>2, <1>6
  <2>2. n[u + 1] = pipe'[a].data[w % PIPESIZE]
    BY <1>7, <2>1
  <2>. QED
    BY <1>4, <2>2
<1>10. w \in Bytes
  BY DEF Bytes
<1>11. PICK t \in Seq(Bytes) : /\ t = Append(q, w) /\ Len(t) = u + 1 /\ t[u + 1] = w
                               /\ \A i \in 1 .. u : t[i] = q[i]
  <2>1. /\ Append(q, w) \in Seq(Bytes) /\ Len(Append(q, w)) = Len(q) + 1
        /\ \A i \in 1 .. Len(q) : Append(q, w)[i] = q[i]
        /\ Append(q, w)[Len(q) + 1] = w
    BY <1>10, AppendProperties
  <2>. QED
    BY <1>5, <2>1
<1>12. n = t
  <2>1. ASSUME NEW i \in 1 .. u + 1 PROVE n[i] = t[i]
    <3>1. i \in 1 .. u \/ i = u + 1
      BY <1>2
    <3>. QED
      BY <1>8, <1>9, <1>11, <3>1
  <2>2. Len(n) = Len(t) /\ \A i \in 1 .. Len(n) : n[i] = t[i]
    BY <1>6, <1>11, <2>1
  <2>. QED
    BY <2>2, SeqEqual
<1>. QED
  BY <1>5, <1>6, <1>10, <1>11, <1>12

\* Pipes: what is read is what was written, in that order and once, and never more than
\* PIPESIZE bytes are in a pipe, for every size of the buffer and wherever the unsigned
\* counters nread and nwrite wrap around, as long as the size divides their range.
THEOREM PipeQueue == Spec => PipeIsFifo
<1>. DEFINE A == \A a \in Pages : a \in page /\ a \in page' =>
       /\ Len(Queue(a)') <= PIPESIZE
       /\ \/ \E b \in Bytes : Queue(a)' = Append(Queue(a), b)
          \/ \E k \in 0 .. Len(Queue(a)) : Queue(a)' = SubSeq(Queue(a), k + 1, Len(Queue(a)))
<1>1. Inv /\ Inv' /\ Next => A
  <2>. SUFFICES ASSUME Inv, Inv', Next, NEW a \in Pages, a \in page, a \in page'
                PROVE  /\ Len(Queue(a)') <= PIPESIZE
                       /\ \/ \E b \in Bytes : Queue(a)' = Append(Queue(a), b)
                          \/ \E k \in 0 .. Len(Queue(a)) : Queue(a)' = SubSeq(Queue(a), k + 1, Len(Queue(a)))
    OBVIOUS
  <2>1. Len(Queue(a)') <= PIPESIZE
    BY QueueNext, Sizes DEF QueueAgrees
  <2>2. CASE SameBytes(a)
    BY <2>1, <2>2, QueueSame
  <2>3. ASSUME NEW p \in Procs, PipeOf(p) = a, NEW k \in 0 .. PIPESIZE, PipeRead(p, k)
        PROVE  \E j \in 0 .. Len(Queue(a)) : Queue(a)' = SubSeq(Queue(a), j + 1, Len(Queue(a)))
    BY <2>3, QueueRead
  <2>4. ASSUME NEW p \in Procs, PipeOf(p) = a, PipeByte(p)
        PROVE  \E b \in Bytes : Queue(a)' = Append(Queue(a), b)
    BY <2>4, QueueAppend
  <2>. QED
    BY <2>1, <2>2, <2>3, <2>4, PipeStep
<1>2. Inv /\ Inv' /\ [Next]_vars => [A]_vars
  BY <1>1
<1>. QED
  BY <1>2, InvHolds, PTL DEF Spec, PipeIsFifo
=============================================================================
