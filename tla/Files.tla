-------------------------------- MODULE Files -------------------------------
(***************************************************************************)
(* The file table (kernel/file.c), pipes (kernel/pipe.c) and the system    *)
(* calls on descriptors (kernel/sysfile.c): pipe, open, dup, close, read,  *)
(* write, with fork and exit, which copy and close a process's             *)
(* descriptors, and kill.                                                  *)
(*                                                                         *)
(* A section under ftable.lock or under a pipe's lock is one step, except  *)
(* that pipewrite takes one per byte: killed() may change between two.     *)
(* Inodes (fs.c) are here only as a count of the references that open      *)
(* files hold.                                                             *)
(***************************************************************************)
EXTENDS Integers, Sequences, SequencesExt

CONSTANTS Procs,     \* processes; Init starts one of them
          First,     \* the one that runs at first
          Nofiles,   \* numbers of descriptors of a process (NOFILE) to consider
          Files,     \* positions in ftable.file
          Pages,     \* pages kalloc has for pipes
          PIPESIZE,  \* bytes in a pipe
          Wrap,      \* nread and nwrite are counted modulo this
          MaxWrite,  \* bytes in one write
          None       \* a null pointer

ASSUME FilesAssumption ==
  /\ First \in Procs /\ IsFiniteSet(Procs) /\ MaxWrite \in Nat \ {0}
  /\ Nofiles \subseteq Nat \ {0} /\ \E n \in Nofiles : \A k \in Nofiles : k <= n
  /\ Files \subseteq Nat /\ IsFiniteSet(Files)
  /\ PIPESIZE \in Nat \ {0} /\ Wrap \in Nat
  /\ \E m \in 2 .. Wrap : Wrap = m * PIPESIZE
  /\ None \notin Files \cup Pages \cup Procs

VARIABLES nofile,  \* NOFILE
          file,    \* ref, type, writable and pipe of every file structure
          pipe,    \* the pipe structure in every page, meaningful while it is allocated
          page,    \* pages in use as pipes
          iref,    \* inode references held by open files
          ofile,   \* descriptors of every process
          run,     \* "unused", "alive", or "exiting"
          killed,  \* p->killed
          pc,      \* where in a system call a process is
          todo,    \* files it still has to pass to fileclose
          ff,      \* fileclose's copy of the file
          arg,     \* file it reads or writes, or is creating, and bytes left to write
          panicked

fileVars == <<file, iref>>
pipeVars == <<pipe, page>>
procVars == <<ofile, run, killed>>
callVars == <<pc, todo, ff, arg>>
vars     == <<nofile, fileVars, pipeVars, procVars, callVars, panicked>>

FDs == 0 .. Max(Nofiles) - 1
Bytes == 0 .. Wrap - 1
Closed == [ref |-> 0, type |-> "none", writable |-> FALSE, pipe |-> None]
NoArg  == [f |-> None, g |-> None, n |-> 0]
\* what pipealloc makes of a page, and what kfree leaves in one
NewPipe == [data |-> [i \in 0 .. PIPESIZE - 1 |-> 0],
            nread |-> 0, nwrite |-> 0, readopen |-> TRUE, writeopen |-> TRUE, lock |-> None]
Junk    == NewPipe

\* struct file and struct pipe
FileRecords == [ref : Nat, type : {"none", "pipe", "inode"}, writable : BOOLEAN, pipe : Pages \cup {None}]
PipeRecords == [data : [0 .. PIPESIZE - 1 -> Bytes], nread : Bytes, nwrite : Bytes,
                readopen : BOOLEAN, writeopen : BOOLEAN, lock : Procs \cup {None}]

TypeOK ==
  /\ nofile \in Nofiles
  /\ file \in [Files -> FileRecords]
  /\ pipe \in [Pages -> PipeRecords]
  /\ page \subseteq Pages /\ iref \in Nat
  /\ ofile \in [Procs -> [FDs -> Files \cup {None}]]
  /\ run \in [Procs -> {"unused", "alive", "exiting"}]
  /\ killed \in [Procs -> BOOLEAN]
  /\ pc \in [Procs -> {"user", "close", "pipeclose", "pipe1", "pipe2", "pipe3", "open1",
                       "read", "readAsleep", "write", "writing", "writeAsleep"}]
  /\ todo \in [Procs -> Seq(Files)]
  /\ ff \in [Procs -> FileRecords]
  /\ arg \in [Procs -> [f : Files \cup {None}, g : Files \cup {None}, n : 0 .. MaxWrite]]
  /\ panicked \in BOOLEAN

Init ==
  /\ nofile \in Nofiles
  /\ file = [f \in Files |-> Closed]
  /\ pipe = [a \in Pages |-> Junk]
  /\ page = {} /\ iref = 0
  /\ ofile = [p \in Procs |-> [d \in FDs |-> None]]
  /\ run = [p \in Procs |-> IF p = First THEN "alive" ELSE "unused"]
  /\ killed = [p \in Procs |-> FALSE]
  /\ pc = [p \in Procs |-> "user"]
  /\ todo = [p \in Procs |-> <<>>]
  /\ ff = [p \in Procs |-> Closed]
  /\ arg = [p \in Procs |-> NoArg]
  /\ panicked = FALSE

\* p is in user mode, and not about to exit because it was killed
InUser(p) == run[p] = "alive" /\ pc[p] = "user" /\ ~killed[p] /\ ~panicked

-----------------------------------------------------------------------------
(* filealloc, fdalloc, filedup *)

FreeFiles == {f \in Files : file[f].ref = 0}
FreeFds(p) == {d \in 0 .. nofile - 1 : ofile[p][d] = None}
Lowest(S) == CHOOSE d \in S : \A e \in S : d <= e

\* filealloc: a file structure with one reference; the other fields are as fileclose
\* left them
FileAlloc(f) == file' = [file EXCEPT ![f].ref = 1]

\* sys_dup: fdalloc, then filedup
Dup(p, d) ==
  /\ InUser(p) /\ ofile[p][d] # None /\ FreeFds(p) # {}
  /\ ofile' = [ofile EXCEPT ![p][Lowest(FreeFds(p))] = ofile[p][d]]
  /\ file' = [file EXCEPT ![ofile[p][d]].ref = @ + 1]
  /\ UNCHANGED <<iref, pipeVars, run, killed, callVars, panicked>>

\* how many descriptors of p name f
FdsOf(p, f) == Cardinality({d \in FDs : ofile[p][d] = f})

\* fault variant of ForkFiles: the descriptors are copied without filedup
ForkShares(p) == file

\* fork and clone: filedup of every open file, which p keeps open meanwhile
ForkFiles(p) == [f \in Files |-> [file[f] EXCEPT !.ref = @ + FdsOf(p, f)]]

Fork(p, q) ==
  /\ InUser(p) /\ run[q] = "unused"
  /\ run' = [run EXCEPT ![q] = "alive"]
  /\ ofile' = [ofile EXCEPT ![q] = ofile[p]]
  /\ file' = ForkFiles(p)
  /\ UNCHANGED <<iref, pipeVars, killed, callVars, panicked>>

-----------------------------------------------------------------------------
(* fileclose: close, exit, and the error paths of pipe and open *)

\* p goes on with fileclose for the files in s, one after the other
CloseAll(p, s) ==
  /\ todo' = [todo EXCEPT ![p] = s]
  /\ pc' = [pc EXCEPT ![p] = IF s = <<>> THEN "user" ELSE "close"]
  /\ arg' = [arg EXCEPT ![p] = NoArg]

\* sys_close
Close(p, d) ==
  /\ InUser(p) /\ ofile[p][d] # None
  /\ ofile' = [ofile EXCEPT ![p][d] = None]
  /\ CloseAll(p, <<ofile[p][d]>>)
  /\ UNCHANGED <<fileVars, pipeVars, run, killed, ff, panicked>>

\* kexit, by itself or because the process was killed
Exit(p) ==
  /\ run[p] = "alive" /\ pc[p] = "user" /\ ~panicked
  /\ run' = [run EXCEPT ![p] = "exiting"]
  /\ UNCHANGED <<fileVars, pipeVars, ofile, killed, callVars, panicked>>

OpenFds(p) == {d \in FDs : ofile[p][d] # None}

\* kexit's loop over its descriptors, one turn (the code clears ofile[fd] after fileclose;
\* nobody else reads the descriptors of an exiting process)
ExitFile(p) ==
  /\ run[p] = "exiting" /\ pc[p] = "user" /\ OpenFds(p) # {}
  /\ LET d == Lowest(OpenFds(p)) IN
       /\ ofile' = [ofile EXCEPT ![p][d] = None]
       /\ CloseAll(p, <<ofile[p][d]>>)
  /\ UNCHANGED <<fileVars, pipeVars, run, killed, ff, panicked>>

\* the rest of exit, and wait in the parent
Reap(p) ==
  /\ run[p] = "exiting" /\ pc[p] = "user" /\ OpenFds(p) = {}
  /\ run' = [run EXCEPT ![p] = "unused"]
  /\ killed' = [killed EXCEPT ![p] = FALSE]
  /\ UNCHANGED <<fileVars, pipeVars, ofile, callVars, panicked>>

\* fault variant of Emptied: the type is left behind
EmptiedKeepsType(f) == [file EXCEPT ![f].ref = 0]

\* f->ref = 0; f->type = FD_NONE
Emptied(f) == [file EXCEPT ![f].ref = 0, ![f].type = "none"]

\* under ftable.lock: drop a reference, and copy and empty the structure with the last
FileClose(p) ==
  /\ pc[p] = "close" /\ ~panicked
  /\ LET f == Head(todo[p]) IN
       IF file[f].ref < 1
         THEN panicked' = TRUE /\ UNCHANGED <<file, pc, todo, ff>>
         ELSE /\ todo' = [todo EXCEPT ![p] = Tail(@)]
              /\ IF file[f].ref > 1 \/ file[f].type = "none"
                   THEN /\ pc' = [pc EXCEPT ![p] = IF Tail(todo[p]) = <<>> THEN "user" ELSE "close"]
                        /\ UNCHANGED ff
                   ELSE /\ pc' = [pc EXCEPT ![p] = "pipeclose"]
                        /\ ff' = [ff EXCEPT ![p] = file[f]]
              /\ file' = IF file[f].ref > 1 THEN [file EXCEPT ![f].ref = @ - 1] ELSE Emptied(f)
              /\ UNCHANGED panicked
  /\ UNCHANGED <<iref, pipeVars, procVars, arg>>

\* wakeup(&pi->nread) and wakeup(&pi->nwrite)
Sleeps(q, stage, a) == pc[q] = stage /\ file[arg[q].f].pipe = a
WakeReaders(a) == [q \in Procs |-> IF Sleeps(q, "readAsleep", a) THEN "read" ELSE pc[q]]
WakeWriters(a) == [q \in Procs |-> IF Sleeps(q, "writeAsleep", a) THEN "write" ELSE pc[q]]

\* fault variant of ClosedEnd: the writers are woken whichever end is closed
ClosedEndWakesWriters(a, writable) == WakeWriters(a)

\* pipeclose wakes the sleepers at the other end
ClosedEnd(a, writable) == IF writable THEN WakeReaders(a) ELSE WakeWriters(a)

\* where fileclose returns to
Next1(p) == IF todo[p] = <<>> THEN "user" ELSE "close"

\* the rest of fileclose: pipeclose, which frees the page with the second end, or iput
PipeClose(p) ==
  /\ pc[p] = "pipeclose"
  /\ \/ /\ ff[p].type = "pipe"
        /\ LET a == ff[p].pipe
               w == ff[p].writable
           IN /\ pipe[a].lock = None
              /\ pc' = [ClosedEnd(a, w) EXCEPT ![p] = Next1(p)]
              /\ IF IF w THEN pipe[a].readopen ELSE pipe[a].writeopen
                   THEN /\ pipe' = [pipe EXCEPT ![a].writeopen = @ /\ ~w, ![a].readopen = @ /\ w]
                        /\ UNCHANGED page
                   ELSE pipe' = [pipe EXCEPT ![a] = Junk] /\ page' = page \ {a}
        /\ UNCHANGED iref
     \/ /\ ff[p].type = "inode"
        /\ iref' = iref - 1
        /\ pc' = [pc EXCEPT ![p] = Next1(p)]
        /\ UNCHANGED <<pipe, page>>
  /\ ff' = [ff EXCEPT ![p] = Closed]
  /\ UNCHANGED <<file, procVars, todo, arg, panicked>>

-----------------------------------------------------------------------------
(* sys_pipe and the descriptor part of sys_open *)

\* filealloc for the read end, for the write end, or for an inode
PipeStart(p) ==
  /\ InUser(p) /\ FreeFiles # {}
  /\ FileAlloc(Lowest(FreeFiles))
  /\ arg' = [arg EXCEPT ![p].f = Lowest(FreeFiles)]
  /\ pc' = [pc EXCEPT ![p] = "pipe1"]
  /\ UNCHANGED <<iref, pipeVars, procVars, todo, ff, panicked>>

PipeSecond(p) ==
  /\ pc[p] = "pipe1"
  /\ IF FreeFiles = {}
       THEN CloseAll(p, <<arg[p].f>>) /\ UNCHANGED file
       ELSE /\ FileAlloc(Lowest(FreeFiles))
            /\ arg' = [arg EXCEPT ![p].g = Lowest(FreeFiles)]
            /\ pc' = [pc EXCEPT ![p] = "pipe2"]
            /\ UNCHANGED todo
  /\ UNCHANGED <<iref, pipeVars, procVars, ff, panicked>>

\* kalloc, and the fields of the pipe and of both files
PipeInit(p) ==
  /\ pc[p] = "pipe2"
  /\ \/ /\ page = Pages
        /\ CloseAll(p, <<arg[p].f, arg[p].g>>)
        /\ UNCHANGED <<file, pipe, page>>
     \/ \E a \in Pages \ page :
          /\ page' = page \cup {a}
          /\ pipe' = [pipe EXCEPT ![a] = NewPipe]
          /\ file' = [file EXCEPT
               ![arg[p].f] = [ref |-> 1, type |-> "pipe", writable |-> FALSE, pipe |-> a],
               ![arg[p].g] = [ref |-> 1, type |-> "pipe", writable |-> TRUE, pipe |-> a]]
          /\ pc' = [pc EXCEPT ![p] = "pipe3"]
          /\ UNCHANGED <<todo, arg>>
  /\ UNCHANGED <<iref, procVars, ff, panicked>>

\* two fdallocs and the copyouts; what fails closes both ends
PipeFds(p, copied) ==
  /\ pc[p] = "pipe3"
  /\ IF copied /\ Cardinality(FreeFds(p)) >= 2
       THEN /\ LET d == Lowest(FreeFds(p))
                   e == Lowest(FreeFds(p) \ {d})
               IN ofile' = [ofile EXCEPT ![p][d] = arg[p].f, ![p][e] = arg[p].g]
            /\ CloseAll(p, <<>>)
       ELSE CloseAll(p, <<arg[p].f, arg[p].g>>) /\ UNCHANGED ofile
  /\ UNCHANGED <<fileVars, pipeVars, run, killed, ff, panicked>>

OpenStart(p) ==
  /\ InUser(p) /\ FreeFiles # {}
  /\ FileAlloc(Lowest(FreeFiles))
  /\ arg' = [arg EXCEPT ![p].f = Lowest(FreeFiles)]
  /\ pc' = [pc EXCEPT ![p] = "open1"]
  /\ UNCHANGED <<iref, pipeVars, procVars, todo, ff, panicked>>

OpenFd(p) ==
  /\ pc[p] = "open1"
  /\ IF FreeFds(p) = {}
       THEN CloseAll(p, <<arg[p].f>>) /\ UNCHANGED <<file, iref, ofile>>
       ELSE /\ file' = [file EXCEPT ![arg[p].f].type = "inode", ![arg[p].f].writable = FALSE]
            /\ iref' = iref + 1
            /\ ofile' = [ofile EXCEPT ![p][Lowest(FreeFds(p))] = arg[p].f]
            /\ CloseAll(p, <<>>)
  /\ UNCHANGED <<pipeVars, run, killed, ff, panicked>>

-----------------------------------------------------------------------------
(* read, write and kill *)

\* fileread and filewrite pass a pipe to piperead and pipewrite
Read(p, d) ==
  /\ InUser(p) /\ ofile[p][d] # None
  /\ file[ofile[p][d]].type = "pipe" /\ ~file[ofile[p][d]].writable
  /\ arg' = [arg EXCEPT ![p].f = ofile[p][d]]
  /\ pc' = [pc EXCEPT ![p] = "read"]
  /\ UNCHANGED <<fileVars, pipeVars, procVars, todo, ff, panicked>>

Write(p, d, n) ==
  /\ InUser(p) /\ ofile[p][d] # None
  /\ file[ofile[p][d]].type = "pipe" /\ file[ofile[p][d]].writable
  /\ arg' = [arg EXCEPT ![p].f = ofile[p][d], ![p].n = n]
  /\ pc' = [pc EXCEPT ![p] = "write"]
  /\ UNCHANGED <<fileVars, pipeVars, procVars, todo, ff, panicked>>

Unread(a) == (pipe[a].nwrite - pipe[a].nread) % Wrap
PipeOf(p) == file[arg[p].f].pipe

\* fault variant of PipeFull: a byte too late
PipeFullLate(a) == pipe[a].nwrite = (pipe[a].nread + PIPESIZE + 1) % Wrap

PipeFull(a) == pipe[a].nwrite = (pipe[a].nread + PIPESIZE) % Wrap

\* kkill takes p->lock and no pipe's: a kill may come between p's test of killed() and
\* sleep(), which then sets the state of a process that nobody will wake for it
LateKill(p) ==
  \/ killed' = killed
  \/ (\E q \in Procs : InUser(q)) /\ killed' = [killed EXCEPT ![p] = TRUE]

\* piperead returns with k bytes: at the end of the data, of the caller's buffer, or
\* of what copyout could store
PipeRead(p, k) ==
  /\ pc[p] = "read"
  /\ LET a == PipeOf(p) IN
       /\ pipe[a].lock = None
       /\ IF Unread(a) = 0 /\ pipe[a].writeopen
            THEN /\ k = 0
                 /\ pc' = [pc EXCEPT ![p] = IF killed[p] THEN "user" ELSE "readAsleep"]
                 /\ arg' = [arg EXCEPT ![p] = IF killed[p] THEN NoArg ELSE @]
                 /\ LateKill(p)
                 /\ UNCHANGED pipe
            ELSE /\ k <= Unread(a)
                 /\ pipe' = [pipe EXCEPT ![a].nread = (@ + k) % Wrap]
                 /\ pc' = [WakeWriters(a) EXCEPT ![p] = "user"]
                 /\ arg' = [arg EXCEPT ![p] = NoArg]
                 /\ UNCHANGED killed
  /\ UNCHANGED <<fileVars, page, ofile, run, todo, ff, panicked>>

PipeWriteLock(p) ==
  /\ pc[p] = "write" /\ pipe[PipeOf(p)].lock = None
  /\ pipe' = [pipe EXCEPT ![PipeOf(p)].lock = p]
  /\ pc' = [pc EXCEPT ![p] = "writing"]
  /\ UNCHANGED <<fileVars, page, procVars, todo, ff, arg, panicked>>

\* one turn of the loop; the bytes of a pipe are numbered, so that any two that can
\* be in it together differ
PipeByte(p) ==
  /\ pc[p] = "writing" /\ arg[p].n > 0
  /\ LET a == PipeOf(p) IN
       /\ pipe[a].readopen /\ ~killed[p] /\ ~PipeFull(a)
       /\ pipe' = [pipe EXCEPT ![a].data[pipe[a].nwrite % PIPESIZE] = pipe[a].nwrite,
                               ![a].nwrite = (@ + 1) % Wrap]
  /\ arg' = [arg EXCEPT ![p].n = @ - 1]
  /\ UNCHANGED <<fileVars, page, procVars, pc, todo, ff, panicked>>

\* fault variant of PipeWriteDone: the readers are not woken
PipeWriteDoneSilent(p) == pc' = [pc EXCEPT ![p] = "user"]

\* all bytes are written, or copyin failed
PipeWriteDone(p) == pc' = [WakeReaders(PipeOf(p)) EXCEPT ![p] = "user"]

\* the reader's end is closed, or the writer was killed: the readers are not woken
PipeWriteFails(p) ==
  /\ arg[p].n > 0 /\ (~pipe[PipeOf(p)].readopen \/ killed[p])
  /\ pc' = [pc EXCEPT ![p] = "user"]

PipeWriteWaits(p) ==
  /\ arg[p].n > 0 /\ pipe[PipeOf(p)].readopen /\ ~killed[p] /\ PipeFull(PipeOf(p))
  /\ pc' = [WakeReaders(PipeOf(p)) EXCEPT ![p] = "writeAsleep"]
  /\ LateKill(p)

\* pipewrite gives the lock back, on return or to sleep
PipeWriteUnlock(p) ==
  /\ pc[p] = "writing"
  /\ \/ /\ arg[p].n = 0 \/ (pipe[PipeOf(p)].readopen /\ ~killed[p] /\ ~PipeFull(PipeOf(p)))
        /\ PipeWriteDone(p) /\ UNCHANGED killed
     \/ PipeWriteFails(p) /\ UNCHANGED killed
     \/ PipeWriteWaits(p)
  /\ pipe' = [pipe EXCEPT ![PipeOf(p)].lock = None]
  /\ arg' = [arg EXCEPT ![p] = IF pc'[p] = "user" THEN NoArg ELSE @]
  /\ UNCHANGED <<fileVars, page, ofile, run, todo, ff, panicked>>

\* kkill: a sleeper runs again, and finds out in its loop
Kill(q) ==
  /\ run[q] = "alive" /\ \E p \in Procs : InUser(p)
  /\ killed' = [killed EXCEPT ![q] = TRUE]
  /\ pc' = [pc EXCEPT ![q] = CASE @ = "readAsleep"  -> "read"
                               [] @ = "writeAsleep" -> "write"
                               [] OTHER -> @]
  /\ UNCHANGED <<fileVars, pipeVars, ofile, run, todo, ff, arg, panicked>>

-----------------------------------------------------------------------------
Next ==
  /\ \E p \in Procs :
       \/ \E d \in FDs : \/ Dup(p, d) \/ Close(p, d) \/ Read(p, d)
                         \/ \E n \in 1 .. MaxWrite : Write(p, d, n)
       \/ \E q \in Procs : Fork(p, q)
       \/ Exit(p) \/ ExitFile(p) \/ Reap(p) \/ FileClose(p) \/ PipeClose(p)
       \/ PipeStart(p) \/ PipeSecond(p) \/ PipeInit(p)
       \/ \E copied \in BOOLEAN : PipeFds(p, copied)
       \/ OpenStart(p) \/ OpenFd(p)
       \/ \E k \in 0 .. PIPESIZE : PipeRead(p, k)
       \/ PipeWriteLock(p) \/ PipeByte(p) \/ PipeWriteUnlock(p)
       \/ Kill(p)
  /\ UNCHANGED nofile

Spec == Init /\ [][Next]_vars

-----------------------------------------------------------------------------
(* Properties *)

\* the files a call of p has in hand: those it has still to close or is creating
Creating == {"pipe1", "pipe2", "pipe3", "open1"}
InHand(p) == ToSet(todo[p]) \cup (IF pc[p] \in Creating THEN {arg[p].f, arg[p].g} \ {None} ELSE {})

\* references to f: descriptors and calls under way
Descriptors(f) == {h \in Procs \X FDs : ofile[h[1]][h[2]] = f}
Calls(f) == {p \in Procs : f \in InHand(p)}

\* f->ref is the number of descriptors, and of calls under way, that have the file;
\* so it is neither taken for free while in use nor lost.  The inode references are
\* those of the open files.  All error paths of pipe and open are included.
FileRefsExact ==
  /\ TypeOK /\ ~panicked
  /\ \A f \in Files : file[f].ref = Cardinality(Descriptors(f)) + Cardinality(Calls(f))
  /\ iref = Cardinality({f \in Files : file[f].ref > 0 /\ file[f].type = "inode"})
            + Cardinality({p \in Procs : ff[p].type = "inode"})

\* some file, or some fileclose under way, has the write or the read end of a
HasEnd(a, w) ==
  \/ \E f \in Files : /\ file[f].ref > 0 /\ file[f].type = "pipe" /\ file[f].pipe = a
                      /\ file[f].writable <=> w
  \/ \E p \in Procs : ff[p].type = "pipe" /\ ff[p].pipe = a /\ (ff[p].writable <=> w)

\* A pipe's page is allocated exactly while one of its ends is referenced, an end is
\* open exactly while it is, and both files of an end never meet: the page is freed
\* once, after both ends, and nobody reads or writes a freed one (pipeclose on the
\* copy ff that fileclose took before it released ftable.lock).
PipeFreedOnce ==
  \A a \in Pages :
    /\ a \in page <=> HasEnd(a, TRUE) \/ HasEnd(a, FALSE)
    /\ a \in page => /\ pipe[a].writeopen <=> HasEnd(a, TRUE)
                     /\ pipe[a].readopen <=> HasEnd(a, FALSE)

\* A reader sleeps only while the write end is open, a writer only while the pipe is
\* full and the read end is open: closing an end and reading wake them.
PipeSleepersHaveCause ==
  \A p \in Procs :
    /\ pc[p] = "readAsleep" => pipe[PipeOf(p)].writeopen
    /\ pc[p] = "writeAsleep" => PipeFull(PipeOf(p)) /\ pipe[PipeOf(p)].readopen

\* A pipewrite that gives the lock back leaves no reader asleep over data, unless the
\* writer was killed after its first byte: that return is without a wakeup, and the
\* reader then waits for the next write or close.
ReadersWoken ==
  [][\A a \in Pages :
       LET w == pipe[a].lock IN
       w # None /\ pipe'[a].lock = None =>
         \/ \A q \in Procs : ~(pc'[q] = "readAsleep" /\ Sleeps(q, "readAsleep", a))
         \/ Unread(a) = 0
         \/ killed[w]]_vars

Queue(a) == [i \in 1 .. Unread(a) |-> pipe[a].data[(pipe[a].nread + i - 1) % PIPESIZE]]

\* A pipe is a queue of at most PIPESIZE bytes: a step appends a byte or takes some
\* from the front, and changes no other, also where nread and nwrite wrap around.
PipeIsFifo ==
  [][\A a \in Pages : a \in page /\ a \in page' =>
       /\ Len(Queue(a)') <= PIPESIZE
       /\ \/ \E b \in Bytes : Queue(a)' = Append(Queue(a), b)
          \/ \E k \in 0 .. Len(Queue(a)) : Queue(a)' = SubSeq(Queue(a), k + 1, Len(Queue(a)))]_vars

-----------------------------------------------------------------------------
(* What the properties rest on *)

Reading == {"read", "readAsleep"}
Writing == {"write", "writing", "writeAsleep"}

\* where a process is agrees with what it has in hand; a call on a pipe has a
\* descriptor of its end
CallAgrees(p) ==
  /\ pc[p] = "close" => todo[p] # <<>>
  /\ todo[p] # <<>> => pc[p] \in {"close", "pipeclose"}
  /\ \A i, j \in 1 .. Len(todo[p]) : todo[p][i] = todo[p][j] => i = j
  /\ ff[p].type # "none" <=> pc[p] = "pipeclose"
  /\ run[p] = "unused" => OpenFds(p) = {} /\ pc[p] = "user"
  /\ pc[p] \in Creating => arg[p].f # None
  /\ pc[p] \in {"pipe2", "pipe3"} <=> arg[p].g # None
  /\ arg[p].g # None => arg[p].f # arg[p].g
  /\ pc[p] \in Reading \cup Writing =>
       /\ arg[p].f # None /\ \E d \in FDs : ofile[p][d] = arg[p].f
       /\ file[arg[p].f].type = "pipe" /\ (file[arg[p].f].writable <=> pc[p] \in Writing)

CallsAgree == \A p \in Procs : CallAgrees(p)

\* a file being created belongs to one call; a free one has no type
NewFilesAgree ==
  /\ \A f \in Files : file[f].ref = 0 => file[f].type = "none"
  /\ \A p \in Procs : pc[p] \in Creating => \A f \in InHand(p) :
       file[f].ref = 1 /\ (pc[p] # "pipe3" => file[f].type = "none")

\* an end of a pipe has one file, or one fileclose that is about to close it
EndsAgree ==
  /\ \A f \in Files : file[f].type = "pipe" => file[f].pipe \in Pages
  /\ \A p \in Procs : ff[p].type = "pipe" => ff[p].pipe \in Pages
  /\ \A f, g \in Files :
       file[f].type = "pipe" /\ file[g].type = "pipe" /\ file[f].pipe = file[g].pipe
         /\ (file[f].writable <=> file[g].writable) => f = g
  /\ \A p, q \in Procs :
       ff[p].type = "pipe" /\ ff[q].type = "pipe" /\ ff[p].pipe = ff[q].pipe
         /\ (ff[p].writable <=> ff[q].writable) => p = q
  /\ \A p \in Procs, f \in Files :
       ff[p].type = "pipe" /\ file[f].type = "pipe" /\ ff[p].pipe = file[f].pipe =>
         (ff[p].writable <=> ~file[f].writable)

\* a pipe's lock is held by the writer in it, and it never holds more than fits
PipesAgree ==
  \A a \in Pages :
    /\ \A p \in Procs : pipe[a].lock = p <=> pc[p] = "writing" /\ PipeOf(p) = a
    /\ Unread(a) <= PIPESIZE

IInv == /\ FileRefsExact /\ PipeFreedOnce /\ PipeSleepersHaveCause
        /\ CallsAgree /\ NewFilesAgree /\ EndsAgree /\ PipesAgree
=============================================================================
