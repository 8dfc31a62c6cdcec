--------------------------------- MODULE Fs ---------------------------------
(***************************************************************************)
(* Inodes, directories and block allocation (kernel/fs.c) under the file   *)
(* system calls (kernel/sysfile.c) of concurrent processes, with crashes   *)
(* and the recovery of orphaned inodes at boot.                            *)
(*                                                                         *)
(* A step is a section that holds the lock of an inode, or itable.lock.    *)
(* Where a call holds the locks of two inodes, or gives up the first       *)
(* before it takes the second, each acquisition is a step of its own.      *)
(* The log (module Log) makes the calls durable in groups: what the disk   *)
(* has when no call is under way is what a crash comes back to.            *)
(*                                                                         *)
(* A file or a directory has one data block; "." entries are left out.     *)
(***************************************************************************)
EXTENDS Integers, Sequences, FiniteSets

CONSTANTS Procs,    \* processes making file system calls
          NINODES,  \* inodes on disk; the first is the root directory
          Blocks,   \* data blocks
          RootBlock,\* the one mkfs gave to the root directory
          Names,    \* names of directory entries
          Calls,    \* system calls of each process: [op, path, new], paths are [abs, elems]
          Crashes,  \* whether the machine crashes
          None      \* no process, no block

Root == 1
Inums == 1 .. NINODES
DotDot == ".."
Elements == Names \cup {DotDot}
Paths == [abs : BOOLEAN, elems : Seq(Elements)]
Ops == {"open", "trunc", "chdir", "link", "creat", "mkdir", "mknod", "unlink"}

ASSUME FsAssumption ==
  /\ NINODES \in Nat \ {0} /\ RootBlock \in Blocks
  /\ Crashes \in BOOLEAN
  /\ IsFiniteSet(Procs) /\ IsFiniteSet(Names)
  /\ DotDot \notin Names /\ None \notin Procs \cup Blocks
  /\ \A p \in Procs : \A c \in Calls[p] :
       /\ c \in [op : Ops, path : Paths, new : Paths]
       /\ c.path.elems # <<>> /\ c.new.elems # <<>>

VARIABLES dino,    \* dinodes, as the buffer cache has them: type, nlink, addr
          ents,    \* contents of the directories
          used,    \* the bitmap of data blocks
          stable,  \* <<dino, ents, used>> of the last commit
          core,    \* the inode table: ref, valid and the copy of the dinode
          lock,    \* sleep locks of the inodes
          cwd, fd, \* inodes of the current directory and of the open file (0: none)
          k,       \* the system call of a process
          missed,  \* history: inodes that iput left without looking again
          strayed, \* history: a call went astray in a removed directory
          booting, \* ireclaim has not finished
          panicked \* panic("ilock: no type"), panic("unlink: nlink < 1")

diskVars == <<dino, ents, used>>
memVars  == <<core, lock>>
vars     == <<diskVars, stable, memVars, cwd, fd, k, missed, strayed, booting, panicked>>

Types == {"free", "dir", "file", "dev"}
FreeInode == [type |-> "free", nlink |-> 0, addr |-> None]
NoCore    == [ref |-> 0, valid |-> FALSE, inode |-> FreeInode]
EmptyDir  == [n \in Elements |-> 0]
NoPath    == [abs |-> FALSE, elems |-> <<>>]
NoCall    == [pc |-> "user", op |-> "none", path |-> <<>>, new |-> NoPath, ip |-> 0, dp |-> 0, old |-> 0,
              puts |-> <<>>, after |-> "done"]

Inodes == [type : Types, nlink : Int, addr : Blocks \cup {None}]
Cores  == [ref : Nat, valid : BOOLEAN, inode : Inodes]
Stages == {"user", "walk", "at", "parent", "old", "new", "unlink", "linkbad",
           "put", "free", "invalid", "drop", "done"}
CallRecords == [pc : Stages, op : Ops \cup {"none", "linkto"}, path : Seq(Elements), new : Paths,
                ip : {0} \cup Inums, dp : {0} \cup Inums, old : {0} \cup Inums,
                puts : Seq(Inums), after : Stages]

\* the types of all variables but strayed
Tables ==
  /\ dino \in [Inums -> Inodes]
  /\ ents \in [Inums -> [Elements -> {0} \cup Inums]]
  /\ used \subseteq Blocks
  /\ core \in [Inums -> Cores]
  /\ lock \in [Inums -> Procs \cup {None}]
  /\ cwd \in [Procs -> Inums] /\ fd \in [Procs -> {0} \cup Inums]
  /\ k \in [Procs -> CallRecords]
  /\ missed \subseteq Inums /\ booting \in BOOLEAN /\ panicked \in BOOLEAN
TypeOK == Tables /\ strayed \in BOOLEAN

\* mkfs's disk, mounted, with all processes in the root directory
Init ==
  /\ dino = [i \in Inums |-> IF i = Root THEN [type |-> "dir", nlink |-> 1, addr |-> RootBlock]
                                         ELSE FreeInode]
  /\ ents = [i \in Inums |-> IF i = Root THEN [EmptyDir EXCEPT ![DotDot] = Root] ELSE EmptyDir]
  /\ used = {RootBlock}
  /\ stable = diskVars
  /\ core = [i \in Inums |-> IF i = Root THEN [NoCore EXCEPT !.ref = Cardinality(Procs)] ELSE NoCore]
  /\ lock = [i \in Inums |-> None]
  /\ cwd = [p \in Procs |-> Root] /\ fd = [p \in Procs |-> 0]
  /\ k = [p \in Procs |-> NoCall]
  /\ missed = {} /\ strayed = FALSE /\ booting = FALSE /\ panicked = FALSE

Up == ~booting /\ ~panicked

-----------------------------------------------------------------------------
(* The inode table: iget, ilock, iput *)

\* iget and idup
Iget(c, i) == [c EXCEPT ![i] = IF c[i].ref = 0 THEN [NoCore EXCEPT !.ref = 1]
                                               ELSE [c[i] EXCEPT !.ref = @ + 1]]

\* ilock(ip), when nobody has the lock: reads the inode if it has to
Locked(i) == IF core[i].valid THEN core[i] ELSE [core[i] EXCEPT !.valid = TRUE, !.inode = dino[i]]
NoType(i) == ~core[i].valid /\ dino[i].type = "free"

\* the locked inode i gets new contents, and iupdate writes them
Update(i, inode) ==
  /\ core' = [core EXCEPT ![i] = [Locked(i) EXCEPT !.inode = inode]]
  /\ dino' = [dino EXCEPT ![i] = inode]

Unlinked(inode) == [inode EXCEPT !.nlink = @ - 1]
Linked(inode)   == [inode EXCEPT !.nlink = @ + 1]

\* fault variant of Balloc: the bitmap is not written
BallocUnmarked(b) == used

Balloc(b) == used \cup {b}
Bfree(b)  == used \ {b}
FirstFree == CHOOSE b \in Blocks \ used : TRUE

\* bmap of a block the inode does not have, and itrunc
Bmap(inode)   == [inode EXCEPT !.addr = FirstFree]
Itrunc(inode) == [inode EXCEPT !.addr = None]

Dirlookup(d, n) == ents[d][n]
\* dirlink into the entries e, when the name is not there
Dirlink(e, d, n, i) == [e EXCEPT ![d][n] = i]

At(p, stage) == k[p].pc = stage /\ Up

\* p drops its references s, and goes on at stage
PutThen(p, s, stage) ==
  [IF stage = "done" THEN NoCall ELSE [k[p] EXCEPT !.ip = 0, !.dp = 0]
     EXCEPT !.pc = IF s = <<>> THEN stage ELSE "put", !.puts = s, !.after = stage]

\* panic, from whatever step p is in: nothing is enabled any more
Panic == panicked' = TRUE /\ UNCHANGED <<diskVars, stable, memVars, cwd, fd, k, missed, booting>>

Dropped(i) == [core EXCEPT ![i] = IF core[i].ref = 1 THEN NoCore ELSE [core[i] EXCEPT !.ref = @ - 1]]
Popped(p) == [k[p] EXCEPT !.puts = Tail(@), !.pc = IF Len(k[p].puts) = 1 THEN k[p].after ELSE "put"]

\* under itable.lock: the last reference to an inode without links frees it
LastOfUnlinked(i) == core[i].ref = 1 /\ core[i].valid /\ core[i].inode.nlink = 0

Iput(p) ==
  /\ At(p, "put")
  /\ LET i == Head(k[p].puts) IN
       IF LastOfUnlinked(i)
         THEN /\ lock' = [lock EXCEPT ![i] = p]
              /\ k' = [k EXCEPT ![p].pc = "free"]
              /\ UNCHANGED core
         ELSE /\ core' = Dropped(i)
              /\ k' = [k EXCEPT ![p] = Popped(p)]
              /\ UNCHANGED lock
  /\ UNCHANGED <<diskVars, stable, cwd, fd, missed, booting, panicked>>

\* itrunc, ip->type = 0, iupdate: from here on ialloc may choose the inode
IputFree(p) ==
  /\ At(p, "free")
  /\ LET i == Head(k[p].puts) IN
       /\ Update(i, FreeInode)
       /\ ents' = [ents EXCEPT ![i] = EmptyDir]
       /\ used' = Bfree(core[i].inode.addr)
  /\ k' = [k EXCEPT ![p].pc = "invalid"]
  /\ UNCHANGED <<stable, lock, cwd, fd, missed, booting, panicked>>

\* fault variant of IputInvalid: the copy stays valid
IputStaysValid(p) ==
  /\ At(p, "invalid")
  /\ lock' = [lock EXCEPT ![Head(k[p].puts)] = None]
  /\ k' = [k EXCEPT ![p].pc = "drop"]
  /\ UNCHANGED <<diskVars, stable, core, cwd, fd, missed, booting, panicked>>

\* ip->valid = 0; releasesleep(&ip->lock)
IputInvalid(p) ==
  /\ At(p, "invalid")
  /\ core' = [core EXCEPT ![Head(k[p].puts)].valid = FALSE]
  /\ lock' = [lock EXCEPT ![Head(k[p].puts)] = None]
  /\ k' = [k EXCEPT ![p].pc = "drop"]
  /\ UNCHANGED <<diskVars, stable, cwd, fd, missed, booting, panicked>>

\* ip->ref--, whatever became of the inode since its lock was released
IputDrop(p) ==
  /\ At(p, "drop")
  /\ missed' = IF LastOfUnlinked(Head(k[p].puts)) THEN missed \cup {Head(k[p].puts)} ELSE missed
  /\ core' = Dropped(Head(k[p].puts))
  /\ k' = [k EXCEPT ![p] = Popped(p)]
  /\ UNCHANGED <<diskVars, stable, lock, cwd, fd, booting, panicked>>

-----------------------------------------------------------------------------
(* Paths *)

WantsParent(p) == k[p].op \in {"creat", "mkdir", "mknod", "unlink", "linkto"}

\* begin_op, and namex starts at the root or at the current directory
Begin(p, c) ==
  /\ At(p, "user")
  /\ LET i == IF c.path.abs THEN Root ELSE cwd[p] IN
       /\ core' = Iget(core, i)
       /\ k' = [k EXCEPT ![p] = [NoCall EXCEPT !.pc = "walk", !.op = c.op, !.path = c.path.elems,
                                               !.new = c.new, !.ip = i]]
  /\ UNCHANGED <<diskVars, stable, lock, cwd, fd, missed, booting, panicked>>

\* where a call goes on that did not find its path
Failed(p) == IF k[p].op = "linkto" THEN "linkbad" ELSE "done"

\* one element of the path: lock the directory, look the name up, unlock, and put it
Namex(p) ==
  /\ At(p, "walk") /\ lock[k[p].ip] = None
  /\ LET i    == k[p].ip
         last == Len(k[p].path) = 1
         next == Dirlookup(i, Head(k[p].path))
         c    == [core EXCEPT ![i] = Locked(i)]
     IN IF NoType(i) THEN Panic
        ELSE
        /\ IF Locked(i).inode.type = "dir" /\ last /\ WantsParent(p)
             THEN core' = c /\ k' = [k EXCEPT ![p].pc = "parent", ![p].dp = i, ![p].ip = 0]
           ELSE IF Locked(i).inode.type = "dir" /\ next # 0
             THEN /\ core' = Iget(c, next)
                  /\ k' = [k EXCEPT ![p] = [PutThen(p, <<i>>, IF last THEN "at" ELSE "walk")
                                              EXCEPT !.ip = next, !.path = Tail(k[p].path)]]
           ELSE core' = c /\ k' = [k EXCEPT ![p] = PutThen(p, <<i>>, Failed(p))]
        /\ UNCHANGED <<diskVars, stable, lock, cwd, fd, missed, booting, panicked>>

-----------------------------------------------------------------------------
(* open, chdir, write, close: calls that lock one inode *)

\* the inode the path led to, unlocked and with a reference of p
AtInode(p, stage) == At(p, stage) /\ lock[k[p].ip] = None

\* p keeps inode i as its open file, if filealloc and fdalloc have one
Keep(p, i, ok, rest) ==
  IF ok /\ fd[p] = 0
    THEN /\ fd' = [fd EXCEPT ![p] = i]
         /\ k' = [k EXCEPT ![p] = PutThen(p, rest, "done")]
    ELSE /\ k' = [k EXCEPT ![p] = PutThen(p, rest \o <<i>>, "done")]
         /\ UNCHANGED fd

\* sys_open without O_CREATE, with ("trunc") or without O_TRUNC
Open(p, ok) ==
  /\ AtInode(p, "at") /\ k[p].op \in {"open", "trunc"}
  /\ LET i == k[p].ip
         c == Locked(i).inode
         cut == k[p].op = "trunc" /\ c.type = "file" /\ ok /\ fd[p] = 0
     IN IF NoType(i) THEN Panic
        ELSE /\ Keep(p, i, ok /\ ~(c.type = "dir" /\ k[p].op = "trunc"), <<>>)
             /\ Update(i, IF cut THEN Itrunc(c) ELSE c)
             /\ used' = IF cut THEN Bfree(c.addr) ELSE used
             /\ UNCHANGED <<ents, stable, lock, cwd, missed, booting, panicked>>

\* sys_chdir
Chdir(p) ==
  /\ AtInode(p, "at") /\ k[p].op = "chdir"
  /\ LET i == k[p].ip IN
       IF NoType(i) THEN Panic
       ELSE /\ core' = [core EXCEPT ![i] = Locked(i)]
            /\ IF Locked(i).inode.type = "dir"
                 THEN cwd' = [cwd EXCEPT ![p] = i] /\ k' = [k EXCEPT ![p] = PutThen(p, <<cwd[p]>>, "done")]
                 ELSE k' = [k EXCEPT ![p] = PutThen(p, <<i>>, "done")] /\ UNCHANGED cwd
            /\ UNCHANGED <<diskVars, stable, lock, fd, missed, booting, panicked>>

\* writei to a file that has no block, if there is one
Writei(i) ==
  /\ Locked(i).inode.addr = None /\ used # Blocks
  /\ Update(i, Bmap(Locked(i).inode))
  /\ used' = Balloc(FirstFree)

\* filewrite of an inode
Write(p) ==
  /\ At(p, "user") /\ fd[p] # 0 /\ lock[fd[p]] = None
  /\ Locked(fd[p]).inode.type = "file"
  /\ Writei(fd[p])
  /\ k' = [k EXCEPT ![p].pc = "done"]
  /\ UNCHANGED <<ents, stable, lock, cwd, fd, missed, booting, panicked>>

\* the last fileclose of an inode: begin_op, iput, end_op
Close(p) ==
  /\ At(p, "user") /\ fd[p] # 0
  /\ fd' = [fd EXCEPT ![p] = 0]
  /\ k' = [k EXCEPT ![p] = PutThen(p, <<fd[p]>>, "done")]
  /\ UNCHANGED <<diskVars, stable, memVars, cwd, missed, booting, panicked>>

-----------------------------------------------------------------------------
(* link and unlink *)

\* fault variant of LinkCount: the link is counted after the entry is there
LinkCountLate(inode) == inode

LinkCount(inode) == Linked(inode)

\* sys_link counts the link first, lets the inode go, and looks for the new parent
Link(p) ==
  /\ AtInode(p, "at") /\ k[p].op = "link"
  /\ LET i == k[p].ip
         s == IF k[p].new.abs THEN Root ELSE cwd[p]
         c == [core EXCEPT ![i] = [Locked(i) EXCEPT !.inode = LinkCount(Locked(i).inode)]]
     IN IF NoType(i) THEN Panic
        ELSE
        /\ IF Locked(i).inode.type = "dir"
             THEN /\ core' = [core EXCEPT ![i] = Locked(i)]
                  /\ k' = [k EXCEPT ![p] = PutThen(p, <<i>>, "done")]
                  /\ UNCHANGED dino
             ELSE /\ core' = Iget(c, s)
                  /\ dino' = [dino EXCEPT ![i] = c[i].inode]
                  /\ k' = [k EXCEPT ![p] = [k[p] EXCEPT !.pc = "walk", !.op = "linkto", !.old = i,
                                                        !.ip = s, !.path = k[p].new.elems]]
        /\ UNCHANGED <<ents, used, stable, lock, cwd, fd, missed, booting, panicked>>

\* dirlink in the new parent, or the way back
LinkTo(p) ==
  /\ At(p, "parent") /\ k[p].op = "linkto" /\ lock[k[p].dp] = None
  /\ LET d == k[p].dp  n == Head(k[p].path) IN
       IF Dirlookup(d, n) = 0
         THEN /\ ents' = Dirlink(ents, d, n, k[p].old)
              /\ k' = [k EXCEPT ![p] = PutThen(p, <<d, k[p].old>>, "done")]
         ELSE /\ k' = [k EXCEPT ![p] = PutThen(p, <<d>>, "linkbad")]
              /\ UNCHANGED ents
  /\ UNCHANGED <<dino, used, stable, memVars, cwd, fd, missed, booting, panicked>>

LinkBad(p) ==
  /\ At(p, "linkbad") /\ lock[k[p].old] = None
  /\ Update(k[p].old, Unlinked(Locked(k[p].old).inode))
  /\ k' = [k EXCEPT ![p] = PutThen(p, <<k[p].old>>, "done")]
  /\ UNCHANGED <<ents, used, stable, lock, cwd, fd, missed, booting, panicked>>

\* fault variant of CannotUnlink: ".." may be unlinked
CannotUnlinkMissing(d, n) == Dirlookup(d, n) = 0

CannotUnlink(d, n) == n = DotDot \/ Dirlookup(d, n) = 0

\* sys_unlink, with the parent locked
UnlinkDir(p) ==
  /\ At(p, "parent") /\ k[p].op = "unlink" /\ lock[k[p].dp] = None
  /\ LET d == k[p].dp  n == Head(k[p].path) IN
       IF CannotUnlink(d, n)
         THEN k' = [k EXCEPT ![p] = PutThen(p, <<d>>, "done")] /\ UNCHANGED memVars
         ELSE /\ lock' = [lock EXCEPT ![d] = p]
              /\ core' = Iget(core, Dirlookup(d, n))
              /\ k' = [k EXCEPT ![p].pc = "unlink", ![p].ip = Dirlookup(d, n)]
  /\ UNCHANGED <<diskVars, stable, cwd, fd, missed, booting, panicked>>

IsDirEmpty(i) == \A n \in Names : ents[i][n] = 0

\* and with the inode locked as well
Unlink(p) ==
  /\ AtInode(p, "unlink")
  /\ LET i == k[p].ip
         d == k[p].dp
         c == Locked(i).inode
         dc == IF c.type = "dir" THEN Unlinked(core[d].inode) ELSE core[d].inode
     IN IF NoType(i) \/ c.nlink < 1 THEN Panic
        ELSE
        /\ IF c.type = "dir" /\ ~IsDirEmpty(i)
             THEN /\ core' = [core EXCEPT ![i] = Locked(i)]
                  /\ k' = [k EXCEPT ![p] = PutThen(p, <<i, d>>, "done")]
                  /\ UNCHANGED <<dino, ents>>
             ELSE /\ core' = [core EXCEPT ![i] = [Locked(i) EXCEPT !.inode = Unlinked(c)],
                                          ![d].inode = dc]
                  /\ dino' = [dino EXCEPT ![i] = Unlinked(c), ![d] = dc]
                  /\ ents' = [ents EXCEPT ![d][Head(k[p].path)] = 0]
                  /\ k' = [k EXCEPT ![p] = PutThen(p, <<d, i>>, "done")]
        /\ lock' = [lock EXCEPT ![d] = None]
        /\ UNCHANGED <<used, stable, cwd, fd, missed, booting, panicked>>

-----------------------------------------------------------------------------
(* create: open with O_CREATE, mkdir, mknod *)

NewType(p) == CASE k[p].op = "creat" -> "file" [] k[p].op = "mkdir" -> "dir" [] OTHER -> "dev"
FreeInums == {i \in Inums : dino[i].type = "free"}

\* with the parent locked: the entry there is, or ialloc
CreateDir(p) ==
  /\ At(p, "parent") /\ k[p].op \in {"creat", "mkdir", "mknod"} /\ lock[k[p].dp] = None
  /\ LET d == k[p].dp
         i == Dirlookup(d, Head(k[p].path))
         j == CHOOSE f \in FreeInums : \A g \in FreeInums : f <= g
     IN \/ /\ i # 0
           /\ core' = Iget(core, i)
           /\ k' = [k EXCEPT ![p] = [PutThen(p, <<d>>, "old") EXCEPT !.ip = i]]
           /\ UNCHANGED <<dino, lock>>
        \/ /\ i = 0 /\ FreeInums = {}
           /\ k' = [k EXCEPT ![p] = PutThen(p, <<d>>, "done")]
           /\ UNCHANGED <<dino, memVars>>
        \/ /\ i = 0 /\ FreeInums # {}
           /\ dino' = [dino EXCEPT ![j] = [FreeInode EXCEPT !.type = NewType(p)]]
           /\ core' = Iget(core, j)
           /\ lock' = [lock EXCEPT ![d] = p]
           /\ k' = [k EXCEPT ![p].pc = "new", ![p].ip = j]
  /\ UNCHANGED <<ents, used, stable, cwd, fd, missed, booting, panicked>>

\* the name exists: only a file or device is good, and only for open
CreateOld(p, ok) ==
  /\ AtInode(p, "old")
  /\ LET i == k[p].ip IN
       IF NoType(i) THEN Panic
       ELSE /\ core' = [core EXCEPT ![i] = Locked(i)]
            /\ Keep(p, i, ok /\ k[p].op = "creat" /\ Locked(i).inode.type \in {"file", "dev"}, <<>>)
            /\ UNCHANGED <<diskVars, stable, lock, cwd, missed, booting, panicked>>

\* the new inode, with the parent still locked
CreateNew(p, ok) ==
  /\ AtInode(p, "new")
  /\ LET i == k[p].ip
         d == k[p].dp
         isdir == k[p].op = "mkdir"
         f == [Locked(i).inode EXCEPT !.nlink = 1]
         c == IF isdir THEN Bmap(f) ELSE f
         dc == IF isdir THEN Linked(core[d].inode) ELSE core[d].inode
     IN IF NoType(i) THEN Panic
        ELSE
        /\ IF isdir /\ used = Blocks
             THEN /\ Update(i, [Locked(i).inode EXCEPT !.nlink = 0])
                  /\ k' = [k EXCEPT ![p] = PutThen(p, <<i, d>>, "done")]
                  /\ UNCHANGED <<ents, used, fd>>
             ELSE /\ core' = [core EXCEPT ![i] = [Locked(i) EXCEPT !.inode = c], ![d].inode = dc]
                  /\ dino' = [dino EXCEPT ![i] = c, ![d] = dc]
                  /\ ents' = Dirlink(IF isdir THEN Dirlink(ents, i, DotDot, d) ELSE ents,
                                  d, Head(k[p].path), i)
                  /\ used' = IF isdir THEN Balloc(c.addr) ELSE used
                  /\ Keep(p, i, ok /\ k[p].op = "creat", <<d>>)
        /\ lock' = [lock EXCEPT ![d] = None]
        /\ UNCHANGED <<stable, cwd, missed, booting, panicked>>

-----------------------------------------------------------------------------
(* end_op, crashes and recovery *)

\* the last call under way commits for all
EndOp(p) ==
  /\ At(p, "done")
  /\ k' = [k EXCEPT ![p] = NoCall]
  /\ stable' = IF \A q \in Procs \ {p} : k[q].pc = "user" THEN diskVars ELSE stable
  /\ UNCHANGED <<diskVars, memVars, cwd, fd, missed, booting, panicked>>

\* the machine stops and boots: the log has brought back the last commit
Crash ==
  /\ Crashes /\ ~panicked
  /\ dino' = stable[1] /\ ents' = stable[2] /\ used' = stable[3]
  /\ core' = [i \in Inums |-> IF i = Root THEN [NoCore EXCEPT !.ref = Cardinality(Procs)] ELSE NoCore]
  /\ lock' = [i \in Inums |-> None]
  /\ cwd' = [p \in Procs |-> Root] /\ fd' = [p \in Procs |-> 0]
  /\ k' = [p \in Procs |-> NoCall]
  /\ missed' = {} /\ booting' = TRUE
  /\ UNCHANGED <<stable, panicked>>

\* fault variant of Orphans: directories are left out
OrphanFiles == {i \in Inums : dino[i].type = "file" /\ dino[i].nlink = 0}

Orphans == {i \in Inums : dino[i].type # "free" /\ dino[i].nlink = 0}

\* ireclaim: iget, ilock, iunlock and iput of every orphan, then the system is up
Ireclaim ==
  /\ booting
  /\ IF Orphans = {}
       THEN booting' = FALSE /\ UNCHANGED <<diskVars, stable>>
       ELSE LET i == CHOOSE j \in Orphans : \A l \in Orphans : j <= l IN
            /\ dino' = [dino EXCEPT ![i] = FreeInode]
            /\ ents' = [ents EXCEPT ![i] = EmptyDir]
            /\ used' = Bfree(dino[i].addr)
            /\ stable' = <<dino', ents', used'>>
            /\ UNCHANGED booting
  /\ UNCHANGED <<memVars, cwd, fd, k, missed, panicked>>

-----------------------------------------------------------------------------
(* Removed directories *)

\* directory d was removed, and so was the directory that its ".." still names
Lost(d) == dino[d].nlink = 0 /\ ents[d][DotDot] # 0 /\ dino[ents[d][DotDot]].nlink = 0

\* p resolves ".." in such a directory, or makes a directory in a removed one:
\* neither namex nor create looks at nlink
Strays(p) ==
  /\ k'[p] # k[p]
  /\ \/ /\ k[p].pc \in {"walk", "parent"} /\ Head(k[p].path) = DotDot
        /\ \E d \in {k[p].ip, k[p].dp} \ {0} : Lost(d) /\ k'[p].ip = ents[d][DotDot]
     \/ /\ k[p].pc = "new" /\ k[p].op = "mkdir"
        /\ dino[k[p].dp].nlink = 0 /\ dino'[k[p].ip].nlink > 0

-----------------------------------------------------------------------------
Step ==
  \/ \E p \in Procs :
       \/ \E c \in Calls[p] : Begin(p, c)
       \/ Namex(p) \/ Iput(p) \/ IputFree(p) \/ IputInvalid(p) \/ IputDrop(p)
       \/ \E ok \in BOOLEAN : Open(p, ok) \/ CreateOld(p, ok) \/ CreateNew(p, ok)
       \/ Chdir(p) \/ Write(p) \/ Close(p)
       \/ Link(p) \/ LinkTo(p) \/ LinkBad(p) \/ UnlinkDir(p) \/ Unlink(p) \/ CreateDir(p)
       \/ EndOp(p)
  \/ Crash \/ Ireclaim
Next == Step /\ strayed' = (strayed \/ \E p \in Procs : Strays(p))

Spec == Init /\ [][Next]_vars

-----------------------------------------------------------------------------
(* Properties *)

\* the references of p to inodes (0: none)
Put(p, n) == IF n \in DOMAIN k[p].puts THEN k[p].puts[n] ELSE 0
Held(p) == <<cwd[p], fd[p], k[p].ip, k[p].dp, k[p].old, Put(p, 1), Put(p, 2)>>

\* how many references there are to inode i; no call puts more than two inodes
Holders(i) == Cardinality({h \in Procs \X (1 .. 7) : Held(h[1])[h[2]] = i})

BeingFreed(i) == \E p \in Procs : k[p].pc \in {"invalid", "drop"} /\ Head(k[p].puts) = i

\* No call finds an inode that is free, or has no links left to take away (the
\* panics of ilock and sys_unlink).
NoPanic == ~panicked

\* ip->ref is the number of references the processes really hold.  An inode somebody
\* holds stays allocated until the iput that frees it: iput's decision on ref == 1 is
\* not overtaken, whether another process is in namex, in ialloc of the same number or
\* in an iput of its own; and no call panics.  Both are promised until a call goes
\* astray in a removed directory.
InodeRefsExact ==
  /\ TypeOK
  /\ \A i \in Inums : core[i].ref = Holders(i)
  /\ ~strayed => NoPanic /\ \A i \in Inums :
       Holders(i) > 0 /\ ~BeingFreed(i) => dino[i].type # "free"

\* the live entries and the live subdirectories' ".." that name inode i
Links(i) ==
  {e \in Inums \X Elements : /\ dino[e[1]].type = "dir" /\ ents[e[1]][e[2]] = i
                             /\ e[2] = DotDot => dino[e[1]].nlink > 0 /\ e[1] # i}

\* An entry never names a free inode, and nlink is never below the number of names:
\* no file that still has a name is freed, after a crash either.  (It may be above:
\* a name made in a directory that was removed meanwhile is never counted down.)
\* Promised until a call goes astray in a removed directory.
NamesKeepInodes ==
  ~strayed => \A i \in Inums : Links(i) # {} => /\ dino[i].type # "free"
                                                /\ dino[i].nlink >= Cardinality(Links(i))

\* A data block is marked in the bitmap exactly if one inode has it, and no two have it.
BlocksOwnedOnce ==
  /\ used = {dino[i].addr : i \in Inums} \ {None}
  /\ \A i, j \in Inums : i # j /\ dino[i].addr = dino[j].addr => dino[i].addr = None

\* the inode whose lock p needs for its next step
Wants(p) == CASE k[p].pc \in {"walk", "at", "old", "unlink", "new"} -> {k[p].ip}
              [] k[p].pc = "parent"  -> {k[p].dp}
              [] k[p].pc = "linkbad" -> {k[p].old}
              [] OTHER -> {}
WaitsFor(p, q) == \E i \in Wants(p) : lock[i] = q

\* No process waits for itself or for one that waits for it: parents are locked
\* before their children, and never the other way round.
NoLockCycle == \A p, q \in Procs : ~(WaitsFor(p, q) /\ WaitsFor(q, p))

Nameless == {i \in Inums : dino[i].type # "free" /\ dino[i].nlink = 0}

\* An inode without names is allocated only as long as somebody uses it: the last
\* iput frees it, and ireclaim those of a crash.  One way is open: an inode freed in
\* iput, allocated again before that iput has dropped its reference, and unlinked
\* under that reference, stays allocated until the next boot.
\* Promised until a call goes astray in a removed directory.
OrphansAccounted == ~booting /\ ~strayed => \A i \in Nameless : core[i].ref > 0 \/ i \in missed
=============================================================================
