-------------------------------- MODULE FsInv -------------------------------
(***************************************************************************)
(* The inductive invariant of the file system (module Fs), in two parts,   *)
(* and the predicates on states and steps in which FsProofs argues that    *)
(* every step keeps it.                                                    *)
(***************************************************************************)
EXTENDS Fs

-----------------------------------------------------------------------------
(* Counting references *)

\* as a number
Has(x, i) == IF x = i THEN 1 ELSE 0

\* the references of the processes P among their first m, as the function g has them
Slots(P, g, m, i) == {h \in P \X (1 .. m) : g[h[1]][h[2]] = i}

\* the references of a process with current directory w, open file f and call c
Refs(w, f, c) == <<w, f, c.ip, c.dp, c.old, IF 1 \in DOMAIN c.puts THEN c.puts[1] ELSE 0,
                   IF 2 \in DOMAIN c.puts THEN c.puts[2] ELSE 0>>
Tokens(w, f, c, i) ==
  Has(w, i) + Has(f, i) + Has(c.ip, i) + Has(c.dp, i) + Has(c.old, i)
    + Has(IF 1 \in DOMAIN c.puts THEN c.puts[1] ELSE 0, i)
    + Has(IF 2 \in DOMAIN c.puts THEN c.puts[2] ELSE 0, i)

\* the references of all processes
Count(W, F, K, i) ==
  Cardinality({h \in Procs \X (1 .. 7) : Refs(W[h[1]], F[h[1]], K[h[1]])[h[2]] = i})
Grid(W, F, K) == [q \in Procs |-> Refs(W[q], F[q], K[q])]

\* the references of the processes other than p
Rest(W, F, K, p, i) == Cardinality(Slots(Procs \ {p}, Grid(W, F, K), 7, i))

\* the process with references w, f and c has none to inode i
Apart(w, f, c, i) == /\ w # i /\ f # i /\ c.ip # i /\ c.dp # i /\ c.old # i
                     /\ 1 \in DOMAIN c.puts => c.puts[1] # i
                     /\ 2 \in DOMAIN c.puts => c.puts[2] # i

-----------------------------------------------------------------------------
(* The first part of the invariant: references, locks, copies and blocks *)

\* stages with an inode to lock, and stages of iput
Walks == {"walk", "at", "old"}
Puts == {"put", "free", "invalid", "drop"}

\* what a call has at each stage
Agrees(c) ==
  /\ c.puts # <<>> <=> c.pc \in Puts
  /\ Len(c.puts) <= 2
  /\ c.ip # 0 <=> c.pc \in Walks \cup {"unlink", "new"} \/ (c.pc \in Puts /\ c.after \in Walks)
  /\ c.dp # 0 <=> c.pc \in {"parent", "unlink", "new"}
  /\ c.old # 0 <=> c.op = "linkto"
  /\ c.pc \in {"user", "done"} => c.op = "none"
  /\ c.pc \in Puts => c.after \in Walks \cup {"linkbad", "done"}
  /\ c.pc \in Puts /\ c.after = "done" => c.op = "none"
  /\ c.pc = "linkbad" \/ (c.pc \in Puts /\ c.after = "linkbad") => c.op = "linkto"
  /\ c.pc \in {"walk", "parent", "unlink", "new"} \/ (c.pc \in Puts /\ c.after = "walk") => c.path # <<>>
  /\ c.op # "none" => c.new.elems # <<>>
  /\ c.pc = "unlink" => Head(c.path) # DotDot
  /\ c.pc \in {"old", "new", "unlink"} \/ (c.pc \in Puts /\ c.after = "old") => c.op # "linkto"
CallsOK == \A p \in Procs : Agrees(k[p])

\* ip->ref is the number of references the processes really hold
RefsOK == \A i \in Inums : core[i].ref = Holders(i)

\* the stages with a sleep lock, and whose it is
Owns(c, i) == \/ c.pc \in {"unlink", "new"} /\ c.dp = i
              \/ c.pc \in {"free", "invalid"} /\ Head(c.puts) = i
LocksOK == \A i \in Inums, p \in Procs : lock[i] = p <=> Owns(k[p], i)

\* iput has freed inode i, and its copy is still valid
Stale(i) == \E p \in Procs : k[p].pc = "invalid" /\ Head(k[p].puts) = i

\* a valid copy is the dinode's, and an allocated one, until iput makes it invalid
CoresOK ==
  /\ \A i \in Inums : core[i].ref = 0 => core[i] = NoCore
  /\ \A i \in Inums : core[i].valid /\ ~Stale(i) => core[i].inode = dino[i] /\ dino[i].type # "free"
  /\ \A p \in Procs : k[p].pc = "free" => core[Head(k[p].puts)].valid
KindOf(op) == CASE op = "creat" -> "file" [] op = "mkdir" -> "dir" [] OTHER -> "dev"

\* what a process relies on while it does not hold the lock of the inode
HeldOK ==
  /\ \A p \in Procs : k[p].dp # 0 => core[k[p].dp].valid /\ dino[k[p].dp].type = "dir"
  /\ \A p \in Procs : k[p].old # 0 => core[k[p].old].valid /\ dino[k[p].old].type \in {"file", "dev"}
  /\ \A p \in Procs : k[p].pc = "new" => /\ dino[k[p].ip].type = KindOf(k[p].op) /\ k[p].ip # k[p].dp
                                         /\ k[p].op = "mkdir" => dino[k[p].ip].addr = None
  /\ \A p, q \in Procs : k[p].pc = "new" /\ k[q].pc = "new" /\ k[p].ip = k[q].ip => p = q
  /\ \A p, q \in Procs : k[p].pc \in {"free", "invalid"} => /\ Head(k[p].puts) # k[q].dp
                                                            /\ Head(k[p].puts) # k[q].old
  /\ \A p, q \in Procs : k[p].pc = "free" /\ k[q].pc = "new" => Head(k[p].puts) # k[q].ip

\* a disk with dinodes dn, directories en and bitmap us
DiskOK(dn, en, us) ==
  /\ \A i \in Inums : dn[i].type = "free" => dn[i] = FreeInode
  /\ \A i \in Inums : dn[i].type # "dir" => en[i] = EmptyDir
  /\ us = {dn[i].addr : i \in Inums} \ {None}
  /\ \A i, j \in Inums : i # j /\ dn[i].addr = dn[j].addr => dn[i].addr = None
  /\ \A d, e \in Inums, m, n \in Names : ~(en[d][m] = e /\ en[e][n] = d)
DisksOK == DiskOK(dino, ents, used) /\ DiskOK(stable[1], stable[2], stable[3])

\* the types of the last commit
StableOK == /\ stable[1] \in [Inums -> Inodes]
            /\ stable[2] \in [Inums -> [Elements -> {0} \cup Inums]]
            /\ stable[3] \subseteq Blocks

\* the entry a call found under the lock of the directory is still there, or not there
TreeOK ==
  /\ \A p \in Procs : k[p].pc = "unlink" => ents[k[p].dp][Head(k[p].path)] = k[p].ip
  /\ \A p \in Procs : k[p].pc = "new" => ents[k[p].dp][Head(k[p].path)] = 0
  /\ \A p \in Procs : k[p].pc = "new" => \A n \in Names : ents[k[p].ip][n] # k[p].dp
  /\ \A p, q \in Procs : ~(k[p].pc = "new" /\ k[q].pc = "new" /\ k[q].ip = k[p].dp /\ k[q].dp = k[p].ip)

\* no process runs before ireclaim has finished
Quiet == booting => /\ \A p \in Procs : k[p].pc = "user"
                    /\ \A i \in Inums : ~core[i].valid
Inv == /\ Tables /\ StableOK /\ CallsOK /\ RefsOK /\ LocksOK /\ CoresOK /\ HeldOK
       /\ DisksOK /\ TreeOK /\ Quiet

-----------------------------------------------------------------------------
(* The second part: names and links, until a call goes astray in a removed directory *)

\* the type of strayed, and the panics that strayed accounts for
Flag == strayed \in BOOLEAN
StrayPanics == panicked => strayed

\* the inodes a call still has to put (0: none)
Fst(c) == IF 1 \in DOMAIN c.puts THEN c.puts[1] ELSE 0
Snd(c) == IF 2 \in DOMAIN c.puts THEN c.puts[2] ELSE 0

\* iput has freed the inode, and its reference is all that is left
Leaving == {"invalid", "drop"}

\* the references of a process, the ones that keep the inode allocated, and the
\* ones whose inode has been locked
Holds(w, f, c, x) == x \in {w, f, c.ip, c.dp, c.old, Fst(c), Snd(c)}
Uses(w, f, c, x)  == x \in {w, f, c.ip, c.dp, c.old, Snd(c)} \/ (x = Fst(c) /\ c.pc \notin Leaving)
Firm(w, f, c, x)  == x \in {w, f, c.dp, c.old, Snd(c)} \/ (x = Fst(c) /\ c.pc # "drop")

\* Links, on a disk with dinodes dn and directories en; and the links counted but not made yet
NamesOf(dn, en, i) ==
  {e \in Inums \X Elements : /\ dn[e[1]].type = "dir" /\ en[e[1]][e[2]] = i
                             /\ e[2] = DotDot => dn[e[1]].nlink > 0 /\ e[1] # i}
Linking(K, i) == {p \in Procs : K[p].old = i}

\* the entries of directory i that name directories
Subs(dn, en, i) == {n \in Names : en[i][n] # 0 /\ dn[en[i][n]].type = "dir"}

\* the directories of a disk form a tree: a named directory has the one that names it
\* as its "..", and no links but its name and the ".." of its subdirectories
Tree(dn, en) ==
  /\ dn[Root].type = "dir"
  /\ \A d \in Inums, n \in Names : en[d][n] # Root
  /\ \A i \in Inums : dn[i].type = "dir" => dn[i].nlink <= 1 + Cardinality(Subs(dn, en, i))
  /\ \A i \in Inums : dn[i].type = "dir" /\ dn[i].nlink >= 1 => en[i][DotDot] # 0
  /\ \A d, i \in Inums, n \in Names : en[d][n] = i /\ dn[i].type = "dir" => en[i][DotDot] = d
BothTree == Tree(dino, ents) /\ Tree(stable[1], stable[2])

\* nlink counts every name, every link under way, and one more for the root
NlinksOK ==
  \A i \in Inums : dino[i].nlink >= Cardinality(NamesOf(dino, ents, i)) + Cardinality(Linking(k, i)) + Has(i, Root)
StableNlinks ==
  \A i \in Inums : stable[1][i].nlink >= Cardinality(NamesOf(stable[1], stable[2], i)) + Has(i, Root)

\* an inode somebody uses is allocated
InUse == \A p \in Procs, x \in Inums : Uses(cwd[p], fd[p], k[p], x) => dino[x].type # "free"

\* a directory that a call comes to or leaves from has its ".."
Treads(w, c, x) == x = w \/ (x \in {c.ip, c.dp} /\ c.pc # "new")
Parented == \A p \in Procs, x \in Inums :
  Treads(cwd[p], k[p], x) /\ dino[x].type = "dir" => ents[x][DotDot] # 0

\* an inode being made has no names, no entries, and nobody else uses it
Fresh == \A p \in Procs : k[p].pc = "new" =>
  /\ dino[k[p].ip].nlink = 0 /\ ents[k[p].ip] = EmptyDir
  /\ k[p].ip \notin {cwd[p], fd[p]} /\ Head(k[p].path) # DotDot
  /\ \A q \in Procs \ {p} : ~Uses(cwd[q], fd[q], k[q], k[p].ip)

\* an inode being freed has no names, and nobody else has it, or has just allocated it again
Going == \A p \in Procs : k[p].pc \in {"free", "invalid"} =>
  /\ dino[Fst(k[p])].nlink = 0
  /\ Fst(k[p]) \notin {cwd[p], fd[p], k[p].ip, k[p].dp, k[p].old, Snd(k[p])}
  /\ \A q \in Procs \ {p} : Holds(cwd[q], fd[q], k[q], Fst(k[p])) =>
       k[p].pc = "invalid" /\ k[q].pc = "new" /\ k[q].ip = Fst(k[p])

\* an inode that has been locked has a valid copy, for as long as it is held
Read == \A p \in Procs, x \in Inums : Firm(cwd[p], fd[p], k[p], x) => x = Root \/ core[x].valid

\* what an iput has freed is free, or was allocated again
Gone == \A p \in Procs : k[p].pc \in Leaving =>
  \/ dino[Fst(k[p])].type = "free"
  \/ k[p].pc = "drop" /\ core[Fst(k[p])].valid
  \/ \E q \in Procs : k[q].pc = "new" /\ k[q].ip = Fst(k[p])

\* nobody has left the root when ireclaim runs
AtRoot == booting => \A p \in Procs : cwd[p] = Root /\ fd[p] = 0

\* an inode without links is in use, or was missed
Accounted == ~booting => \A i \in Nameless : core[i].ref > 0 \/ i \in missed

Kept == /\ BothTree /\ NlinksOK /\ StableNlinks /\ InUse /\ Parented /\ Fresh /\ Going /\ Read /\ Gone
        /\ AtRoot /\ NoPanic /\ Accounted

-----------------------------------------------------------------------------
(* The state at boot *)

\* the tables at boot: only the current directories are in use
Booted(W, F, K, C, L) ==
  /\ W = [p \in Procs |-> Root] /\ F = [p \in Procs |-> 0] /\ K = [p \in Procs |-> NoCall]
  /\ C = [i \in Inums |-> IF i = Root THEN [NoCore EXCEPT !.ref = Cardinality(Procs)] ELSE NoCore]
  /\ L = [i \in Inums |-> None]

\* a state in which nothing but the current directories is in use, with two good disks
BootState ==
  /\ Booted(cwd, fd, k, core, lock) /\ StableOK /\ DisksOK
  /\ dino \in [Inums -> Inodes] /\ ents \in [Inums -> [Elements -> {0} \cup Inums]] /\ used \subseteq Blocks
  /\ missed = {} /\ booting \in BOOLEAN /\ panicked \in BOOLEAN

\* a state at boot, with directories that form trees and links that are counted on both disks
BootKeeps ==
  /\ BootState /\ BothTree /\ StableNlinks /\ NoPanic /\ (~booting => Nameless = {})
  /\ \A i \in Inums : dino[i].nlink >= Cardinality(NamesOf(dino, ents, i)) + Has(i, Root)

-----------------------------------------------------------------------------
(* What a step shows for the first part *)

\* p's call becomes r, its current directory w and its open file f
Moves(p, r, w, f) ==
  /\ k' = [k EXCEPT ![p] = r] /\ cwd' = [cwd EXCEPT ![p] = w] /\ fd' = [fd EXCEPT ![p] = f]
  /\ r \in CallRecords /\ w \in Inums /\ f \in {0} \cup Inums
  /\ booting' = FALSE

\* no process but p relies on inode i, on its number in particular
Idle(p, i) == \A q \in Procs \ {p} : /\ k[q].dp # i /\ k[q].old # i
                                     /\ k[q].pc = "free" => Head(k[q].puts) # i
NotNew(p, i) == \A q \in Procs \ {p} : k[q].pc = "new" => k[q].ip # i

\* a call that has only to put s and to end
Done(s) == [pc |-> IF s = <<>> THEN "done" ELSE "put", op |-> "none", path |-> <<>>, new |-> NoPath,
            ip |-> 0, dp |-> 0, old |-> 0, puts |-> s, after |-> "done"]

\* the call c, when it puts s and goes on at stage with inode i and the rest of the path
On(c, i, path, s, stage) ==
  [pc |-> "put", op |-> c.op, path |-> path, new |-> c.new,
   ip |-> i, dp |-> 0, old |-> c.old, puts |-> s, after |-> stage]

\* stages with a lock
Locks == {"unlink", "new", "free", "invalid"}

\* an inode table with the same references, in which some inodes may have been read
SameTable(c) ==
  /\ c \in [Inums -> Cores]
  /\ \A j \in Inums : /\ c[j].ref = core[j].ref
                      /\ core[j].valid => c[j].valid
                      /\ c[j].ref = 0 => c[j] = NoCore
                      /\ c[j] = core[j] \/ (c[j].inode = dino[j] /\ dino[j].type # "free")

\* what such a step shows, part by part
TypesMove == /\ dino' \in [Inums -> Inodes] /\ ents' \in [Inums -> [Elements -> {0} \cup Inums]]
             /\ used' \subseteq Blocks /\ core' \in [Inums -> Cores] /\ lock' \in [Inums -> Procs \cup {None}]
RefsMove(p, r, w, f) ==
  \A i \in Inums : core'[i].ref + Tokens(cwd[p], fd[p], k[p], i) = core[i].ref + Tokens(w, f, r, i)
LocksMove(p, r) ==
  /\ \A i \in Inums : lock'[i] = p <=> Owns(r, i)
  /\ \A i \in Inums : \A q \in Procs \ {p} : lock'[i] = q <=> lock[i] = q
CoresMove(p, r) ==
  /\ \A i \in Inums : core'[i].ref = 0 => core'[i] = NoCore
  /\ \A i \in Inums : \/ core'[i].valid = core[i].valid /\ core'[i].inode = core[i].inode /\ dino'[i] = dino[i]
                      \/ core'[i].inode = dino'[i] /\ dino'[i].type # "free"
                      \/ ~core'[i].valid
                      \/ r.pc = "invalid" /\ Head(r.puts) = i
                      \/ Stale(i)
  /\ k[p].pc = "invalid" => ~core'[Head(k[p].puts)].valid
  /\ \A i \in Inums : core[i].valid => core'[i].valid \/ Idle(p, i)
  /\ r.pc = "free" => core'[Head(r.puts)].valid
HeldMove(p, r) ==
  /\ \A i \in Inums : core[i].valid => core'[i].valid \/ Idle(p, i)
  /\ \A i \in Inums : dino'[i].type = dino[i].type \/ (Idle(p, i) /\ NotNew(p, i))
  /\ \A i \in Inums : dino'[i].addr \in {dino[i].addr, None} \/ NotNew(p, i) \/ dino[i].type # "dir"
  /\ r.dp # 0 => core'[r.dp].valid /\ dino'[r.dp].type = "dir"
  /\ r.dp \in {0, k[p].dp} \/ lock[r.dp] = None
  /\ r.old # 0 => core'[r.old].valid /\ dino'[r.old].type \in {"file", "dev"}
  /\ r.old \in {0, k[p].old} \/ lock[r.old] = None
  /\ r.pc = "new" => /\ dino'[r.ip].type = KindOf(r.op) /\ r.ip # r.dp
                     /\ r.op = "mkdir" => dino'[r.ip].addr = None
                     /\ NotNew(p, r.ip)
                     /\ \A q \in Procs \ {p} : k[q].pc = "free" => Head(k[q].puts) # r.ip
  /\ r.pc \in {"free", "invalid"} =>
       /\ Head(r.puts) # r.dp /\ Head(r.puts) # r.old
       /\ \A q \in Procs \ {p} : k[q].dp # Head(r.puts) /\ k[q].old # Head(r.puts)
  /\ r.pc = "free" => NotNew(p, Head(r.puts))
TreeMove(p, r) ==
  /\ \A x \in Inums : ents'[x] = ents[x] \/ lock[x] = None \/ lock[x] = p
  /\ \A x \in Inums, n \in Names : \/ ents'[x][n] = ents[x][n] \/ ents'[x][n] = 0
                                   \/ \A q \in Procs \ {p} : k[q].pc = "new" /\ k[q].ip = x => ents'[x][n] # k[q].dp
  /\ r.pc = "unlink" => ents'[r.dp][Head(r.path)] = r.ip
  /\ r.pc = "new" => /\ ents'[r.dp][Head(r.path)] = 0
                     /\ \A n \in Names : ents'[r.ip][n] # r.dp
                     /\ r.ip # r.dp
                     /\ \A q \in Procs \ {p} : k[q].pc = "new" => ~(k[q].ip = r.dp /\ k[q].dp = r.ip)

\* the inodes i and d become x and y, in the table and on disk
Writes(i, d, x, y) ==
  /\ core' \in [Inums -> Cores] /\ dino' \in [Inums -> Inodes]
  /\ core'[i].ref = core[i].ref /\ core'[i].valid /\ core'[i].inode = x /\ dino'[i] = x
  /\ core'[d].ref = core[d].ref /\ core'[d].valid /\ core'[d].inode = y /\ dino'[d] = y
  /\ \A j \in Inums \ {i, d} : core'[j] = core[j] /\ dino'[j] = dino[j]

\* inode i gets the name n in directory d, and perhaps its ".."
Enters(i, d, n) ==
  /\ ents' \in [Inums -> [Elements -> {0} \cup Inums]]
  /\ ents'[d][n] = i /\ \A m \in Elements \ {n} : ents'[d][m] = ents[d][m]
  /\ \A j \in Inums \ {i, d} : ents'[j] = ents[j]
  /\ \A m \in Names : ents'[i][m] = ents[i][m]
  /\ dino[i].type = "dir" \/ ents'[i] = ents[i]

-----------------------------------------------------------------------------
(* What a step shows for the second part *)

\* an inode that a process holds has a reference
HeldCounted == \A p \in Procs, x \in Inums : Holds(cwd[p], fd[p], k[p], x) => core[x].ref # 0 /\ core[x].ref \in Nat

\* the other processes stay as they are
Others(p) == \A q \in Procs \ {p} : k'[q] = k[q] /\ cwd'[q] = cwd[q] /\ fd'[q] = fd[q]

\* x is the inode that p allocates
Made(p, x) == k'[p].pc = "new" /\ k'[p].ip = x /\ dino[x].type = "free"

\* p comes to an inode through a name, or allocates it
Takes(p) == \A x \in Inums :
  /\ Uses(cwd'[p], fd'[p], k'[p], x) => Uses(cwd[p], fd[p], k[p], x) \/ dino[x].nlink >= 1 \/ Made(p, x)
  /\ Holds(cwd'[p], fd'[p], k'[p], x) => Holds(cwd[p], fd[p], k[p], x) \/ dino[x].nlink >= 1 \/ Made(p, x)

\* no process but p makes or frees inode x
NotGoing(p, x) == \A q \in Procs \ {p} : k[q].pc \in {"free", "invalid"} => Fst(k[q]) # x

\* names and links stay, and the commit is the last one or this one
SameNames == /\ \A x \in Inums : dino'[x].type = dino[x].type /\ dino'[x].nlink = dino[x].nlink
             /\ ents' = ents /\ (stable' = stable \/ stable' = diskVars)

\* p neither makes, names nor frees an inode
Plain(p) ==
  /\ Others(p) /\ Takes(p) /\ SameNames
  /\ \A x \in Inums : Treads(cwd'[p], k'[p], x) => Treads(cwd[p], k[p], x) \/ dino[x].nlink >= 1
  /\ k'[p].old \in {0, k[p].old}
  /\ k'[p].pc \notin {"new", "free", "invalid", "drop"} /\ k[p].pc # "new"
  /\ ~booting /\ ~booting' /\ panicked' = panicked /\ missed \subseteq missed'
  /\ \A x \in Inums : Firm(cwd'[p], fd'[p], k'[p], x) => Firm(cwd[p], fd[p], k[p], x) \/ core'[x].valid \/ x = Root
  /\ \A x \in Inums : core[x].valid => core'[x].valid \/ core'[x].ref = 0
  /\ \A x \in Inums : core[x].ref > 0 /\ core'[x].ref = 0 => \/ dino[x].nlink # 0 \/ dino[x].type = "free"
                                                             \/ x \in missed'

\* inodes may be read and referenced, and nothing is forgotten
Grows == \A x \in Inums : (core[x].valid => core'[x].valid) /\ (core[x].ref > 0 => core'[x].ref # 0)
Steady == ~booting /\ booting' = booting /\ panicked' = panicked /\ missed' = missed

\* the call of p ends, and puts a and b
Ended(p, a, b) ==
  /\ k'[p].pc \in {"put", "done", "user"} /\ k'[p].ip = 0 /\ k'[p].dp = 0 /\ k'[p].old = 0
  /\ Fst(k'[p]) = a /\ Snd(k'[p]) = b
  /\ \A q \in Procs \ {p} : k'[q] = k[q]

\* the call of p goes on with inode i at stage, when it has put a
Went(p, i, a, stage) ==
  /\ k'[p].pc = "put" /\ k'[p].op = k[p].op /\ k'[p].ip = i /\ k'[p].dp = 0 /\ k'[p].old = k[p].old
  /\ k'[p].after = stage /\ Fst(k'[p]) = a /\ Snd(k'[p]) = 0

\* what p has after the step, it had or found by name
Reaches(p) == \A x \in Inums :
  /\ Holds(cwd'[p], fd'[p], k'[p], x) => Holds(cwd[p], fd[p], k[p], x) \/ dino[x].nlink >= 1
  /\ Firm(cwd'[p], fd'[p], k'[p], x) => Firm(cwd[p], fd[p], k[p], x) \/ core'[x].valid \/ x = Root
  /\ Treads(cwd'[p], k'[p], x) => Treads(cwd[p], k[p], x) \/ dino[x].nlink >= 1

\* what p writes, no other process is making or freeing, and p has it if it has no name
Touches(p) == \A x \in Inums :
  /\ dino'[x].type = dino[x].type
  /\ (dino'[x].nlink = dino[x].nlink /\ ents'[x] = ents[x]) \/ (NotNew(p, x) /\ NotGoing(p, x))
  /\ ents'[x][DotDot] # 0 \/ ents'[x][DotDot] = ents[x][DotDot]
  /\ dino'[x].nlink = 0 => dino[x].nlink = 0 \/ Holds(cwd'[p], fd'[p], k'[p], x)

\* the links of i and its parent d become one less, the parent's if i is a directory, and
\* the name n of i goes
Unnames(i, d, n) ==
  /\ \A x \in Inums : dino'[x].type = dino[x].type /\ dino'[x].nlink \in Int
  /\ \A x \in Inums : dino'[x].nlink = dino[x].nlink - Has(i, x) - (IF dino[i].type = "dir" THEN Has(d, x) ELSE 0)
  /\ \A x \in Inums, m \in Elements : ents'[x][m] = IF x = d /\ m = n THEN 0 ELSE ents[x][m]
  /\ \A x \in Inums \ {d} : ents'[x] = ents[x]

\* inode i gets its first link, the name n in directory d, and if it is a directory its
\* ".." and d one link more
NamesNew(i, d, n) ==
  /\ \A x \in Inums : dino'[x].type = dino[x].type /\ dino'[x].nlink \in Int
  /\ \A x \in Inums : dino'[x].nlink = dino[x].nlink + Has(i, x) + (IF dino[i].type = "dir" THEN Has(d, x) ELSE 0)
  /\ ents'[d][n] = i /\ \A m \in Elements \ {n} : ents'[d][m] = ents[d][m]
  /\ \A m \in Names : ents'[i][m] = ents[i][m]
  /\ ents'[i][DotDot] = IF dino[i].type = "dir" THEN d ELSE ents[i][DotDot]
  /\ \A x \in Inums \ {i, d} : ents'[x] = ents[x]
=============================================================================
