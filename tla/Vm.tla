---------------------------------- MODULE Vm ----------------------------------
(***************************************************************************)
(* Physical memory and user address spaces: the page allocator             *)
(* (kernel/kalloc.c), page tables (kernel/vm.c), exec (kernel/exec.c,      *)
(* sys_exec) and the memory side of fork, sbrk, exit and wait              *)
(* (kernel/proc.c, kernel/sysproc.c, the page fault branch of usertrap).   *)
(*                                                                         *)
(* Only kmem.freelist is shared: every kalloc is a step of its own, so     *)
(* that other CPUs may use up the memory between any two of them.  A page  *)
(* is named after the place it was allocated for, <<process, 0 or 1,       *)
(* slot>>: which frame kalloc returns makes no difference.                 *)
(***************************************************************************)
EXTENDS Integers, Sequences, FiniteSetsExt, Functions, TLC

CONSTANTS Procs, First,   \* the process table, and initproc's entry
          Memories,       \* numbers of pages between end and PHYSTOP to consider
          PGSIZE,
          TRAPFRAME,      \* addresses below it are user memory
          USERSTACK,
          Programs,       \* the segments of every executable
          MaxArgs,
          Sizes,          \* what sbrk is called with
          Addrs, Vals,    \* the addresses programs use, and what they store
          NoSpace

ASSUME VmAssumption ==
  /\ First \in Procs
  /\ Memories \cup {PGSIZE, USERSTACK} \subseteq Nat \ {0}
  /\ {TRAPFRAME, MaxArgs} \subseteq Nat
  /\ Sizes \subseteq Int /\ Addrs \subseteq 0 .. TRAPFRAME - 1

VARIABLES npages,  \* pages between end and PHYSTOP
          mem,     \* contents of the allocated pages; the others are on kmem.freelist
          state,   \* of every process
          sz,      \* p->sz
          cur,     \* p->pagetable: which of the two tables of p is in use
          tab,     \* the page-table pages of every table
          map,     \* its user mappings: page number -> page and permission
          k,       \* the call a process is executing in the kernel
          halted   \* panic, or a page put on the free list twice

procVars  == <<state, sz, cur>>
tableVars == <<tab, map>>
vars      == <<npages, mem, procVars, tableVars, k, halted>>

Tables == Procs \X {0, 1}
\* slots of a table's own pages: the root, and levels 1 and 0 above
\* trampoline and trapframe and above user memory
Root == -1
Hi   == <<-2, -3>>
Lo   == <<-4, -5>>
Page(t, s)   == <<t[1], t[2], s>>
Trapframe(p) == <<p, 0, -6>>
Argv(p, n)   == {<<p, 0, -6 - i>> : i \in 1 .. n}
Own(p)   == <<p, cur[p]>>
Spare(p) == <<p, 1 - cur[p]>>

PGROUNDUP(n) == (n + PGSIZE - 1) \div PGSIZE   \* in pages
Idle == [op |-> "none"]
Empty == [v \in {} |-> 0]

-----------------------------------------------------------------------------
(* kalloc.c *)

NoMemory == Cardinality(DOMAIN mem) >= npages

\* kalloc and the caller's memset or memmove: page g now holds x
Kalloc(g, x) ==
  /\ ~NoMemory
  /\ mem' = (g :> x) @@ mem

Kfree(G) ==
  /\ mem' = Restrict(mem, DOMAIN mem \ G)
  /\ halted' = IF G \subseteq DOMAIN mem THEN halted ELSE "kfree twice"

-----------------------------------------------------------------------------
(* vm.c *)

\* the user pages of table t from page number lo up to hi
Leaves(t, lo, hi) == {v \in DOMAIN map[t] : lo <= v /\ v < hi}
PagesAt(t, V) == {map[t][v].page : v \in V}
TablePages(t) == {Page(t, s) : s \in tab[t]}

\* uvmunmap of the pages in V, with do_free
Uvmunmap(t, V) == map' = [map EXCEPT ![t] = Restrict(@, DOMAIN @ \ V)]

\* uvmunmap of V, then freewalk: no other leaf may be left
Uvmfree(t, V, more) ==
  /\ IF V = DOMAIN map[t]
       THEN Kfree(PagesAt(t, V) \cup TablePages(t) \cup more)
       ELSE halted' = "freewalk: leaf" /\ UNCHANGED mem
  /\ map' = [map EXCEPT ![t] = Empty]
  /\ tab' = [tab EXCEPT ![t] = {}]

\* walk with alloc: the levels still missing on the way down
Missing(t, levels) == {i \in 1 .. 2 : levels[i] \notin tab[t]}
WalkAllocates(t, levels) ==
  LET s == levels[Min(Missing(t, levels))] IN
  /\ Kalloc(Page(t, s), "table")
  /\ tab' = [tab EXCEPT ![t] = @ \cup {s}]

\* mappages of one page
Mappages(t, v, g, perm) ==
  IF v \in DOMAIN map[t]
    THEN halted' = "mappages: remap" /\ UNCHANGED map
    ELSE /\ map' = [map EXCEPT ![t] = (v :> [page |-> g, perm |-> perm]) @@ @]
         /\ UNCHANGED halted

-----------------------------------------------------------------------------
(* Calls.  A frame k[p] holds the locals of the call: the table it fills,  *)
(* the next page number va, the size end it fills it to.                   *)

Returns(p) == k' = [k EXCEPT ![p] = Idle]
InUser(p) == state[p] = "user" /\ k[p] = Idle /\ halted = ""
At(p, at) == k[p] # Idle /\ k[p].at = at /\ halted = ""
Goto(p, at) == k' = [k EXCEPT ![p].at = at]

\* the loop of uvmalloc from size from to size to
Fill(from, to) == IF PGROUNDUP(from) * PGSIZE < to THEN "mem" ELSE "done"

\* growproc; uvmdealloc when shrinking
Growproc(p, n) ==
  LET to == sz[p] + n IN
  IF n > 0
    THEN /\ to <= TRAPFRAME
         /\ k' = [k EXCEPT ![p] = [op |-> "grow", at |-> Fill(sz[p], to), t |-> Own(p),
                                   va |-> PGROUNDUP(sz[p]), end |-> to, perm |-> "rw"]]
         /\ UNCHANGED <<mem, sz, map, halted>>
    ELSE \* a negative size is a huge unsigned one, and nothing is done
         LET V == Leaves(Own(p), PGROUNDUP(to), PGROUNDUP(sz[p])) IN
         /\ 0 <= to
         /\ Kfree(PagesAt(Own(p), V))
         /\ Uvmunmap(Own(p), V)
         /\ sz' = [sz EXCEPT ![p] = to]
         /\ UNCHANGED k

\* sys_sbrk; the first process does not rely on lazy memory, whose lack
\* would end it, nor exits
Sbrk(p, n, lazy) ==
  /\ InUser(p) /\ (lazy => p # First)
  /\ IF ~lazy \/ n < 0
       THEN Growproc(p, n)
       ELSE /\ sz[p] + n <= TRAPFRAME
            /\ sz' = [sz EXCEPT ![p] = @ + n]
            /\ UNCHANGED <<mem, map, k, halted>>
  /\ UNCHANGED <<state, cur, tab>>

GrowDone(p) ==
  /\ At(p, "done") /\ k[p].op = "grow"
  /\ sz' = [sz EXCEPT ![p] = k[p].end]
  /\ Returns(p)
  /\ UNCHANGED <<mem, state, cur, tableVars, halted>>

\* vmfault's conditions: a lazily allocated page
IsLazy(p, a) == a < sz[p] /\ a \div PGSIZE \notin DOMAIN map[Own(p)]

\* the page table lets the user store there
Writable(p, a) ==
  a \div PGSIZE \in DOMAIN map[Own(p)] /\ map[Own(p)][a \div PGSIZE].perm = "rw"

Vmfault(p, op, a, x) ==
  k' = [k EXCEPT ![p] = [op |-> op, at |-> "mem", t |-> Own(p), va |-> a \div PGSIZE,
                         end |-> 0, perm |-> "rw", x |-> x]]

\* a store of the user program
Store(p, a, x) ==
  /\ InUser(p) /\ Writable(p, a)
  /\ mem' = [mem EXCEPT ![map[Own(p)][a \div PGSIZE].page] = x]
  /\ UNCHANGED <<procVars, tableVars, k, halted>>

\* usertrap for an access the page table does not allow: vmfault, or death
PageFault(p, a) ==
  /\ InUser(p) /\ p # First
  /\ \/ /\ IsLazy(p, a) /\ Vmfault(p, "fault", a, "zero")
        /\ UNCHANGED state
     \/ /\ ~IsLazy(p, a) /\ ~Writable(p, a)
        /\ state' = [state EXCEPT ![p] = "zombie"]
        /\ UNCHANGED k
  /\ UNCHANGED <<mem, sz, cur, tableVars, halted>>

\* PGROUNDDOWN, as an address: copyin and copyout fault on the base of the page
Va0(a) == (a \div PGSIZE) * PGSIZE

\* copyout of one page for some system call
Copyout(p, a, x) ==
  /\ InUser(p)
  /\ \/ /\ IsLazy(p, Va0(a)) /\ Vmfault(p, "copyout", a, x)
        /\ UNCHANGED mem
     \/ /\ Writable(p, a)
        /\ mem' = [mem EXCEPT ![map[Own(p)][a \div PGSIZE].page] = x]
        /\ UNCHANGED k
  /\ UNCHANGED <<procVars, tableVars, halted>>

\* copyin of one page
Copyin(p, a) ==
  /\ InUser(p)
  /\ IsLazy(p, Va0(a)) /\ Vmfault(p, "copyin", a, "zero")
  /\ UNCHANGED <<mem, procVars, tableVars, halted>>

\* fork: allocproc finds q and a trapframe for it
Fork(p, q) ==
  /\ InUser(p) /\ state[q] = "unused"
  /\ Kalloc(Trapframe(q), "trapframe")
  /\ state' = [state EXCEPT ![q] = "used"]
  /\ k' = [k EXCEPT ![p] = [op |-> "fork", at |-> "root", t |-> Own(q), va |-> 0,
                            end |-> 0, perm |-> "rw", q |-> q]]
  /\ UNCHANGED <<sz, cur, tableVars, halted>>

\* freeproc of q, whose user pages V are unmapped with it
Freeproc(q, V, more) ==
  /\ Uvmfree(Own(q), V, {Trapframe(q)} \cup more)
  /\ sz' = [sz EXCEPT ![q] = 0]
  /\ state' = [state EXCEPT ![q] = "unused"]
  /\ UNCHANGED cur

ExecFrame(p, prog, argc) ==
  [op |-> "exec", at |-> IF argc = 0 THEN "root" ELSE "argv", t |-> Spare(p), va |-> 0,
   end |-> 0, perm |-> "rw", prog |-> prog, seg |-> 1, sz |-> 0, args |-> 0, argc |-> argc]

SysExec(p, prog, argc) ==
  /\ InUser(p)
  /\ k' = [k EXCEPT ![p] = ExecFrame(p, prog, argc)]
  /\ UNCHANGED <<mem, procVars, tableVars, halted>>

\* fault variant of ExecBad: the copies of the arguments are not freed
ExecBadKeepsArgs(p, V, more) ==
  /\ Uvmfree(k[p].t, V, more)
  /\ Returns(p)
  /\ UNCHANGED procVars

\* exec's label bad: the user pages V of the new table go, and the table
ExecBad(p, V, more) ==
  /\ Uvmfree(k[p].t, V, Argv(p, k[p].args) \cup more)
  /\ Returns(p)
  /\ UNCHANGED procVars

\* kexit; and kwait, waitx or kjoin of a parent, which frees it
Exit(p) ==
  /\ InUser(p) /\ p # First
  /\ state' = [state EXCEPT ![p] = "zombie"]
  /\ UNCHANGED <<mem, sz, cur, tableVars, k, halted>>

Reap(q) ==
  /\ state[q] = "zombie" /\ halted = ""
  /\ Freeproc(q, Leaves(Own(q), 0, PGROUNDUP(sz[q])), {})
  /\ UNCHANGED k

-----------------------------------------------------------------------------
(* Memory runs out: what the call does about the pages it has              *)

\* uvmdealloc of the loop of uvmalloc: all it has mapped
Undone(p) ==
  LET from == IF k[p].op = "exec" THEN k[p].sz ELSE sz[p]
  IN  Leaves(k[p].t, PGROUNDUP(from), k[p].va)

Fails(p, more) ==
  \/ /\ k[p].op = "grow"
     /\ Kfree(PagesAt(k[p].t, Undone(p)) \cup more)
     /\ Uvmunmap(k[p].t, Undone(p))
     /\ Returns(p)
     /\ UNCHANGED <<procVars, tab>>
  \/ /\ k[p].op = "exec"
     /\ ExecBad(p, Undone(p) \cup Leaves(k[p].t, 0, PGROUNDUP(k[p].sz)), more)
  \/ /\ k[p].op = "fork"    \* uvmcopy's label err, then freeproc
     /\ Freeproc(k[p].q, Leaves(k[p].t, 0, k[p].va), more)
     /\ Returns(p)
  \/ /\ k[p].op \in {"copyin", "copyout"}
     /\ Kfree(more)
     /\ Returns(p)
     /\ UNCHANGED <<procVars, tableVars>>
  \/ /\ k[p].op = "fault"   \* usertrap kills the process
     /\ Kfree(more)
     /\ Returns(p)
     /\ state' = [state EXCEPT ![p] = "zombie"]
     /\ UNCHANGED <<sz, cur, tableVars>>

-----------------------------------------------------------------------------
(* Steps of the calls *)

\* uvmcreate
Uvmcreate(p) ==
  /\ At(p, "root")
  /\ \/ /\ Kalloc(Page(k[p].t, Root), "table")
        /\ tab' = [tab EXCEPT ![k[p].t] = {Root}]
        /\ Goto(p, "hi")
        /\ UNCHANGED <<procVars, map, halted>>
     \/ NoMemory /\ Fails(p, {})

\* proc_pagetable: trampoline and trapframe share their page-table pages
ProcPagetable(p) ==
  /\ At(p, "hi")
  /\ \/ /\ WalkAllocates(k[p].t, Hi)
        /\ IF Cardinality(Missing(k[p].t, Hi)) = 1
             THEN Goto(p, IF k[p].op = "exec" THEN "phdr" ELSE "mem")
             ELSE UNCHANGED k
        /\ UNCHANGED <<procVars, map, halted>>
     \/ NoMemory /\ Fails(p, {})

\* what uvmcopy has still to copy
ToCopy(p) == Leaves(Own(p), k[p].va, PGROUNDUP(sz[p]))

\* the loop of uvmcopy, and the end of fork
Uvmcopy(p) ==
  /\ At(p, "mem") /\ k[p].op = "fork"
  /\ \/ LET v == Min(ToCopy(p)) IN
        /\ ToCopy(p) # {}
        /\ Kalloc(Page(k[p].t, v), mem[map[Own(p)][v].page])
        /\ k' = [k EXCEPT ![p].at = "walk", ![p].va = v, ![p].perm = map[Own(p)][v].perm]
        /\ UNCHANGED <<procVars, tableVars, halted>>
     \/ ToCopy(p) # {} /\ NoMemory /\ Fails(p, {})
     \/ /\ ToCopy(p) = {}
        /\ sz' = [sz EXCEPT ![k[p].q] = sz[p]]
        /\ state' = [state EXCEPT ![k[p].q] = "user"]
        /\ Returns(p)
        /\ UNCHANGED <<mem, cur, tableVars, halted>>

\* fault variant of Fresh: the memset after kalloc is forgotten
FreshJunk == "junk"

\* the memset after kalloc
Fresh == "zero"

\* kalloc and memset in the loop of uvmalloc and in vmfault
Uvmalloc(p) ==
  /\ At(p, "mem") /\ k[p].op # "fork"
  /\ \/ /\ Kalloc(Page(k[p].t, k[p].va), Fresh)
        /\ Goto(p, "walk")
        /\ UNCHANGED <<procVars, tableVars, halted>>
     \/ NoMemory /\ Fails(p, {})

\* after mappages: the next turn of the loop, or back from vmfault
Mapped(f) ==
  IF f.op \in {"fault", "copyin", "copyout"} THEN Idle
  ELSE [f EXCEPT !.va = @ + 1,
                 !.at = IF f.op = "fork" \/ (f.va + 1) * PGSIZE < f.end THEN "mem" ELSE "done"]

\* mappages of the page just allocated
MapPage(p) ==
  LET f == k[p]
      g == Page(f.t, f.va) IN
  /\ At(p, "walk")
  /\ \/ /\ Missing(f.t, Lo) # {}
        /\ \/ WalkAllocates(f.t, Lo) /\ UNCHANGED <<procVars, map, k, halted>>
           \/ NoMemory /\ Fails(p, {g})
     \/ /\ Missing(f.t, Lo) = {}
        /\ Mappages(f.t, f.va, g, f.perm)
        /\ mem' = IF f.op = "copyout" THEN [mem EXCEPT ![g] = f.x] ELSE mem
        /\ k' = [k EXCEPT ![p] = Mapped(f)]
        /\ UNCHANGED <<procVars, tab>>

-----------------------------------------------------------------------------
(* exec *)

\* copyinstr does not call vmfault: a string in memory not yet allocated fails
Copyinstr(p, a) ==
  LET v == a \div PGSIZE IN
  v \in DOMAIN map[Own(p)] /\ map[Own(p)][v].perm # "guard"

\* sys_exec copies the argument at a into a page of its own
ArgvPage(p, a) ==
  /\ At(p, "argv")
  /\ \/ LET n == k[p].args + 1 IN
        /\ Copyinstr(p, a)
        /\ Kalloc(<<p, 0, -6 - n>>, "arg")
        /\ k' = [k EXCEPT ![p].args = n, ![p].at = IF n = k[p].argc THEN "root" ELSE "argv"]
        /\ UNCHANGED <<procVars, tableVars, halted>>
     \/ (NoMemory \/ ~Copyinstr(p, a)) /\ Fails(p, {})

\* errors that are not about memory: a bad pointer, path, ELF or program
\* header, a short read, arguments too long for the stack
ExecError(p) ==
  /\ k[p].op = "exec" /\ state[p] = "user" /\ halted = ""
  /\ k[p].at \in {"argv", "root", "phdr", "load", "commit"}
  /\ ExecBad(p, Leaves(k[p].t, 0, PGROUNDUP(k[p].sz)), {})

\* flags2perm
Flags2perm(w) == IF w THEN "rw" ELSE "r"

\* the next program header, or the stack after the last one
Phdr(p) ==
  LET f == k[p] IN
  /\ At(p, "phdr")
  /\ IF f.seg <= Len(f.prog)
       THEN LET s   == f.prog[f.seg]
                to  == s.vaddr + s.memsz
                end == Max({to, f.sz}) IN  \* uvmalloc's result, with 0 for an error
            IF s.memsz < s.filesz \/ s.vaddr % PGSIZE # 0 \/ end = 0
              THEN ExecBad(p, Leaves(f.t, 0, PGROUNDUP(f.sz)), {})
              ELSE /\ k' = [k EXCEPT ![p].va = PGROUNDUP(f.sz), ![p].end = end,
                                     ![p].perm = Flags2perm(s.w), ![p].at = Fill(f.sz, to)]
                   /\ UNCHANGED <<mem, procVars, tableVars, halted>>
       ELSE LET from == PGROUNDUP(f.sz) * PGSIZE
                to   == from + (USERSTACK + 1) * PGSIZE IN
            /\ k' = [k EXCEPT ![p].sz = from, ![p].va = PGROUNDUP(from), ![p].end = to,
                              ![p].perm = "rw", ![p].at = "mem"]
            /\ UNCHANGED <<mem, procVars, tableVars, halted>>

\* uvmalloc has returned: loadseg, or uvmclear and the arguments
ExecFilled(p) ==
  LET f == k[p] IN
  /\ At(p, "done") /\ f.op = "exec"
  /\ IF f.seg <= Len(f.prog)
       THEN k' = [k EXCEPT ![p].sz = f.end, ![p].at = "load"] /\ UNCHANGED <<mem, map>>
       ELSE /\ map' = [map EXCEPT ![f.t][f.va - (USERSTACK + 1)].perm = "guard"]
            /\ mem' = [mem EXCEPT ![map[f.t][f.va - 1].page] = "args"]
            /\ k' = [k EXCEPT ![p].sz = f.end, ![p].at = "commit"]
  /\ UNCHANGED <<procVars, tab, halted>>

Loadseg(p) ==
  LET f == k[p]
      s == f.prog[f.seg]
      V == s.vaddr \div PGSIZE .. PGROUNDUP(s.vaddr + s.filesz) - 1 IN
  /\ At(p, "load")
  /\ IF V \subseteq DOMAIN map[f.t]
       THEN /\ mem' = [g \in PagesAt(f.t, V) |-> "file"] @@ mem
            /\ UNCHANGED halted
       ELSE halted' = "loadseg: address should exist" /\ UNCHANGED mem
  /\ k' = [k EXCEPT ![p].seg = @ + 1, ![p].at = "phdr"]
  /\ UNCHANGED <<procVars, tableVars>>

\* the new table and size are p's, the old table goes
ExecCommit(p) ==
  /\ At(p, "commit")
  /\ Uvmfree(Own(p), Leaves(Own(p), 0, PGROUNDUP(sz[p])), Argv(p, k[p].args))
  /\ cur' = [cur EXCEPT ![p] = 1 - @]
  /\ sz' = [sz EXCEPT ![p] = k[p].sz]
  /\ state' = [state EXCEPT ![p] = "user"]
  /\ Returns(p)

-----------------------------------------------------------------------------
\* userinit has made the first process, whose forkret is in exec("/init")
Init ==
  LET t == <<First, 0>> IN
  /\ npages \in Memories
  /\ \E prog \in Programs :
       k = [p \in Procs |-> IF p = First
              THEN [op |-> "exec", at |-> "root", t |-> <<First, 1>>, va |-> 0, end |-> 0,
                    perm |-> "rw", prog |-> prog, seg |-> 1, sz |-> 0, args |-> 0, argc |-> 0]
              ELSE Idle]
  /\ mem = [g \in {Page(t, s) : s \in {Root, Hi[1], Hi[2]}} \cup {Trapframe(First)} |->
              IF g = Trapframe(First) THEN "trapframe" ELSE "table"]
  /\ state = [p \in Procs |-> IF p = First THEN "used" ELSE "unused"]
  /\ sz = [p \in Procs |-> 0]
  /\ cur = [p \in Procs |-> 0]
  /\ tab = [u \in Tables |-> IF u = t THEN {Root, Hi[1], Hi[2]} ELSE {}]
  /\ map = [u \in Tables |-> Empty]
  /\ halted = ""

Calls(p) ==
  \/ \E n \in Sizes, lazy \in BOOLEAN : Sbrk(p, n, lazy)
  \/ \E a \in Addrs : \/ PageFault(p, a) \/ Copyin(p, a)
                       \/ \E x \in Vals : Store(p, a, x) \/ Copyout(p, a, x)
  \/ \E q \in Procs : Fork(p, q)
  \/ \E prog \in Programs, n \in 0 .. MaxArgs : SysExec(p, prog, n)
  \/ Exit(p)

Steps(p) ==
  \/ Uvmcreate(p) \/ ProcPagetable(p) \/ Uvmcopy(p) \/ Uvmalloc(p) \/ MapPage(p)
  \/ GrowDone(p) \/ (\E a \in Addrs : ArgvPage(p, a)) \/ ExecError(p) \/ Phdr(p) \/ ExecFilled(p)
  \/ Loadseg(p) \/ ExecCommit(p)

Next ==
  /\ \E p \in Procs : Calls(p) \/ Steps(p) \/ Reap(p)
  /\ UNCHANGED npages

Spec == Init /\ [][Next]_vars

-----------------------------------------------------------------------------
\* the pages of p's trapframe, of its tables and the user pages these map
Reachable(p) ==
  (IF state[p] = "unused" THEN {} ELSE {Trapframe(p)})
    \cup TablePages(<<p, 0>>) \cup TablePages(<<p, 1>>)

\* the user page a call has allocated and not yet mapped, and its arguments
InFlight(p) ==
  IF k[p] = Idle THEN {}
  ELSE (IF k[p].at = "walk" THEN {Page(k[p].t, k[p].va)} ELSE {})
         \cup (IF k[p].op = "exec" THEN Argv(p, k[p].args) ELSE {})

Mappings == UNION {{<<t, v>> : v \in DOMAIN map[t]} : t \in Tables}

TypeOK ==
  /\ state \in [Procs -> {"unused", "used", "user", "zombie"}]
  /\ sz \in [Procs -> Nat] /\ cur \in [Procs -> {0, 1}]
  /\ tab \in [Tables -> SUBSET (-5 .. -1)]
  /\ \A t \in Tables : DOMAIN map[t] \subseteq Nat
  /\ npages \in Memories /\ Cardinality(DOMAIN mem) <= npages

\* nothing is mapped past the size by which freeproc and exec will free it, and a
\* table that no process uses and no call builds is empty
NothingPastSize ==
  \A p \in Procs :
    LET built == {k[r].t : r \in {r \in Procs : k[r] # Idle}} IN
    /\ Own(p) \notin built => \A v \in DOMAIN map[Own(p)] : v < PGROUNDUP(sz[p])
    /\ Spare(p) \notin built => tab[Spare(p)] = {} /\ map[Spare(p)] = Empty
    /\ state[p] = "unused" => sz[p] = 0 /\ (Own(p) \notin built => tab[Own(p)] = {})

\* Every page of physical memory is on the free list or has exactly one use:
\* a trapframe, a page-table page, one mapping of one table, or the hands of
\* a running call; and it will be found again when that use ends.  No path of
\* fork, exec, sbrk or vmfault, whichever kalloc fails in it, loses a page,
\* frees one twice, or runs into a panic.
PagesAccounted ==
  /\ TypeOK /\ NothingPastSize
  /\ halted = ""
  /\ LET kernel == UNION {Reachable(p) \cup InFlight(p) : p \in Procs}
         user   == {map[m[1]][m[2]].page : m \in Mappings} IN
     /\ DOMAIN mem = kernel \cup user
     /\ kernel \cap user = {}
     /\ Cardinality(user) = Cardinality(Mappings)

\* what exec makes of a program
Image(prog) ==
  LET top   == Max({PGROUNDUP(prog[i].vaddr + prog[i].memsz) : i \in DOMAIN prog})
      first(v) == Min({i \in DOMAIN prog : v < PGROUNDUP(prog[i].vaddr + prog[i].memsz)})
      loads(i, v) == v \in prog[i].vaddr \div PGSIZE .. PGROUNDUP(prog[i].vaddr + prog[i].filesz) - 1
  IN [size |-> (top + USERSTACK + 1) * PGSIZE,
      page |-> [v \in 0 .. top + USERSTACK |->
        CASE v < top -> [x |-> IF \E i \in DOMAIN prog : loads(i, v) THEN "file" ELSE "zero",
                         perm |-> Flags2perm(prog[first(v)].w)]
          [] v = top -> [x |-> "zero", perm |-> "guard"]
          [] OTHER   -> [x |-> IF v = top + USERSTACK THEN "args" ELSE "zero", perm |-> "rw"]]]

\* the memory a process sees: pages not yet allocated read as zero
Space(p) ==
  IF state[p] # "user" THEN NoSpace
  ELSE [size |-> sz[p],
        page |-> [v \in 0 .. PGROUNDUP(sz[p]) - 1 |->
          IF v \in DOMAIN map[Own(p)]
            THEN [x |-> mem[map[Own(p)][v].page], perm |-> map[Own(p)][v].perm]
            ELSE [x |-> "zero", perm |-> "rw"]]]

A == INSTANCE AddressSpaces WITH space <- [p \in Procs |-> Space(p)], MaxSize <- TRAPFRAME,
                                 Images <- {Image(prog) : prog \in Programs}

\* Lazy allocation, page tables and the error paths together give every
\* process private memory: fresh pages read as zero, fork's copy is exact and
\* separate, exec replaces everything at once, and a failed call leaves the
\* memory as it was.
ImplementsAddressSpaces == A!ASpec
=============================================================================
