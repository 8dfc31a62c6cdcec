--------------------------- MODULE AddressSpaces ---------------------------
(***************************************************************************)
(* What user programs may rely on of their memory: every process has pages *)
(* of its own, new ones read as zero, fork copies them all, exec replaces  *)
(* them all, and a call that fails changes nothing.                        *)
(***************************************************************************)
EXTENDS Integers

CONSTANTS Procs, Vals,
          PGSIZE,
          MaxSize,
          Images,   \* what the programs look like when exec returns
          NoSpace

VARIABLE space      \* size and pages of every process that has memory

ZeroPage == [x |-> "zero", perm |-> "rw"]
NPages(n) == (n + PGSIZE - 1) \div PGSIZE
Running == {p \in Procs : space[p] # NoSpace}

AInit == space = [p \in Procs |-> NoSpace]

AExec(p) == \E im \in Images : space' = [space EXCEPT ![p] = im]

AStore(p) ==
  /\ p \in Running
  /\ \E v \in 0 .. NPages(space[p].size) - 1, x \in Vals :
       /\ space[p].page[v].perm = "rw"
       /\ space' = [space EXCEPT ![p].page[v].x = x]

AResize(p) ==
  /\ p \in Running
  /\ \E n \in 0 .. MaxSize :
       space' = [space EXCEPT ![p] =
                   [size |-> n,
                    page |-> [v \in 0 .. NPages(n) - 1 |->
                                IF v < NPages(@.size) THEN @.page[v] ELSE ZeroPage]]]

AFork(p, q) ==
  /\ p \in Running /\ q \notin Running
  /\ space' = [space EXCEPT ![q] = space[p]]

AExit(p) == space' = [space EXCEPT ![p] = NoSpace]

ANext == \E p \in Procs : \/ AExec(p) \/ AStore(p) \/ AResize(p) \/ AExit(p)
                          \/ \E q \in Procs : AFork(p, q)

ASpec == AInit /\ [][ANext]_space
=============================================================================
