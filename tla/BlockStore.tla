----------------------------- MODULE BlockStore -----------------------------
(***************************************************************************)
(* What bread, bwrite and brelse promise to the file system and the log:   *)
(* one copy of every block, used by one process at a time, which reads     *)
(* what was last written to it.                                            *)
(***************************************************************************)
CONSTANTS Procs, Blocks, Vals, NoProc

VARIABLES content,  \* the contents of every block
          owner     \* who has the block between bread and brelse

avars == <<content, owner>>

AInit == owner = [k \in Blocks |-> NoProc] /\ content \in [Blocks -> Vals]

Take(p, k) ==
  /\ owner[k] = NoProc
  /\ owner' = [owner EXCEPT ![k] = p]
  /\ UNCHANGED content

Put(p, k, v) ==
  /\ owner[k] = p
  /\ content' = [content EXCEPT ![k] = v]
  /\ UNCHANGED owner

Give(p, k) ==
  /\ owner[k] = p
  /\ owner' = [owner EXCEPT ![k] = NoProc]
  /\ UNCHANGED content

ANext == \E p \in Procs, k \in Blocks :
           Take(p, k) \/ Give(p, k) \/ \E v \in Vals : Put(p, k, v)

ASpec == AInit /\ [][ANext]_avars
=============================================================================
