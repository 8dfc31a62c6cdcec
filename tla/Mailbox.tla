------------------------------ MODULE Mailbox -------------------------------
(***************************************************************************)
(* Mailbox IPC (kernel/proc.c: msgsend, msgrecv) together with the parts   *)
(* of a process's life that touch its mailbox: allocproc, kexit, freeproc  *)
(* and kkill.                                                              *)
(*                                                                         *)
(* waitLock is the holder of wait_lock.  A p->lock section is one step;    *)
(* kill and fork take only p->lock, so they come between the steps of      *)
(* a send or a receive.                                                    *)
(***************************************************************************)
EXTENDS Integers

CONSTANTS NPROC,    \* slots of the process table
          Msgs,     \* message texts
          Empty,    \* a cleared msg_buf
          Torn,     \* what a copyinstr that failed half way leaves behind
          MaxPid    \* bound on the pids handed out

ASSUME MailboxAssumption ==
  /\ NPROC \in Nat \ {0} /\ MaxPid \in Nat \ {0}
  /\ Empty \notin Msgs /\ Torn \notin Msgs /\ Empty # Torn

Slots == 1 .. NPROC
Null  == 0

VARIABLES pid,       \* p->pid, 0 when UNUSED
          flag,      \* p->msg_flag
          buf,       \* p->msg_buf
          killed,    \* p->killed
          pc,        \* "none" (UNUSED), "user", "dead" (ZOMBIE), "send_acq",
                     \* "send", "send_wake", "recv_acq", "recv", "recv_sleep",
                     \* "asleep" (SLEEPING on &p->msg_flag)
          to, text,  \* msgsend's arguments: a pid and a message
          target,    \* the slot msgsend found
          got,       \* what the last msgrecv of the process returned
          waitLock,
          nextpid

vars == <<pid, flag, buf, killed, pc, to, text, target, got, waitLock, nextpid>>

TypeOK ==
  /\ pid \in [Slots -> 0 .. MaxPid]
  /\ flag \in [Slots -> BOOLEAN]
  /\ buf \in [Slots -> Msgs \cup {Empty, Torn}]
  /\ killed \in [Slots -> BOOLEAN]
  /\ pc \in [Slots -> {"none", "user", "dead", "send_acq", "send", "send_wake",
                       "recv_acq", "recv", "recv_sleep", "asleep"}]
  /\ to \in [Slots -> 0 .. MaxPid]
  /\ text \in [Slots -> Msgs \cup {Empty, Torn}]
  /\ target \in [Slots -> Slots \cup {Null}]
  /\ got \in [Slots -> Msgs \cup {Empty, Torn}]
  /\ waitLock \in Slots \cup {Null}
  /\ nextpid \in 1 .. MaxPid + 1

\* procinit and the first process
Init ==
  /\ pid = [s \in Slots |-> IF s = 1 THEN 1 ELSE 0]
  /\ flag = [s \in Slots |-> FALSE]
  /\ buf = [s \in Slots |-> Empty]
  /\ killed = [s \in Slots |-> FALSE]
  /\ pc = [s \in Slots |-> IF s = 1 THEN "user" ELSE "none"]
  /\ to = [s \in Slots |-> 0]
  /\ text = [s \in Slots |-> Empty]
  /\ target = [s \in Slots |-> Null]
  /\ got = [s \in Slots |-> Empty]
  /\ waitLock = Null
  /\ nextpid = 2

Goto(p, l) == pc' = [pc EXCEPT ![p] = l]

\* the system call is over: wait_lock is released, its arguments forgotten
Done(p) ==
  /\ waitLock = p /\ waitLock' = Null
  /\ Goto(p, "user")
  /\ to' = [to EXCEPT ![p] = 0]
  /\ text' = [text EXCEPT ![p] = Empty]
  /\ target' = [target EXCEPT ![p] = Null]

-----------------------------------------------------------------------------
(* msgsend *)

\* a string the kernel can copy is in Msgs, one it cannot is Torn
SendCall(p, k, m) ==
  /\ pc[p] = "user" /\ ~killed[p]
  /\ to' = [to EXCEPT ![p] = k]
  /\ text' = [text EXCEPT ![p] = m]
  /\ Goto(p, "send_acq")
  /\ UNCHANGED <<pid, flag, buf, killed, target, got, waitLock, nextpid>>

SendAcquire(p) ==
  /\ pc[p] = "send_acq" /\ waitLock = Null
  /\ waitLock' = p
  /\ Goto(p, "send")
  /\ UNCHANGED <<pid, flag, buf, killed, to, text, target, got, nextpid>>

\* no process has the pid, or its box is full
SendRejected(p) ==
  /\ pc[p] = "send"
  /\ \A s \in Slots : pc[s] # "none" /\ pid[s] = to[p] => flag[s]
  /\ Done(p)
  /\ UNCHANGED <<pid, flag, buf, killed, got, nextpid>>

\* fault variant of SendFails: msg_flag is set before copyinstr
SendFailsFlagged(p) ==
  /\ pc[p] = "send" /\ text[p] = Torn
  /\ \E s \in Slots :
       /\ pc[s] # "none" /\ pid[s] = to[p] /\ ~flag[s]
       /\ buf' = [buf EXCEPT ![s] = Torn]
       /\ flag' = [flag EXCEPT ![s] = TRUE]
  /\ Done(p)
  /\ UNCHANGED <<pid, killed, got, nextpid>>

\* copyinstr fails, possibly after part of the message reached msg_buf
SendFails(p) ==
  /\ pc[p] = "send" /\ text[p] = Torn
  /\ \E s \in Slots :
       /\ pc[s] # "none" /\ pid[s] = to[p] /\ ~flag[s]
       /\ buf' = [buf EXCEPT ![s] = Torn]
  /\ Done(p)
  /\ UNCHANGED <<pid, flag, killed, got, nextpid>>

SendStore(p) ==
  /\ pc[p] = "send" /\ text[p] # Torn
  /\ \E s \in Slots :
       /\ pc[s] # "none" /\ pid[s] = to[p] /\ ~flag[s]
       /\ buf' = [buf EXCEPT ![s] = text[p]]
       /\ flag' = [flag EXCEPT ![s] = TRUE]
       /\ target' = [target EXCEPT ![p] = s]
  /\ Goto(p, "send_wake")
  /\ UNCHANGED <<pid, killed, to, text, got, waitLock, nextpid>>

\* wakeup(&p->msg_flag), release(&wait_lock)
SendWake(p) ==
  /\ pc[p] = "send_wake" /\ waitLock' = Null
  /\ pc' = [pc EXCEPT ![p] = "user",
              ![target[p]] = IF target[p] = p THEN "user"
                             ELSE IF @ = "asleep" THEN "recv_acq" ELSE @]
  /\ to' = [to EXCEPT ![p] = 0]
  /\ text' = [text EXCEPT ![p] = Empty]
  /\ target' = [target EXCEPT ![p] = Null]
  /\ UNCHANGED <<pid, flag, buf, killed, got, nextpid>>

-----------------------------------------------------------------------------
(* msgrecv *)

RecvCall(p) ==
  /\ pc[p] = "user" /\ ~killed[p]
  /\ Goto(p, "recv_acq")
  /\ UNCHANGED <<pid, flag, buf, killed, to, text, target, got, waitLock, nextpid>>

\* acquire(&wait_lock), on entry and at the end of sleep()
RecvAcquire(p) ==
  /\ pc[p] = "recv_acq" /\ waitLock = Null
  /\ waitLock' = p
  /\ Goto(p, "recv")
  /\ UNCHANGED <<pid, flag, buf, killed, to, text, target, got, nextpid>>

\* fault variant of RecvEmpty: wait_lock is released before sleep() is called
RecvEmptyUnlocks(p) ==
  /\ pc[p] = "recv" /\ ~flag[p]
  /\ Goto(p, "recv_sleep")
  /\ waitLock' = Null
  /\ UNCHANGED <<pid, flag, buf, killed, to, text, target, got, nextpid>>

\* the test of msg_flag under p->lock, which is then released
RecvEmpty(p) ==
  /\ pc[p] = "recv" /\ ~flag[p]
  /\ Goto(p, "recv_sleep")
  /\ UNCHANGED <<pid, flag, buf, killed, to, text, target, got, waitLock, nextpid>>

\* sleep(&p->msg_flag, &wait_lock)
RecvSleep(p) ==
  /\ pc[p] = "recv_sleep"
  /\ Goto(p, "asleep")
  /\ waitLock' = Null
  /\ UNCHANGED <<pid, flag, buf, killed, to, text, target, got, nextpid>>

RecvTake(p) ==
  /\ pc[p] = "recv" /\ flag[p]
  /\ got' = [got EXCEPT ![p] = buf[p]]
  /\ flag' = [flag EXCEPT ![p] = FALSE]
  /\ buf' = [buf EXCEPT ![p] = Empty]
  /\ Done(p)
  /\ UNCHANGED <<pid, killed, nextpid>>

\* copyout fails: -1, and the message stays
RecvFails(p) ==
  /\ pc[p] = "recv" /\ flag[p]
  /\ Done(p)
  /\ UNCHANGED <<pid, flag, buf, killed, got, nextpid>>

-----------------------------------------------------------------------------
(* The life of a process, as far as its mailbox sees it *)

\* fork by p: allocproc gives slot s a pid and a cleared mailbox
Fork(p, s) ==
  /\ pc[p] = "user" /\ ~killed[p] /\ pc[s] = "none" /\ nextpid <= MaxPid
  /\ pid' = [pid EXCEPT ![s] = nextpid]
  /\ nextpid' = nextpid + 1
  /\ flag' = [flag EXCEPT ![s] = FALSE]
  /\ buf' = [buf EXCEPT ![s] = Empty]
  /\ Goto(s, "user")
  /\ UNCHANGED <<killed, to, text, target, got, waitLock>>

\* kexit, by exit() or because usertrap found p killed; init never exits
Exit(p) ==
  /\ pc[p] = "user" /\ p # 1 /\ waitLock = Null
  /\ Goto(p, "dead")
  /\ UNCHANGED <<pid, flag, buf, killed, to, text, target, got, waitLock, nextpid>>

\* freeproc(s) in a wait() of p, with wait_lock held
Freeproc(p, s) ==
  /\ pc[p] = "user" /\ ~killed[p] /\ pc[s] = "dead" /\ waitLock = Null
  /\ pid' = [pid EXCEPT ![s] = 0]
  /\ flag' = [flag EXCEPT ![s] = FALSE]
  /\ buf' = [buf EXCEPT ![s] = Empty]
  /\ killed' = [killed EXCEPT ![s] = FALSE]
  /\ got' = [got EXCEPT ![s] = Empty]
  /\ Goto(s, "none")
  /\ UNCHANGED <<to, text, target, waitLock, nextpid>>

\* p kills the process in s (kkill); init is left alone
Kill(p, s) ==
  /\ pc[p] = "user" /\ ~killed[p] /\ pc[s] # "none" /\ s # 1
  /\ killed' = [killed EXCEPT ![s] = TRUE]
  /\ pc' = [pc EXCEPT ![s] = IF @ = "asleep" THEN "recv_acq" ELSE @]
  /\ UNCHANGED <<pid, flag, buf, to, text, target, got, waitLock, nextpid>>

\* p signals the process in s (sigsend): of the mailbox state only a sleeper sees it
Sigsend(p, s) ==
  /\ pc[p] = "user" /\ ~killed[p] /\ pc[s] # "none"
  /\ pc' = [pc EXCEPT ![s] = IF @ = "asleep" THEN "recv_acq" ELSE @]
  /\ UNCHANGED <<pid, flag, buf, killed, to, text, target, got, waitLock, nextpid>>

-----------------------------------------------------------------------------
KernelStep(p) ==
  \/ SendAcquire(p) \/ SendRejected(p) \/ SendFails(p) \/ SendStore(p) \/ SendWake(p)
  \/ RecvAcquire(p) \/ RecvEmpty(p) \/ RecvSleep(p) \/ RecvTake(p) \/ RecvFails(p)

UserStep(p) ==
  \/ \E k \in 1 .. MaxPid, m \in Msgs \cup {Torn} : SendCall(p, k, m)
  \/ RecvCall(p) \/ Exit(p)
  \/ \E s \in Slots : Fork(p, s) \/ Freeproc(p, s) \/ Kill(p, s) \/ Sigsend(p, s)

Next == \E p \in Slots : KernelStep(p) \/ UserStep(p)

Spec == Init /\ [][Next]_vars

\* A process inside the kernel runs on and a spinlock released again and again
\* is not missed forever; usertrap makes a killed process exit.
Fairness ==
  \A p \in Slots : SF_vars(KernelStep(p)) /\ SF_vars(killed[p] /\ Exit(p))

FairSpec == Spec /\ Fairness

-----------------------------------------------------------------------------
(* Properties *)

\* A process sleeps in msgrecv only while its mailbox is empty, or while the
\* sender that filled it is still about to call wakeup (msgsend, msgrecv).
NoMissedMessage ==
  /\ TypeOK
  /\ \A s \in Slots : pc[s] = "asleep" /\ flag[s] =>
       \E p \in Slots : pc[p] = "send_wake" /\ target[p] = s

\* wait_lock is held exactly inside the critical sections of msgsend and msgrecv
LockHeldInside ==
  \A s \in Slots : pc[s] \in {"send", "send_wake", "recv", "recv_sleep"} <=> waitLock = s

\* the inductive invariant: what each step of a send or a receive leaves behind
IInv ==
  /\ NoMissedMessage
  /\ LockHeldInside
  /\ \A s \in Slots : target[s] # Null <=> pc[s] = "send_wake"
  /\ \A s \in Slots : pc[s] = "recv_sleep" => ~flag[s]
  /\ \A s \in Slots : flag[s] => buf[s] \in Msgs /\ pc[s] # "none"
  /\ \A s \in Slots : pc[s] \in {"send_acq", "send", "send_wake"} => text[s] # Empty

\* the abstract state: the message in each box, and who asked for one
Box == [s \in Slots |-> IF flag[s] THEN buf[s] ELSE Empty]
Receiving == {s \in Slots : pc[s] \in {"recv_acq", "recv", "recv_sleep", "asleep"}}

\* The mailboxes implement one-place channels: no message is lost, duplicated,
\* torn or handed to the slot's next owner, a failed send or receive leaves the
\* box as it was, and a waiting receiver gets what was sent.
Abstract == INSTANCE Channel WITH box <- Box, receiving <- Receiving
ImplementsChannel == Abstract!ASpec
=============================================================================
