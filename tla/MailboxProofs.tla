--------------------------- MODULE MailboxProofs ----------------------------
(***************************************************************************)
(* Proofs about the mailboxes: no message is missed by a receiver that is  *)
(* going to sleep, and the mailboxes implement one-place channels (safety  *)
(* part), for every size of the process table, every set of messages and   *)
(* every number of processes created.                                      *)
(***************************************************************************)
EXTENDS Mailbox, TLAPS

\* No slot is Null, the value of a free wait_lock.
LEMMA NullNotSlot == Null \notin Slots
  BY DEF Slots, Null

\* The table procinit builds satisfies the invariant.
LEMMA InitIInv == Init => IInv
<1>. SUFFICES ASSUME Init PROVE IInv
  OBVIOUS
<1>1. TypeOK
  BY MailboxAssumption DEF Init, TypeOK, Slots, Null
<1>. QED
  BY <1>1, MailboxAssumption DEF Init, IInv, NoMissedMessage, LockHeldInside, Slots, Null

\* Every step inside msgsend and msgrecv keeps the invariant.
LEMMA KernelStepIInv == ASSUME IInv, NEW p \in Slots, KernelStep(p) PROVE IInv'
<1>. USE MailboxAssumption, NullNotSlot DEF IInv, NoMissedMessage, TypeOK, LockHeldInside
<1>1. CASE SendAcquire(p)
  BY <1>1 DEF SendAcquire, Goto
<1>2. CASE SendRejected(p)
  BY <1>2 DEF SendRejected, Done, Goto
<1>3. CASE SendFails(p)
  BY <1>3 DEF SendFails, Done, Goto
<1>4. CASE SendStore(p)
  BY <1>4 DEF SendStore, Goto
<1>5. CASE SendWake(p)
  BY <1>5 DEF SendWake
<1>6. CASE RecvAcquire(p)
  BY <1>6 DEF RecvAcquire, Goto
<1>7. CASE RecvEmpty(p)
  BY <1>7 DEF RecvEmpty, Goto
<1>8. CASE RecvSleep(p)
  BY <1>8 DEF RecvSleep, Goto
<1>9. CASE RecvTake(p)
  BY <1>9 DEF RecvTake, Done, Goto
<1>10. CASE RecvFails(p)
  BY <1>10 DEF RecvFails, Done, Goto
<1>. QED
  BY <1>1, <1>2, <1>3, <1>4, <1>5, <1>6, <1>7, <1>8, <1>9, <1>10 DEF KernelStep

\* A call from user space, a fork, an exit, a wait, a kill and a signal keep it.
LEMMA UserStepIInv == ASSUME IInv, NEW p \in Slots, UserStep(p) PROVE IInv'
<1>. USE MailboxAssumption, NullNotSlot DEF IInv, NoMissedMessage, TypeOK, LockHeldInside
<1>1. ASSUME NEW k \in 1 .. MaxPid, NEW m \in Msgs \cup {Torn}, SendCall(p, k, m) PROVE IInv'
  BY <1>1 DEF SendCall, Goto
<1>2. CASE RecvCall(p)
  BY <1>2 DEF RecvCall, Goto
<1>3. CASE Exit(p)
  BY <1>3 DEF Exit, Goto
<1>4. ASSUME NEW s \in Slots, Fork(p, s) PROVE IInv'
  BY <1>4 DEF Fork, Goto
<1>5. ASSUME NEW s \in Slots, Freeproc(p, s) PROVE IInv'
  BY <1>5 DEF Freeproc, Goto
<1>6. ASSUME NEW s \in Slots, Kill(p, s) PROVE IInv'
  BY <1>6 DEF Kill
<1>7. ASSUME NEW s \in Slots, Sigsend(p, s) PROVE IInv'
  BY <1>7 DEF Sigsend
<1>. QED
  BY ONLY UserStep(p), <1>1, <1>2, <1>3, <1>4, <1>5, <1>6, <1>7 DEF UserStep

\* Every step of the mailboxes keeps the invariant.
LEMMA NextIInv == IInv /\ [Next]_vars => IInv'
<1>. SUFFICES ASSUME IInv, [Next]_vars PROVE IInv'
  OBVIOUS
<1>1. CASE UNCHANGED vars
  BY <1>1 DEF vars, IInv, NoMissedMessage, TypeOK, LockHeldInside
<1>. QED
  BY <1>1, KernelStepIInv, UserStepIInv DEF Next

\* The inductive invariant of the mailboxes holds throughout.
THEOREM IInvHolds == Spec => []IInv
  BY InitIInv, NextIInv, PTL DEF Spec

\* A process asleep in msgrecv has an empty mailbox, or the sender that filled
\* it has its wakeup still to come: wait_lock, held from the test of msg_flag
\* to sleep(), leaves no gap for a message to be missed in.
THEOREM MessageNotMissed == Spec => []NoMissedMessage
<1>1. IInv => NoMissedMessage
  BY DEF IInv
<1>. QED
  BY <1>1, IInvHolds, PTL


\* A step that neither fills nor empties a box is invisible in the boxes.
LEMMA BoxKept == ASSUME flag' = flag, \A s \in Slots : flag[s] => buf'[s] = buf[s] PROVE Box' = Box
  BY DEF Box

\* A step inside msgsend or msgrecv is a step of the channels or invisible.
LEMMA KernelStepRefines ==
  ASSUME IInv, NEW p \in Slots, KernelStep(p)
  PROVE  Abstract!ANext \/ UNCHANGED <<Box, Receiving, got>>
<1>. USE DEF Abstract!ANext
<1>1. CASE SendStore(p)
  <2>1. PICK s \in Slots : /\ ~flag[s] /\ buf' = [buf EXCEPT ![s] = text[p]]
                           /\ flag' = [flag EXCEPT ![s] = TRUE]
    BY <1>1 DEF SendStore
  <2>2. text[p] \in Msgs
    BY <1>1, MailboxAssumption DEF SendStore, IInv, NoMissedMessage, TypeOK
  <2>3. Box' = [Box EXCEPT ![s] = text[p]] /\ Box[s] = Empty
    BY <2>1 DEF Box, IInv, NoMissedMessage, TypeOK
  <2>4. Receiving' = Receiving
    BY <1>1 DEF SendStore, Goto, Receiving, IInv, NoMissedMessage, TypeOK
  <2>5. Abstract!Accept(s, text[p])
    BY <1>1, <2>3, <2>4 DEF SendStore, Abstract!Accept
  <2>. QED
    BY <2>2, <2>5
<1>2. CASE RecvTake(p)
  <2>1. Box' = [Box EXCEPT ![p] = Empty] /\ Box[p] = buf[p] /\ buf[p] # Empty
    BY <1>2, MailboxAssumption DEF RecvTake, Box, IInv, NoMissedMessage, TypeOK
  <2>2. p \in Receiving
    BY <1>2 DEF RecvTake, Receiving
  <2>3. Receiving' = Receiving \ {p}
    BY <1>2 DEF RecvTake, Done, Goto, Receiving, IInv, NoMissedMessage, TypeOK
  <2>4. Abstract!Take(p)
    BY <1>2, <2>1, <2>2, <2>3 DEF RecvTake, Abstract!Take
  <2>. QED
    BY <2>4
<1>3. CASE RecvFails(p)
  <2>1. Box' = Box /\ Box[p] = buf[p] /\ buf[p] # Empty
    BY <1>3, MailboxAssumption DEF RecvFails, Box, IInv, NoMissedMessage, TypeOK
  <2>2. p \in Receiving
    BY <1>3 DEF RecvFails, Receiving
  <2>3. Receiving' = Receiving \ {p}
    BY <1>3 DEF RecvFails, Done, Goto, Receiving, IInv, NoMissedMessage, TypeOK
  <2>4. Abstract!Refuse(p)
    BY <1>3, <2>1, <2>2, <2>3 DEF RecvFails, Abstract!Refuse
  <2>. QED
    BY <2>4
<1>4. CASE SendFails(p)
  <2>1. Box' = Box
    BY <1>4 DEF SendFails, Box, IInv, NoMissedMessage, TypeOK
  <2>2. Receiving' = Receiving
    BY <1>4 DEF SendFails, Done, Goto, Receiving, IInv, NoMissedMessage, TypeOK
  <2>. QED
    BY <1>4, <2>1, <2>2 DEF SendFails
<1>5. CASE SendWake(p)
  <2>1. Receiving' = Receiving
    BY <1>5 DEF SendWake, Receiving, IInv, NoMissedMessage, TypeOK, Null
  <2>. QED
    BY <1>5, <2>1, BoxKept DEF SendWake
<1>6. CASE SendAcquire(p) \/ SendRejected(p) \/ RecvAcquire(p) \/ RecvEmpty(p) \/ RecvSleep(p)
  <2>1. Receiving' = Receiving
    BY <1>6 DEF SendAcquire, SendRejected, RecvAcquire, RecvEmpty, RecvSleep, Done, Goto,
                Receiving, IInv, NoMissedMessage, TypeOK
  <2>. QED
    BY <1>6, <2>1, BoxKept DEF SendAcquire, SendRejected, RecvAcquire, RecvEmpty, RecvSleep
<1>. QED
  BY <1>1, <1>2, <1>3, <1>4, <1>5, <1>6 DEF KernelStep

\* So is a step from user space.
LEMMA UserStepRefines ==
  ASSUME IInv, NEW p \in Slots, UserStep(p)
  PROVE  Abstract!ANext \/ UNCHANGED <<Box, Receiving, got>>
<1>. USE DEF Abstract!ANext
<1>1. CASE RecvCall(p)
  <2>1. Receiving' = Receiving \cup {p} /\ p \notin Receiving
    BY <1>1 DEF RecvCall, Goto, Receiving, IInv, NoMissedMessage, TypeOK
  <2>2. Abstract!Ask(p)
    BY <1>1, <2>1, BoxKept DEF RecvCall, Abstract!Ask
  <2>. QED
    BY <2>2
<1>2. ASSUME NEW s \in Slots, Freeproc(p, s)
      PROVE  Abstract!ANext \/ UNCHANGED <<Box, Receiving, got>>
  <2>1. Receiving' = Receiving /\ s \notin Receiving
    BY <1>2 DEF Freeproc, Goto, Receiving, IInv, NoMissedMessage, TypeOK
  <2>2. Box' = [Box EXCEPT ![s] = Empty]
    BY <1>2 DEF Freeproc, Box, IInv, NoMissedMessage, TypeOK
  <2>3. Abstract!Discard(s)
    BY <1>2, <2>1, <2>2 DEF Freeproc, Abstract!Discard
  <2>. QED
    BY <2>3
<1>3. ASSUME NEW s \in Slots, Fork(p, s)
      PROVE  Abstract!ANext \/ UNCHANGED <<Box, Receiving, got>>
  <2>1. Receiving' = Receiving
    BY <1>3 DEF Fork, Goto, Receiving, IInv, NoMissedMessage, TypeOK
  <2>2. Box' = Box
    BY <1>3 DEF Fork, Box, IInv, NoMissedMessage, TypeOK
  <2>. QED
    BY <1>3, <2>1, <2>2 DEF Fork
<1>4. ASSUME NEW s \in Slots, Kill(p, s) \/ Sigsend(p, s)
      PROVE  Abstract!ANext \/ UNCHANGED <<Box, Receiving, got>>
  <2>1. Receiving' = Receiving
    BY <1>4 DEF Kill, Sigsend, Receiving, IInv, NoMissedMessage, TypeOK
  <2>. QED
    BY <1>4, <2>1, BoxKept DEF Kill, Sigsend
<1>5. CASE Exit(p) \/ \E k \in 1 .. MaxPid, m \in Msgs \cup {Torn} : SendCall(p, k, m)
  <2>1. Receiving' = Receiving
    BY <1>5 DEF Exit, SendCall, Goto, Receiving, IInv, NoMissedMessage, TypeOK
  <2>. QED
    BY <1>5, <2>1, BoxKept DEF Exit, SendCall
<1>. QED
  BY <1>1, <1>2, <1>3, <1>4, <1>5 DEF UserStep

\* msgsend and msgrecv, with their failures, kills, signals and the reuse of a
\* slot between them, implement one-place channels: what a receiver gets is a
\* message that was sent to it, whole and once.
THEOREM RefinesChannel == Spec => Abstract!ASafeSpec
<1>1. Init => Abstract!AInit
  <2>. SUFFICES ASSUME Init PROVE Abstract!AInit
    OBVIOUS
  <2>1. Box = [s \in Slots |-> Empty]
    BY DEF Init, Box
  <2>2. Receiving = {}
    BY DEF Init, Receiving
  <2>3. got = [s \in Slots |-> Empty]
    BY DEF Init
  <2>. QED
    BY <2>1, <2>2, <2>3 DEF Abstract!AInit
<1>2. IInv /\ [Next]_vars => [Abstract!ANext]_(Abstract!avars)
  <2>. SUFFICES ASSUME IInv, [Next]_vars PROVE Abstract!ANext \/ UNCHANGED <<Box, Receiving, got>>
    BY DEF Abstract!avars
  <2>1. CASE UNCHANGED vars
    BY <2>1 DEF vars, Box, Receiving
  <2>. QED
    BY <2>1, KernelStepRefines, UserStepRefines DEF Next
<1>. QED
  BY <1>1, <1>2, IInvHolds, PTL DEF Spec, Abstract!ASafeSpec
=============================================================================
