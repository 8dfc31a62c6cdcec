---------------------------- MODULE SignalProofs ----------------------------
(***************************************************************************)
(* Proofs about signals and alarms: nothing is pending without a handler,  *)
(* the alarm is never late, a signal once accepted is not lost, and        *)
(* sigreturn resumes the interrupted context, for any number of processes, *)
(* any handlers, intervals and register width.                             *)
(***************************************************************************)
EXTENDS Signal, TLAPS

\* The inductive invariant: PendingRegistered carries the types.
IInv == PendingRegistered /\ AlarmInTime

\* The remainder modulo the number of ints is an int.
LEMMA LowHalf ==
  ASSUME NEW x \in Nat
  PROVE  x % IntMod \in 0 .. IntMod - 1 /\ (x < IntMod => x % IntMod = x)
  BY SignalAssumption DEF SIGALRM

\* Registers hold at least the ints.
LEMMA WordFacts == WordMod \in Nat /\ IntMod \in Nat /\ IntMod < WordMod /\ 28 < IntMod
<1>1. IntMod \in Nat /\ 28 < IntMod /\ WordMod = IntMod * IntMod
  BY SignalAssumption DEF SIGALRM
<1>. QED
  BY <1>1

\* Storing an int back into a register gives a register value.
LEMMA AsIntWord == ASSUME NEW x \in Word PROVE AsInt(x) \in Word
<1>1. x \in Nat
  BY WordFacts DEF Word
<1>2. x % IntMod \in 0 .. IntMod - 1
  BY <1>1, LowHalf
<1>. QED
  BY <1>2, WordFacts DEF AsInt, Word

\* 0, -1 and the signal numbers are register values.
LEMMA SmallWords == {0, SIGUSR1, SIGALRM, WordMod - 1} \subseteq Word
  BY WordFacts DEF Word, SIGUSR1, SIGALRM

\* The state the first process starts in satisfies the invariant.
LEMMA InitIInv == Init => IInv
<1>. SUFFICES ASSUME Init PROVE IInv
  OBVIOUS
<1>1. 0 \in Word
  BY WordFacts DEF Word
<1>2. Zero \in Frames /\ [epc |-> Main, a0 |-> 0] \in Frames
  BY <1>1 DEF Zero, Frames
<1>. QED
  BY <1>2 DEF Init, IInv, PendingRegistered, AlarmInTime, TypeOK, Places

\* A frame with a new a0 is a frame.
LEMMA ResultTyped ==
  ASSUME TypeOK, NEW p \in Procs, NEW v \in Word, Result(p, v)
  PROVE  tf' \in [Procs -> Frames]
<1>1. [tf[p] EXCEPT !.a0 = v] \in Frames
  <2>1. tf[p] \in Frames
    BY DEF TypeOK
  <2>. QED
    BY <2>1 DEF Frames
<1>2. tf' = [tf EXCEPT ![p] = [tf[p] EXCEPT !.a0 = v]]
  BY DEF TypeOK, Result
<1>. QED
  BY <1>1, <1>2 DEF TypeOK

\* The steps that change nothing but the place in the kernel, and killed.
Quiet(p) == \/ Kill(p) \/ Exit(p) \/ PassCheck(p) \/ ReturnToUser(p)
            \/ CallSleeps(p) \/ Event(p) \/ SleepsAgain(p)

\* Every system call, interrupt, signal, kill and return keeps the invariant.
LEMMA NextIInv == IInv /\ [Next]_vars => IInv'
<1>. SUFFICES ASSUME IInv, [Next]_vars PROVE IInv'
  OBVIOUS
<1>. USE DEF IInv, PendingRegistered, AlarmInTime
<1>0. /\ Regs \cup {0, WordMod - 1, SIGUSR1, SIGALRM} \subseteq Word
      /\ Zero \in Frames
  BY SmallWords, SignalAssumption DEF Zero, Frames
<1>1. ASSUME NEW p \in Procs, NEW v \in Regs, Compute(p, v) PROVE IInv'
  <2>1. tf' \in [Procs -> Frames]
    BY <1>0, <1>1, ResultTyped DEF Compute
  <2>. QED
    BY <1>1, <2>1 DEF Compute, TypeOK, sigVars
<1>2. ASSUME NEW p \in Procs, NEW ticks \in Ticks \cup {0}, NEW h \in Handlers \cup {0},
             Sigalarm(p, ticks, h)
      PROVE  IInv'
  <2>1. tf' \in [Procs -> Frames]
    BY <1>0, <1>2, ResultTyped DEF Sigalarm
  <2>2. TypeOK'
    BY <1>0, <1>2, <2>1 DEF Sigalarm, ToTail, TypeOK, Places
  <2>3. \A q \in Procs : pending'[q] # 0 => registered'[q]
    BY <1>2 DEF Sigalarm, TypeOK
  <2>4. AlarmInTime'
    BY <1>2, SignalAssumption DEF Sigalarm, TypeOK
  <2>. QED
    BY <2>2, <2>3, <2>4
<1>3. ASSUME NEW p \in Procs, NEW v \in Results, OtherCall(p, v) \/ CallReturns(p, v)
      PROVE  IInv'
  <2>1. tf' \in [Procs -> Frames]
    BY <1>0, <1>3, ResultTyped DEF OtherCall, CallReturns, Results
  <2>. QED
    BY <1>3, <2>1 DEF OtherCall, CallReturns, ToTail, TypeOK, Places, sigVars
<1>4. ASSUME NEW p \in Procs, Sigreturn(p) PROVE IInv'
  <2>1. [signalTf[p] EXCEPT !.a0 = AsInt(@)] \in Frames
    <3>1. signalTf[p] \in Frames
      BY DEF TypeOK
    <3>2. AsInt(signalTf[p].a0) \in Word
      BY <3>1, AsIntWord DEF Frames
    <3>. QED
      BY <3>1, <3>2 DEF Frames
  <2>2. TypeOK'
    BY <1>0, <1>4, <2>1 DEF Sigreturn, ToTail, TypeOK, Places
  <2>. QED
    BY <1>4, <2>2 DEF Sigreturn
<1>5. ASSUME NEW p \in Procs, TimerTrap(p) PROVE IInv'
  <2>1. TypeOK'
    BY <1>5 DEF TimerTrap, ToTail, TypeOK, Places
  <2>2. \A q \in Procs : pending'[q] # 0 => registered'[q]
    BY <1>5 DEF TimerTrap, Expires, Counting, TypeOK
  <2>3. AlarmInTime'
    <3>. SUFFICES ASSUME NEW q \in Procs, registered[q], interval[q] > 0
                  PROVE  elapsed'[q] < interval[q]
      BY <1>5 DEF TimerTrap
    <3>1. elapsed[q] \in Nat /\ interval[q] \in Nat /\ elapsed[q] < interval[q]
      <4>1. Ticks \cup {0} \subseteq Nat
        BY SignalAssumption
      <4>. QED
        BY <4>1 DEF TypeOK
    <3>2. elapsed'[q] \in {elapsed[q], 0} \/ (~Expires(q) /\ Counting(q) /\ elapsed'[q] = elapsed[q] + 1)
      BY <1>5 DEF TimerTrap, TypeOK
    <3>. QED
      BY <3>1, <3>2 DEF Expires
  <2>. QED
    BY <2>1, <2>2, <2>3
<1>6. ASSUME NEW p \in Procs, Deliver(p) PROVE IInv'
  <2>1. [epc |-> handler[p], a0 |-> pending[p]] \in Frames
    BY <1>0 DEF TypeOK, Frames
  <2>2. TypeOK'
    BY <1>6, <2>1 DEF Deliver, TypeOK, Places
  <2>. QED
    BY <1>6, <2>2 DEF Deliver, TypeOK
<1>7. ASSUME NEW p \in Procs, Sigsend(p) PROVE IInv'
  BY <1>7 DEF Sigsend, Woken, TypeOK, Places
<1>8. ASSUME NEW p \in Procs, Quiet(p) PROVE IInv'
  <2>1. UNCHANGED <<tf, signalTf, sigVars, interrupted>>
    BY <1>8 DEF Quiet, Kill, Exit, PassCheck, ReturnToUser, CallSleeps, Event, SleepsAgain
  <2>2. pc' \in [Procs -> Places]
    <3>1. ASSUME Woken(p) PROVE pc' \in [Procs -> Places]
      <4>1. \A q \in Procs : (IF pc[q] = "asleep" THEN "woken" ELSE pc[q]) \in Places
        BY DEF TypeOK, Places
      <4>. QED
        BY <3>1, <4>1 DEF Woken, TypeOK
    <3>2. ASSUME NEW x \in Places, pc' = [pc EXCEPT ![p] = x] PROVE pc' \in [Procs -> Places]
      BY <3>2 DEF TypeOK
    <3>. QED
      BY <1>8, <3>1, <3>2 DEF Quiet, Kill, Exit, PassCheck, ReturnToUser, CallSleeps, Event,
                              SleepsAgain, Places
  <2>3. killed' \in [Procs -> BOOLEAN]
    BY <1>8 DEF Quiet, Kill, Exit, PassCheck, ReturnToUser, CallSleeps, Event, SleepsAgain, TypeOK
  <2>. QED
    BY <2>1, <2>2, <2>3 DEF TypeOK, sigVars
<1>9. CASE UNCHANGED vars
  BY <1>9 DEF vars, sigVars, TypeOK
<1>. QED
  BY <1>1, <1>2, <1>3, <1>4, <1>5, <1>6, <1>7, <1>8, <1>9
  DEF Next, Tail, CallGoesOn, Quiet

\* The inductive invariant of the signals holds throughout.
THEOREM IInvHolds == Spec => []IInv
  BY InitIInv, NextIInv, PTL DEF Spec

\* Nothing is pending for a process that has no handler, so a signal sent
\* before sigalarm(0, 0) never runs a handler registered after it.
THEOREM NothingPendingUnregistered == Spec => []PendingRegistered
<1>1. IInv => PendingRegistered
  BY DEF IInv
<1>. QED
  BY <1>1, IInvHolds, PTL

\* signaltick's counter stays below the interval whatever sequence of sigalarm
\* calls, ticks, handlers and returns came before.
THEOREM AlarmNeverLate == Spec => []AlarmInTime
<1>1. IInv => AlarmInTime
  BY DEF IInv
<1>. QED
  BY <1>1, IInvHolds, PTL

\* A pending signal is delivered as itself or goes with its handler: neither
\* the alarm, another sigsend nor a re-registration replaces or drops it.
THEOREM AcceptedSignalKept == Spec => AcceptedNotLost
<1>. DEFINE Kept(p) == pending[p] # 0 /\ pending'[p] # pending[p] =>
                          \/ inflight'[p] /\ active'[p] = pending[p] /\ tf'[p].a0 = pending[p]
                          \/ ~registered'[p]
<1>1. IInv /\ [Next]_vars => [\A p \in Procs : Kept(p)]_vars
  <2>. SUFFICES ASSUME IInv, Next, NEW q \in Procs PROVE Kept(q)
    OBVIOUS
  <2>. USE DEF IInv, PendingRegistered, TypeOK
  <2>1. ASSUME NEW p \in Procs, NEW v \in Regs, Compute(p, v) PROVE Kept(q)
    BY <2>1 DEF Compute, sigVars
  <2>2. ASSUME NEW p \in Procs, NEW ticks \in Ticks \cup {0}, NEW h \in Handlers \cup {0},
               Sigalarm(p, ticks, h)
        PROVE  Kept(q)
    BY <2>2 DEF Sigalarm
  <2>3. ASSUME NEW p \in Procs, NEW v \in Results, OtherCall(p, v) \/ CallReturns(p, v) PROVE Kept(q)
    BY <2>3 DEF OtherCall, CallReturns, sigVars
  <2>4. ASSUME NEW p \in Procs, Sigreturn(p) PROVE Kept(q)
    BY <2>4 DEF Sigreturn
  <2>5. ASSUME NEW p \in Procs, TimerTrap(p) \/ Sigsend(p) PROVE Kept(q)
    BY <2>5 DEF TimerTrap, Sigsend
  <2>6. ASSUME NEW p \in Procs, Deliver(p) PROVE Kept(q)
    BY <2>6 DEF Deliver
  <2>7. ASSUME NEW p \in Procs, Quiet(p) PROVE Kept(q)
    BY <2>7 DEF Quiet, Kill, Exit, PassCheck, ReturnToUser, CallSleeps, Event, SleepsAgain, sigVars
  <2>. QED
    BY <2>1, <2>2, <2>3, <2>4, <2>5, <2>6, <2>7 DEF Next, Tail, CallGoesOn, Quiet
<1>. QED
  BY <1>1, IInvHolds, PTL DEF Spec, AcceptedNotLost

\* Only Sigreturn and Deliver, and the sigalarm that deregisters outside the
\* handler, touch the saved frame; the last cannot come while it is needed.
LEMMA NextContextSaved ==
  ASSUME IInv, ContextSaved, [Next]_vars
  PROVE  ContextSaved'
<1>. USE DEF IInv, PendingRegistered, TypeOK, ContextSaved
<1>1. ASSUME NEW p \in Procs, NEW ticks \in Ticks \cup {0}, NEW h \in Handlers \cup {0},
             Sigalarm(p, ticks, h)
      PROVE  ContextSaved'
  BY <1>1 DEF Sigalarm
<1>2. ASSUME NEW p \in Procs, Sigreturn(p) PROVE ContextSaved'
  BY <1>2 DEF Sigreturn
<1>3. ASSUME NEW p \in Procs, Deliver(p) PROVE ContextSaved'
  BY <1>3 DEF Deliver
<1>4. ASSUME NEW p \in Procs,
             \/ Quiet(p) \/ TimerTrap(p) \/ Sigsend(p)
             \/ \E v \in Regs : Compute(p, v)
             \/ \E v \in Results : OtherCall(p, v) \/ CallReturns(p, v)
      PROVE  ContextSaved'
  <2>1. UNCHANGED <<inflight, signalTf, interrupted>>
    BY <1>4 DEF Quiet, Kill, Exit, PassCheck, ReturnToUser, CallSleeps, Event, SleepsAgain,
                TimerTrap, Sigsend, Compute, OtherCall, CallReturns, sigVars
  <2>. QED
    BY <2>1
<1>5. CASE UNCHANGED vars
  BY <1>5 DEF vars, sigVars
<1>. QED
  BY <1>1, <1>2, <1>3, <1>4, <1>5 DEF Next, Tail, CallGoesOn, Quiet

\* Only sigreturn leaves a handler, and it resumes the context that handler
\* interrupted, with a0 cut to an int, whatever values programs keep in a0.
THEOREM ResumesInterrupted == Spec => ContextRestored
<1>1. Init => ContextSaved
  BY DEF Init, ContextSaved, Zero
<1>2. IInv /\ ContextSaved /\ [Next]_vars => ContextSaved'
  BY NextContextSaved
<1>. DEFINE Resumed(p) == inflight[p] /\ ~inflight'[p] =>
                             tf'[p] = [interrupted[p] EXCEPT !.a0 = AsInt(@)]
<1>3. IInv /\ ContextSaved /\ [Next]_vars => [\A p \in Procs : Resumed(p)]_vars
  <2>. SUFFICES ASSUME IInv, ContextSaved, Next, NEW q \in Procs PROVE Resumed(q)
    OBVIOUS
  <2>. USE DEF IInv, PendingRegistered, TypeOK
  <2>1. ASSUME NEW p \in Procs, Sigreturn(p) PROVE Resumed(q)
    BY <2>1 DEF Sigreturn, ContextSaved
  <2>2. ASSUME NEW p \in Procs, Deliver(p) PROVE Resumed(q)
    BY <2>2 DEF Deliver
  <2>3. (\A p \in Procs : ~Sigreturn(p) /\ ~Deliver(p)) => inflight' = inflight
    BY DEF Next, Tail, CallGoesOn, Compute, Sigalarm, OtherCall, CallReturns, CallSleeps, Event,
           SleepsAgain, TimerTrap, Sigsend, Kill, Exit, PassCheck, ReturnToUser, sigVars
  <2>. QED
    BY <2>1, <2>2, <2>3
<1>. QED
  BY <1>1, <1>2, <1>3, IInvHolds, PTL DEF Spec, ContextRestored
=============================================================================
