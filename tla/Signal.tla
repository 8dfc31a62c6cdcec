------------------------------- MODULE Signal -------------------------------
(***************************************************************************)
(* Signals and alarms (kernel/proc.c: sigalarm, sigreturn, sigsend,        *)
(* signaltick, signalcheck, setupsignal; kernel/trap.c: usertrap).         *)
(*                                                                         *)
(* A process alternates between user mode and one trip through usertrap:   *)
(* the trap (a system call or a timer interrupt), then the tail (killed    *)
(* check, yield, signalcheck, return).  Every p->lock section is one step, *)
(* so another process's sigsend or kill comes between any two of them:     *)
(* they are steps of their own, which no state of the sender limits.       *)
(* A system call that waits (kwait, kjoin, ksem_wait, msgrecv, piperead,   *)
(* pipewrite, sys_pause) sleeps in a loop: any wake-up, sigsend's and      *)
(* kkill's included, makes it look at its condition again and then sleep   *)
(* on or return, and only a call that returns gets to signalcheck.         *)
(*                                                                         *)
(* Of the trapframe two registers are kept: the user pc and a0.  A         *)
(* register holds one of WordMod values, a C int one of IntMod.            *)
(***************************************************************************)
EXTENDS Integers

CONSTANTS Procs,
          WordMod,    \* values of a register (2^64)
          IntMod,     \* values of an int (2^32)
          Regs,       \* the values user code puts into a0
          Ticks,      \* the intervals programs pass to sigalarm
          Handlers,   \* the handler addresses, besides 0
          Main        \* the address of code that is no handler

SIGUSR1 == 10
SIGALRM == 14
Word    == 0 .. WordMod - 1

ASSUME SignalAssumption ==
  /\ IntMod \in Nat /\ IntMod % 2 = 0 /\ IntMod > 2 * SIGALRM
  /\ WordMod = IntMod * IntMod
  /\ Regs \subseteq Word /\ Ticks \subseteq Nat \ {0}
  /\ Main \notin Handlers \cup {0} /\ 0 \notin Handlers

\* (int)x stored back into a register: the low half, sign extended
AsInt(x) ==
  LET low == x % IntMod
  IN IF low < IntMod \div 2 THEN low ELSE WordMod - IntMod + low

VARIABLES pc,          \* "user", "asleep" (SLEEPING in a system call), "woken"
                       \* (RUNNABLE in its loop), "tail" (usertrap after the
                       \* trap), "check" (past the killed() check, before
                       \* signalcheck), "dead"
          tf,          \* p->trapframe: epc and a0
          signalTf,    \* p->signal_tf
          handler,     \* p->signal_handler
          registered,  \* p->signal_registered
          interval,    \* p->alarm_interval
          elapsed,     \* p->alarm_elapsed
          pending,     \* p->pending_signal
          active,      \* p->active_signal
          inflight,    \* p->signal_inflight
          killed,      \* p->killed
          interrupted  \* the context the running handler interrupted (history)

sigVars == <<handler, registered, interval, elapsed, pending, active, inflight>>
vars == <<pc, tf, signalTf, sigVars, killed, interrupted>>

Zero == [epc |-> 0, a0 |-> 0]
Frames == [epc : Handlers \cup {0, Main}, a0 : Word]

Places == {"user", "asleep", "woken", "tail", "check", "dead"}

TypeOK ==
  /\ pc \in [Procs -> Places]
  /\ tf \in [Procs -> Frames]
  /\ signalTf \in [Procs -> Frames]
  /\ handler \in [Procs -> Handlers \cup {0}]
  /\ registered \in [Procs -> BOOLEAN]
  /\ interval \in [Procs -> Ticks \cup {0}]
  /\ elapsed \in [Procs -> Nat]
  /\ pending \in [Procs -> {0, SIGUSR1, SIGALRM}]
  /\ active \in [Procs -> {0, SIGUSR1, SIGALRM}]
  /\ inflight \in [Procs -> BOOLEAN]
  /\ killed \in [Procs -> BOOLEAN]
  /\ interrupted \in [Procs -> Frames]

Init ==
  /\ pc = [p \in Procs |-> "user"]
  /\ tf = [p \in Procs |-> [epc |-> Main, a0 |-> 0]]
  /\ signalTf = [p \in Procs |-> Zero]
  /\ handler = [p \in Procs |-> 0]
  /\ registered = [p \in Procs |-> FALSE]
  /\ interval = [p \in Procs |-> 0]
  /\ elapsed = [p \in Procs |-> 0]
  /\ pending = [p \in Procs |-> 0]
  /\ active = [p \in Procs |-> 0]
  /\ inflight = [p \in Procs |-> FALSE]
  /\ killed = [p \in Procs |-> FALSE]
  /\ interrupted = [p \in Procs |-> Zero]

\* usertrap's first half ends, with a0 holding the result of a system call
ToTail(p) == pc' = [pc EXCEPT ![p] = "tail"]
Result(p, v) == tf' = [tf EXCEPT ![p].a0 = v]
Trapping(p) == pc[p] = "user" /\ ~killed[p]

-----------------------------------------------------------------------------
(* System calls *)

\* user code computes: any value may be in a0 when the next trap comes
Compute(p, v) ==
  /\ pc[p] = "user" /\ tf[p].a0 # v
  /\ Result(p, v)
  /\ UNCHANGED <<pc, signalTf, sigVars, killed, interrupted>>

\* fault variant of Sigalarm: signal_tf is cleared without looking at inflight
SigalarmClears(p, ticks, h) ==
  LET on == ~(ticks = 0 /\ h = 0) IN
  /\ Trapping(p)
  /\ interval' = [interval EXCEPT ![p] = ticks]
  /\ elapsed' = [elapsed EXCEPT ![p] = 0]
  /\ handler' = [handler EXCEPT ![p] = h]
  /\ registered' = [registered EXCEPT ![p] = on]
  /\ pending' = [pending EXCEPT ![p] = IF on THEN @ ELSE 0]
  /\ active' = [active EXCEPT ![p] = IF on THEN @ ELSE 0]
  /\ signalTf' = [signalTf EXCEPT ![p] = IF on THEN @ ELSE Zero]
  /\ Result(p, 0) /\ ToTail(p)
  /\ UNCHANGED <<inflight, killed, interrupted>>

\* fault variant of Sigalarm: the pending signal survives deregistration
SigalarmKeeps(p, ticks, h) ==
  LET on == ~(ticks = 0 /\ h = 0) IN
  /\ Trapping(p)
  /\ interval' = [interval EXCEPT ![p] = ticks]
  /\ elapsed' = [elapsed EXCEPT ![p] = 0]
  /\ handler' = [handler EXCEPT ![p] = h]
  /\ registered' = [registered EXCEPT ![p] = on]
  /\ Result(p, 0) /\ ToTail(p)
  /\ UNCHANGED <<signalTf, pending, active, inflight, killed, interrupted>>

\* fault variant of Sigalarm: alarm_elapsed is not restarted
SigalarmNoRestart(p, ticks, h) ==
  LET on == ~(ticks = 0 /\ h = 0) IN
  /\ Trapping(p)
  /\ interval' = [interval EXCEPT ![p] = ticks]
  /\ handler' = [handler EXCEPT ![p] = h]
  /\ registered' = [registered EXCEPT ![p] = on]
  /\ pending' = [pending EXCEPT ![p] = IF on THEN @ ELSE 0]
  /\ Result(p, 0) /\ ToTail(p)
  /\ UNCHANGED <<signalTf, elapsed, active, inflight, killed, interrupted>>

\* sigalarm(ticks, h) with a handler inside the process
Sigalarm(p, ticks, h) ==
  LET on == ~(ticks = 0 /\ h = 0)
      wipe == ~on /\ ~inflight[p]
  IN
  /\ Trapping(p)
  /\ interval' = [interval EXCEPT ![p] = ticks]
  /\ elapsed' = [elapsed EXCEPT ![p] = 0]
  /\ handler' = [handler EXCEPT ![p] = h]
  /\ registered' = [registered EXCEPT ![p] = on]
  /\ pending' = [pending EXCEPT ![p] = IF on THEN @ ELSE 0]
  /\ active' = [active EXCEPT ![p] = IF wipe THEN 0 ELSE @]
  /\ signalTf' = [signalTf EXCEPT ![p] = IF wipe THEN Zero ELSE @]
  /\ Result(p, 0) /\ ToTail(p)
  /\ UNCHANGED <<inflight, killed, interrupted>>

\* sigreturn with a handler active: the saved frame comes back, and syscall()
\* then stores sigreturn's int result into a0
Sigreturn(p) ==
  /\ Trapping(p) /\ inflight[p]
  /\ tf' = [tf EXCEPT ![p] = [signalTf[p] EXCEPT !.a0 = AsInt(@)]]
  /\ inflight' = [inflight EXCEPT ![p] = FALSE]
  /\ active' = [active EXCEPT ![p] = 0]
  /\ signalTf' = [signalTf EXCEPT ![p] = Zero]
  /\ interrupted' = [interrupted EXCEPT ![p] = Zero]
  /\ ToTail(p)
  /\ UNCHANGED <<handler, registered, interval, elapsed, pending, killed>>

\* a system call that does not wait: a0 gets its result, 0 or -1.  So do sigsend
\* and kill in their caller, and sigreturn outside a handler and sigalarm with bad
\* arguments.
OtherCall(p, v) ==
  /\ Trapping(p)
  /\ Result(p, v) /\ ToTail(p)
  /\ UNCHANGED <<signalTf, sigVars, killed, interrupted>>

\* a system call that waits goes to sleep
CallSleeps(p) ==
  /\ Trapping(p)
  /\ pc' = [pc EXCEPT ![p] = "asleep"]
  /\ UNCHANGED <<tf, signalTf, sigVars, killed, interrupted>>

\* SLEEPING -> RUNNABLE
Woken(p) == pc' = [pc EXCEPT ![p] = IF @ = "asleep" THEN "woken" ELSE @]

\* the wakeup() on the channel of the call; nothing promises that it comes
Event(p) ==
  /\ pc[p] = "asleep" /\ Woken(p)
  /\ UNCHANGED <<tf, signalTf, sigVars, killed, interrupted>>

\* the condition of the call's loop still fails.  A killed process may sleep on as
\* well: ksem_wait and msgrecv do not test killed(), and kwait, kjoin and piperead
\* may have tested it before the kill.
SleepsAgain(p) ==
  /\ pc[p] = "woken"
  /\ pc' = [pc EXCEPT ![p] = "asleep"]
  /\ UNCHANGED <<tf, signalTf, sigVars, killed, interrupted>>

\* the call has what it waited for, or gives up because it was killed
CallReturns(p, v) ==
  /\ pc[p] = "woken"
  /\ Result(p, v) /\ ToTail(p)
  /\ UNCHANGED <<signalTf, sigVars, killed, interrupted>>

Results == {0, WordMod - 1}

\* a woken process runs: it leaves its loop or goes round it once more
CallGoesOn(p) == SleepsAgain(p) \/ \E v \in Results : CallReturns(p, v)

-----------------------------------------------------------------------------
(* What any process may do to p at any time, under p->lock alone *)

\* sigsend(p, SIGUSR1); refused without a handler or with a signal pending
Sigsend(p) ==
  /\ pc[p] # "dead" /\ registered[p] /\ pending[p] = 0
  /\ pending' = [pending EXCEPT ![p] = SIGUSR1]
  /\ Woken(p)
  /\ UNCHANGED <<tf, signalTf, handler, registered, interval, elapsed, active,
                 inflight, killed, interrupted>>

\* kkill
Kill(p) ==
  /\ pc[p] # "dead" /\ ~killed[p]
  /\ killed' = [killed EXCEPT ![p] = TRUE]
  /\ Woken(p)
  /\ UNCHANGED <<tf, signalTf, sigVars, interrupted>>

-----------------------------------------------------------------------------
(* Timer interrupts and the way back to user mode *)

\* signaltick counts only for a registered alarm outside its handler
Counting(p) == interval[p] > 0 /\ registered[p] /\ ~inflight[p]
Expires(p)  == Counting(p) /\ elapsed[p] + 1 >= interval[p]

\* fault variant of TimerTrap: SIGALRM replaces whatever is pending
TimerTrapOverwrites(p) ==
  /\ pc[p] = "user"
  /\ elapsed' = [elapsed EXCEPT ![p] =
       IF Expires(p) THEN 0 ELSE IF Counting(p) THEN @ + 1 ELSE @]
  /\ pending' = [pending EXCEPT ![p] = IF Expires(p) THEN SIGALRM ELSE @]
  /\ ToTail(p)
  /\ UNCHANGED <<tf, signalTf, handler, registered, interval, active, inflight, killed,
                 interrupted>>

\* a timer interrupt in user mode: signaltick
TimerTrap(p) ==
  /\ pc[p] = "user"
  /\ elapsed' = [elapsed EXCEPT ![p] =
       IF Expires(p) THEN 0 ELSE IF Counting(p) THEN @ + 1 ELSE @]
  /\ pending' = [pending EXCEPT ![p] = IF Expires(p) /\ @ = 0 THEN SIGALRM ELSE @]
  /\ ToTail(p)
  /\ UNCHANGED <<tf, signalTf, handler, registered, interval, active, inflight, killed,
                 interrupted>>

\* killed(p) on entry to a system call, or on the way out
Exit(p) ==
  /\ pc[p] \in {"user", "tail"} /\ killed[p]
  /\ pc' = [pc EXCEPT ![p] = "dead"]
  /\ UNCHANGED <<tf, signalTf, sigVars, killed, interrupted>>

\* fault variant of PassCheck: usertrap returns without signalcheck()
PassCheckReturns(p) ==
  /\ pc[p] = "tail" /\ ~killed[p]
  /\ pc' = [pc EXCEPT ![p] = "user"]
  /\ UNCHANGED <<tf, signalTf, sigVars, killed, interrupted>>

\* killed(p) is false; a timer interrupt yields the CPU here
PassCheck(p) ==
  /\ pc[p] = "tail" /\ ~killed[p]
  /\ pc' = [pc EXCEPT ![p] = "check"]
  /\ UNCHANGED <<tf, signalTf, sigVars, killed, interrupted>>

Deliverable(p) == pending[p] # 0 /\ registered[p] /\ ~inflight[p]

\* signalcheck with nothing to deliver
ReturnToUser(p) ==
  /\ pc[p] = "check" /\ ~Deliverable(p)
  /\ pc' = [pc EXCEPT ![p] = "user"]
  /\ UNCHANGED <<tf, signalTf, sigVars, killed, interrupted>>

\* signalcheck and setupsignal: enter the handler
Deliver(p) ==
  /\ pc[p] = "check" /\ Deliverable(p)
  /\ signalTf' = [signalTf EXCEPT ![p] = tf[p]]
  /\ interrupted' = [interrupted EXCEPT ![p] = tf[p]]
  /\ inflight' = [inflight EXCEPT ![p] = TRUE]
  /\ active' = [active EXCEPT ![p] = pending[p]]
  /\ pending' = [pending EXCEPT ![p] = 0]
  /\ tf' = [tf EXCEPT ![p] = [epc |-> handler[p], a0 |-> pending[p]]]
  /\ pc' = [pc EXCEPT ![p] = "user"]
  /\ UNCHANGED <<handler, registered, interval, elapsed, killed>>

-----------------------------------------------------------------------------
Tail(p) == PassCheck(p) \/ ReturnToUser(p) \/ Deliver(p)

Next ==
  \E p \in Procs :
    \/ \E v \in Regs : Compute(p, v)
    \/ \E ticks \in Ticks \cup {0}, h \in Handlers \cup {0} : Sigalarm(p, ticks, h)
    \/ \E v \in Results : OtherCall(p, v)
    \/ CallSleeps(p) \/ Event(p) \/ CallGoesOn(p)
    \/ Sigreturn(p) \/ TimerTrap(p) \/ Exit(p) \/ Tail(p)
    \/ Sigsend(p) \/ Kill(p)

Spec == Init /\ [][Next]_vars

\* The scheduler runs whoever is RUNNABLE, in usertrap or in the loop of a system
\* call, and timer interrupts keep coming.  That a call ever gets what it waits for
\* is not assumed.
Fairness == \A p \in Procs :
  WF_vars(Tail(p)) /\ WF_vars(CallGoesOn(p)) /\ WF_vars(TimerTrap(p)) /\ WF_vars(Exit(p))

FairSpec == Spec /\ Fairness

-----------------------------------------------------------------------------
(* Properties *)

\* sigreturn resumes the context the handler interrupted, whatever the handler
\* did meanwhile, sigalarm included: the pc comes back, and a0 as far as sigreturn's
\* int result can carry it (proc.c:1032, syscall.c), so that of a value that does
\* not fit an int the upper half is lost.
ContextRestored ==
  [][\A p \in Procs : inflight[p] /\ ~inflight'[p] =>
       tf'[p] = [interrupted[p] EXCEPT !.a0 = AsInt(@)]]_vars

\* A signal that sigsend or the alarm made pending is neither replaced nor
\* dropped: it stays until the handler is entered with it as its argument, or
\* the process deregisters (sigsend, signaltick, signalcheck).
AcceptedNotLost ==
  [][\A p \in Procs : pending[p] # 0 /\ pending'[p] # pending[p] =>
       \/ inflight'[p] /\ active'[p] = pending[p] /\ tf'[p].a0 = pending[p]
       \/ ~registered'[p]]_vars

\* A process without a handler has nothing pending: what was sent before it
\* deregistered does not run the handler it registers later (sigalarm).
PendingRegistered ==
  /\ TypeOK
  /\ \A p \in Procs : pending[p] # 0 => registered[p]

\* The alarm counter stays below its interval, also when a program shortens
\* the interval, so the alarm is never late (sigalarm, signaltick).
AlarmInTime ==
  \A p \in Procs : registered[p] /\ interval[p] > 0 => elapsed[p] < interval[p]

\* what ContextRestored rests on: signal_tf holds the interrupted context as
\* long as the handler is active (setupsignal, sigalarm, sigreturn)
ContextSaved == \A p \in Procs : inflight[p] => signalTf[p] = interrupted[p]

InCall(p) == pc[p] \in {"asleep", "woken"}

\* A pending signal enters its handler unless the process stays in another
\* handler, dies, or never gets out of one system call: sigsend wakes a sleeper,
\* whose call looks at its own condition and may sleep on (sigsend, signalcheck).
SignalDelivered ==
  \A p \in Procs : (pending[p] # 0 /\ ~inflight[p]) ~>
                     (pending[p] = 0 \/ inflight[p] \/ pc[p] = "dead" \/ []InCall(p))
=============================================================================
