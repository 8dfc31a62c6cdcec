-------------------------------- MODULE Sim ---------------------------------
(***************************************************************************)
(* The scheduling simulator of project 2: main, the workload parser, the   *)
(* tick loop run_simulation and the four schedulers under it.              *)
(*                                                                         *)
(* The program is sequential: phase and i say where in main or in the tick *)
(* loop it is.  An iteration of a loop over processes or CPUs is one step. *)
(* What varies is the input (workload, CPUs, tick limit, algorithms), the  *)
(* lottery's draws and whether output can be written.                      *)
(***************************************************************************)
EXTENDS Integers, Sequences, FiniteSets, FiniteSetsExt, SequencesExt

CONSTANTS MAX_PROCESSES, MAX_CPUS, MAX_BURSTS,
          INT_MAX,      \* the greatest int; numbers in a workload file may be greater
          Inputs        \* [rows, cpu_count, max_ticks, todo] of the command lines

ASSUME SimAssumption ==
  /\ INT_MAX \in Nat \ {0}
  /\ MAX_PROCESSES \in Nat \ {0} /\ MAX_CPUS \in Nat \ {0} /\ MAX_BURSTS \in Nat \ {0}
  /\ \A in \in Inputs : in.cpu_count \in Int /\ in.max_ticks \in Nat

VARIABLES conf,         \* the command line and the rows of the workload file
          todo,         \* algorithms main has still to run, the current one first
          phase, i,     \* where main or the tick loop is
          tick,
          procs,        \* ProcessRuntime of every process
          cpus,         \* CpuState of every CPU
          queues,       \* ready queues: by level, by CPU, or number 0 alone
          last,         \* last_boost_tick or last_steal_tick
          timeline,     \* one row of pids per tick
          busy_ticks,
          metrics       \* SimulationMetrics, averages as their sums

runVars == <<tick, procs, cpus, queues, last, timeline, busy_ticks>>
vars    == <<conf, todo, phase, i, runVars, metrics>>

Algorithms == {"mlfq", "lottery", "edf", "custom"}
Phases     == {"main", "arrive", "io", "sched", "account", "dispatch",
               "record", "execute", "end", "report", "exit"}
QueueIds   == 0 .. Max({3, MAX_CPUS}) - 1

algorithm == Head(todo)
Procs     == DOMAIN conf.rows
Cpus      == 0 .. conf.cpu_count - 1

(***************************************************************************)
(* The workload file                                                       *)
(***************************************************************************)

\* x stored in an int, or a sum of ints that overflows: it wraps
ToInt(x) == ((x + INT_MAX + 1) % (2 * (INT_MAX + 1))) - (INT_MAX + 1)

\* the casts of strtol's results
Stored(row) ==
  [row EXCEPT !.pid = ToInt(@), !.arrival = ToInt(@), !.tickets = ToInt(@),
              !.deadline = ToInt(@), !.affinity = ToInt(@),
              !.bursts = [k \in DOMAIN @ |-> [@[k] EXCEPT !.duration = ToInt(@)]]]

\* CPU and I/O bursts alternate, starting with a CPU burst; a duration is looked at
\* before its cast
ParseBursts(bursts) ==
  /\ Len(bursts) \in 1 .. MAX_BURSTS
  /\ \A k \in 1 .. Len(bursts) :
       /\ bursts[k].duration > 0
       /\ bursts[k].type = IF k % 2 = 1 THEN "C" ELSE "I"

\* one bad row refuses the whole file
ParseWorkload(rows) ==
  /\ Len(rows) \in 1 .. MAX_PROCESSES
  /\ \A k \in 1 .. Len(rows) :
       /\ rows[k].fields = 7
       /\ Stored(rows[k]).pid > 0 /\ Stored(rows[k]).arrival >= 0
       /\ ParseBursts(rows[k].bursts)

\* fault variant of ProcessSpec
AsWritten(row) == Stored(row)

ProcessSpec(row) == [Stored(row) EXCEPT !.tickets = IF @ <= 0 THEN 1 ELSE @]

spec(p) == ProcessSpec(conf.rows[p])

(***************************************************************************)
(* Ready queues and the four schedulers                                    *)
(***************************************************************************)

QueuePush(queue, p) == IF Len(queue) < MAX_PROCESSES THEN Append(queue, p) ELSE queue

\* the queue a process goes to
MlfqLevel(level, reason) ==
  CASE reason = "new"         -> 0
    [] reason = "io_complete" -> Max({level - 1, 0})
    [] reason = "preempt"     -> Min({level + 1, 2})

\* the first CPU with the fewest, the first with the most waiting processes
Load(c) == Len(queues[c])
LeastLoaded == CHOOSE c \in Cpus : \A d \in Cpus :
                 Load(c) < Load(d) \/ (Load(c) = Load(d) /\ c <= d)
MostLoaded  == CHOOSE c \in Cpus : \A d \in Cpus :
                 Load(c) > Load(d) \/ (Load(c) = Load(d) /\ c <= d)

\* the affinity, else the hint, unless that queue is two longer than the shortest
CustomCpu(affinity, hint) ==
  LET preferred == IF affinity \in Cpus THEN affinity
                   ELSE IF hint \in Cpus THEN hint ELSE LeastLoaded
  IN IF Load(preferred) > Load(LeastLoaded) + 1 THEN LeastLoaded ELSE preferred

\* scheduler_enqueue of p, whose fields are those of r otherwise
EnqueueProcess(p, r, hint, now, reason) ==
  LET q == CASE algorithm = "mlfq"   -> MlfqLevel(r.queue_level, reason)
             [] algorithm = "custom" -> CustomCpu(spec(p).affinity, hint)
             [] OTHER                -> 0
  IN /\ procs' = [procs EXCEPT ![p] =
                    [r EXCEPT !.state = "READY", !.ready_since = now,
                              !.queue_level  = IF algorithm = "mlfq" THEN q ELSE @,
                              !.assigned_cpu = IF algorithm = "custom" THEN q ELSE @]]
     /\ queues' = [queues EXCEPT ![q] = QueuePush(@, p)]

\* the position with the least pair of keys, the first one of several
Best(keys) ==
  {k \in DOMAIN keys : \A l \in DOMAIN keys :
     \/ keys[k][1] < keys[l][1]
     \/ keys[k][1] = keys[l][1] /\ keys[k][2] < keys[l][2]
     \/ keys[k] = keys[l] /\ k <= l}

\* pick_next: the <<queue, position>> pairs the scheduler may take for CPU c
MlfqPick ==
  LET levels == {l \in 0 .. 2 : queues[l] # <<>>}
  IN IF levels = {} THEN {} ELSE {<<Min(levels), 1>>}

Tickets(k)  == spec(queues[0][k]).tickets
Drawn(k)    == MapThenSumSet(Tickets, 1 .. k)
\* the sums are ints: a total that has wrapped to zero or below draws nobody
LotteryPick ==
  LET ready == DOMAIN queues[0]
      total == ToInt(Drawn(Len(queues[0])))
  IN {<<0, Min({k \in ready : ToInt(Drawn(k)) > target})>> : target \in 0 .. total - 1}

EdfDeadline(p) == IF spec(p).deadline < 0 THEN INT_MAX - spec(p).pid ELSE spec(p).deadline
EdfPick ==
  LET keys == [k \in DOMAIN queues[0] |->
                 <<EdfDeadline(queues[0][k]), spec(queues[0][k]).arrival>>]
  IN {<<0, k>> : k \in Best(keys)}

\* fault variant of CustomScore
UnagedScore(p, c) ==
  procs[p].remaining_in_burst + (IF spec(p).affinity = c THEN -2 ELSE 0)

CustomScore(p, c) ==
  procs[p].remaining_in_burst - (tick - procs[p].ready_since)
    + (IF spec(p).affinity = c THEN -2 ELSE 0)
CustomPick(c) ==
  LET keys == [k \in DOMAIN queues[c] |->
                 <<CustomScore(queues[c][k], c), spec(queues[c][k]).pid>>]
  IN {<<c, k>> : k \in Best(keys)}

PickNext(c) ==
  CASE algorithm = "mlfq"    -> MlfqPick
    [] algorithm = "lottery" -> LotteryPick
    [] algorithm = "edf"     -> EdfPick
    [] algorithm = "custom"  -> CustomPick(c)

TimeSlice(p) ==
  CASE algorithm = "mlfq"    -> 2 ^ (procs[p].queue_level + 1)
    [] algorithm = "lottery" -> 2
    [] algorithm = "edf"     -> 1
    [] algorithm = "custom"  -> 4

(***************************************************************************)
(* main and the start of run_simulation                                    *)
(***************************************************************************)

InitialRuntime(p) ==
  [state |-> "NEW", burst_index |-> 1,
   remaining_in_burst |-> spec(p).bursts[1].duration,
   ready_since |-> spec(p).arrival, first_run_tick |-> -1, completion_tick |-> -1,
   total_waiting |-> 0, runtime_ticks |-> 0, migrations |-> 0,
   last_cpu |-> -1, assigned_cpu |-> spec(p).affinity, queue_level |-> 0]

IdleCpu == [running_pid |-> 0, slice_used |-> 0]

NoMetrics == [total_ticks |-> 0, completed |-> 0, deadline_misses |-> 0,
              busy_ticks |-> 0, migrations |-> 0, waiting |-> 0,
              turnaround |-> 0, response |-> 0]

Init ==
  /\ conf \in Inputs
  /\ todo = conf.todo
  /\ phase = "main" /\ i = 0 /\ tick = 0
  /\ procs = <<>> /\ cpus = <<>> /\ queues = [q \in QueueIds |-> <<>>]
  /\ last = 0 /\ timeline = <<>> /\ busy_ticks = 0
  /\ metrics = NoMetrics

GoodInput == conf.cpu_count \in 1 .. MAX_CPUS /\ ParseWorkload(conf.rows)

\* bad arguments, a bad workload file, or no memory for the timeline
StartFails ==
  /\ phase = "main"
  /\ phase' = "exit"
  /\ UNCHANGED <<conf, todo, i, runVars, metrics>>

\* fault variant of StartRun
StartsDirty ==
  /\ phase = "main" /\ GoodInput
  /\ procs' = [p \in Procs |-> InitialRuntime(p)]
  /\ cpus' = [c \in Cpus |-> IdleCpu]
  /\ queues' = [q \in QueueIds |-> <<>>]
  /\ last' = 0 /\ tick' = 0 /\ timeline' = <<>>
  /\ phase' = IF conf.max_ticks > 0 THEN "arrive" ELSE "report"
  /\ i' = 1
  /\ UNCHANGED <<conf, todo, metrics, busy_ticks>>

StartRun ==
  /\ phase = "main" /\ GoodInput
  /\ procs' = [p \in Procs |-> InitialRuntime(p)]
  /\ cpus' = [c \in Cpus |-> IdleCpu]
  /\ queues' = [q \in QueueIds |-> <<>>]
  /\ last' = 0 /\ tick' = 0 /\ timeline' = <<>> /\ busy_ticks' = 0
  /\ phase' = IF conf.max_ticks > 0 THEN "arrive" ELSE "report"
  /\ i' = 1
  /\ UNCHANGED <<conf, todo, metrics>>

(***************************************************************************)
(* One tick                                                                *)
(***************************************************************************)

\* after the iteration for process or CPU i
NextProc(next) ==
  IF i < Len(conf.rows) THEN i' = i + 1 /\ phase' = phase ELSE i' = 1 /\ phase' = next
NextCpu(next) ==
  IF i < conf.cpu_count - 1 THEN i' = i + 1 /\ phase' = phase ELSE i' = 0 /\ phase' = next

Arrive ==
  /\ phase = "arrive"
  /\ IF procs[i].state = "NEW" /\ spec(i).arrival <= tick
     THEN EnqueueProcess(i, procs[i], procs[i].assigned_cpu, tick, "new")
     ELSE UNCHANGED <<procs, queues>>
  /\ NextProc("io")
  /\ UNCHANGED <<conf, todo, tick, cpus, last, timeline, busy_ticks, metrics>>

\* the state of p after its current burst
BurstOver(p) == procs[p].remaining_in_burst <= 1
LastBurst(p) == procs[p].burst_index = Len(spec(p).bursts)
ToNextBurst(p) ==
  [procs[p] EXCEPT !.burst_index = @ + 1,
                   !.remaining_in_burst = spec(p).bursts[procs[p].burst_index + 1].duration]
OneTickLess(p) == [procs[p] EXCEPT !.remaining_in_burst = @ - 1]
Completed(r, at) == [r EXCEPT !.burst_index = @ + 1, !.state = "DONE", !.completion_tick = at]

Io ==
  /\ phase = "io"
  /\ \/ /\ procs[i].state # "BLOCKED"
        /\ UNCHANGED <<procs, queues>>
     \/ /\ procs[i].state = "BLOCKED" /\ ~ BurstOver(i)
        /\ procs' = [procs EXCEPT ![i] = OneTickLess(i)]
        /\ UNCHANGED queues
     \/ /\ procs[i].state = "BLOCKED" /\ BurstOver(i) /\ LastBurst(i)
        /\ procs' = [procs EXCEPT ![i] = Completed(OneTickLess(i), tick)]
        /\ UNCHANGED queues
     \/ /\ procs[i].state = "BLOCKED" /\ BurstOver(i) /\ ~ LastBurst(i)
        /\ EnqueueProcess(i, ToNextBurst(i), procs[i].assigned_cpu, tick, "io_complete")
  /\ NextProc("sched")
  /\ UNCHANGED <<conf, todo, tick, cpus, last, timeline, busy_ticks, metrics>>

BOOST_INTERVAL      == 20
STEAL_INTERVAL      == 5
IMBALANCE_THRESHOLD == 2

\* fault variant of MlfqBoost
BoostsLastLevel ==
  /\ queues' = [queues EXCEPT ![0] = FoldLeft(QueuePush, @, queues[2]), ![2] = <<>>]
  /\ procs' = [p \in Procs |-> IF p \in ToSet(queues[2])
                               THEN [procs[p] EXCEPT !.queue_level = 0] ELSE procs[p]]

\* the periodic boost puts every waiting process at level 0
MlfqBoost ==
  LET moved == queues[1] \o queues[2]
  IN /\ queues' = [queues EXCEPT ![0] = FoldLeft(QueuePush, @, moved), ![1] = <<>>, ![2] = <<>>]
     /\ procs' = [p \in Procs |-> IF p \in ToSet(moved)
                                  THEN [procs[p] EXCEPT !.queue_level = 0] ELSE procs[p]]

\* fault variant of CustomSteal
StealKeepsHome ==
  LET p == Last(queues[MostLoaded])
  IN /\ procs' = procs
     /\ queues' = [queues EXCEPT ![MostLoaded] = Front(@), ![LeastLoaded] = QueuePush(@, p)]

\* the last process of the longest queue goes to the shortest
CustomSteal ==
  LET p == Last(queues[MostLoaded])
  IN /\ procs' = [procs EXCEPT ![p].assigned_cpu = LeastLoaded]
     /\ queues' = [queues EXCEPT ![MostLoaded] = Front(@), ![LeastLoaded] = QueuePush(@, p)]

BoostDue == algorithm = "mlfq" /\ tick # 0 /\ tick - last >= BOOST_INTERVAL
StealDue ==
  /\ algorithm = "custom" /\ tick # 0 /\ tick - last >= STEAL_INTERVAL
  /\ Load(MostLoaded) - Load(LeastLoaded) >= IMBALANCE_THRESHOLD

SchedulerTick ==
  /\ phase = "sched"
  /\ \/ BoostDue /\ MlfqBoost /\ last' = tick
     \/ StealDue /\ CustomSteal /\ last' = tick
     \/ ~ BoostDue /\ ~ StealDue /\ UNCHANGED <<procs, queues, last>>
  /\ phase' = "account"
  /\ UNCHANGED <<conf, todo, i, tick, cpus, timeline, busy_ticks, metrics>>

\* fault variant of Account
AccountsBlocked ==
  /\ phase = "account"
  /\ procs' = [p \in Procs |-> IF procs[p].state \in {"READY", "BLOCKED"}
                               THEN [procs[p] EXCEPT !.total_waiting = @ + 1] ELSE procs[p]]
  /\ phase' = "dispatch" /\ i' = 0
  /\ UNCHANGED <<conf, todo, tick, cpus, queues, last, timeline, busy_ticks, metrics>>

Account ==
  /\ phase = "account"
  /\ procs' = [p \in Procs |-> IF procs[p].state = "READY"
                               THEN [procs[p] EXCEPT !.total_waiting = @ + 1] ELSE procs[p]]
  /\ phase' = "dispatch" /\ i' = 0
  /\ UNCHANGED <<conf, todo, tick, cpus, queues, last, timeline, busy_ticks, metrics>>

\* CPU i takes the process at position k of queue q
RunOn(q, k) ==
  LET p == queues[q][k]
  IN /\ queues' = [queues EXCEPT ![q] = RemoveAt(@, k)]
     /\ cpus' = [cpus EXCEPT ![i] = [running_pid |-> p, slice_used |-> 0]]
     /\ procs' = [procs EXCEPT ![p] =
          [@ EXCEPT !.state = "RUNNING", !.last_cpu = i,
                    !.first_run_tick = IF @ < 0 THEN tick ELSE @,
                    !.migrations = IF procs[p].last_cpu \notin {-1, i} THEN @ + 1 ELSE @]]

Dispatch ==
  /\ phase = "dispatch"
  /\ \/ /\ cpus[i].running_pid # 0 \/ PickNext(i) = {}
        /\ UNCHANGED <<procs, cpus, queues>>
     \/ /\ cpus[i].running_pid = 0
        /\ \E qk \in PickNext(i) : RunOn(qk[1], qk[2])
  /\ NextCpu("record")
  /\ UNCHANGED <<conf, todo, tick, last, timeline, busy_ticks, metrics>>

RecordTimeline ==
  /\ phase = "record"
  /\ timeline' = Append(timeline, [c \in Cpus |-> IF cpus[c].running_pid = 0 THEN -1
                                                  ELSE spec(cpus[c].running_pid).pid])
  /\ phase' = "execute"
  /\ UNCHANGED <<conf, todo, i, tick, procs, cpus, queues, last, busy_ticks, metrics>>

\* process p runs for one tick on CPU i
Ran(r) == [r EXCEPT !.runtime_ticks = @ + 1]

Execute ==
  LET p == cpus[i].running_pid
      freed == [cpus EXCEPT ![i] = IdleCpu]
  IN
  /\ phase = "execute"
  /\ \/ /\ p = 0
        /\ UNCHANGED <<procs, cpus, queues, busy_ticks>>
     \/ /\ p # 0 /\ BurstOver(p) /\ LastBurst(p)
        /\ procs' = [procs EXCEPT ![p] = Completed(Ran(OneTickLess(p)), tick + 1)]
        /\ cpus' = freed /\ busy_ticks' = busy_ticks + 1
        /\ UNCHANGED queues
     \/ /\ p # 0 /\ BurstOver(p) /\ ~ LastBurst(p)
        /\ procs' = [procs EXCEPT ![p] = [Ran(ToNextBurst(p)) EXCEPT !.state = "BLOCKED"]]
        /\ cpus' = freed /\ busy_ticks' = busy_ticks + 1
        /\ UNCHANGED queues
     \/ /\ p # 0 /\ ~ BurstOver(p) /\ cpus[i].slice_used + 1 >= TimeSlice(p)
        /\ EnqueueProcess(p, Ran(OneTickLess(p)), i, tick + 1, "preempt")
        /\ cpus' = freed /\ busy_ticks' = busy_ticks + 1
     \/ /\ p # 0 /\ ~ BurstOver(p) /\ cpus[i].slice_used + 1 < TimeSlice(p)
        /\ procs' = [procs EXCEPT ![p] = Ran(OneTickLess(p))]
        /\ cpus' = [cpus EXCEPT ![i].slice_used = @ + 1] /\ busy_ticks' = busy_ticks + 1
        /\ UNCHANGED queues
  /\ NextCpu("end")
  /\ UNCHANGED <<conf, todo, tick, last, timeline, metrics>>

AllDone == \A p \in Procs : procs[p].state = "DONE"

EndTick ==
  /\ phase = "end"
  /\ tick' = tick + 1
  /\ phase' = IF AllDone \/ tick + 1 = conf.max_ticks THEN "report" ELSE "arrive"
  /\ i' = 1
  /\ UNCHANGED <<conf, todo, procs, cpus, queues, last, timeline, busy_ticks, metrics>>

(***************************************************************************)
(* The metrics, and back to main                                           *)
(***************************************************************************)

Missed(p) == spec(p).deadline >= 0 /\ procs[p].completion_tick > spec(p).deadline

CollectMetrics ==
  [total_ticks     |-> tick,
   completed       |-> Len(conf.rows),
   deadline_misses |-> Cardinality({p \in Procs : Missed(p)}),
   busy_ticks      |-> busy_ticks,
   migrations      |-> MapThenSumSet(LAMBDA p : procs[p].migrations, Procs),
   waiting         |-> MapThenSumSet(LAMBDA p : procs[p].total_waiting, Procs),
   turnaround      |-> MapThenSumSet(LAMBDA p : procs[p].completion_tick - spec(p).arrival, Procs),
   response        |-> MapThenSumSet(LAMBDA p : procs[p].first_run_tick - spec(p).arrival, Procs)]

\* the files of one result are all written, or one of them cannot be
WriteResultFiles == BOOLEAN

\* after the result files, the next algorithm runs on the same workload
Report ==
  /\ phase = "report"
  /\ metrics' = CollectMetrics
  /\ \E written \in WriteResultFiles :
       IF written /\ Len(todo) > 1
       THEN phase' = "main" /\ todo' = Tail(todo)
       ELSE phase' = "exit" /\ todo' = todo
  /\ UNCHANGED <<conf, i, runVars>>

Exited == phase = "exit" /\ UNCHANGED vars

Next == \/ StartFails \/ StartRun
        \/ Arrive \/ Io \/ SchedulerTick \/ Account \/ Dispatch
        \/ RecordTimeline \/ Execute \/ EndTick
        \/ Report \/ Exited

Spec == Init /\ [][Next]_vars

(***************************************************************************)
(* Properties                                                              *)
(***************************************************************************)

States  == {"NEW", "READY", "RUNNING", "BLOCKED", "DONE"}
Runtime == [state: States, burst_index: Nat, remaining_in_burst: Int,
            ready_since: Nat, first_run_tick: Int, completion_tick: Int,
            total_waiting: Nat, runtime_ticks: Nat, migrations: Nat,
            last_cpu: Int, assigned_cpu: Int, queue_level: 0 .. 2]

\* Type invariant: queue_level stays one of the three levels mlfq_pick_next looks at.
TypeOK ==
  /\ phase \in Phases /\ i \in Nat /\ tick \in Nat
  /\ ToSet(todo) \subseteq Algorithms /\ todo # <<>>
  /\ procs = <<>> \/ procs \in [Procs -> Runtime]
  /\ cpus = <<>> \/ cpus \in [Cpus -> [running_pid: Procs \cup {0}, slice_used: 0 .. 7]]
  /\ \A q \in QueueIds : queues[q] \in Seq(Procs) /\ Len(queues[q]) <= MAX_PROCESSES
  /\ last \in 0 .. tick
  /\ Len(timeline) <= tick + 1
  /\ busy_ticks \in Nat

\* the queue pick_next will look for p in
Home(p) == CASE algorithm = "mlfq"   -> procs[p].queue_level
             [] algorithm = "custom" -> procs[p].assigned_cpu
             [] OTHER                -> 0
Entries(p) == {qk \in QueueIds \X (1 .. MAX_PROCESSES) :
                 qk[2] <= Len(queues[qk[1]]) /\ queues[qk[1]][qk[2]] = p}
RunsOn(p)  == {c \in DOMAIN cpus : cpus[c].running_pid = p}

\* Across arrivals, I/O completions, preemptions, boosts and steals a process is in
\* one place: a ready one in exactly one queue, the one its runtime record names, a
\* running one on exactly one CPU, any other nowhere.  None is lost at the queue's
\* limit (queue_push drops silently) and none is dispatched twice.
OnePlace ==
  /\ TypeOK
  /\ phase \notin {"main", "exit"} =>
       \A p \in DOMAIN procs :
         /\ IF procs[p].state = "READY"
            THEN \E k \in 1 .. MAX_PROCESSES : Entries(p) = {<<Home(p), k>>}
            ELSE Entries(p) = {}
         /\ Cardinality(RunsOn(p)) = IF procs[p].state = "RUNNING" THEN 1 ELSE 0

\* With one ready queue (or one set of levels) for all CPUs, no CPU is left idle in a
\* tick in which a process stays ready.  The lottery relies on the parser for tickets
\* greater than zero, and on users for few enough: lottery_pick_next's total_tickets
\* is an int, and when it overflows to a negative number the CPU stays idle.
WorkConserving ==
  /\ phase = "record" /\ algorithm # "custom"
  /\ \E c \in Cpus : cpus[c].running_pid = 0
  /\ algorithm = "lottery" => Drawn(Len(queues[0])) <= INT_MAX
  => \A p \in Procs : procs[p].state # "READY"

\* "periodic priority boost to prevent starvation": a process below level 0 has never
\* been waiting there for a whole boost interval when the CPUs choose.
BoostReachesAll ==
  phase = "dispatch" /\ algorithm = "mlfq" =>
    \A l \in 1 .. 2 : \A p \in ToSet(queues[l]) : tick - procs[p].ready_since < BOOST_INTERVAL

\* "aging support to reduce starvation": a CPU never takes a process in front of one
\* that was ready more than that one's remaining burst (and the affinity bonus) earlier.
AgingBoundsOvertaking ==
  [][phase = "dispatch" /\ algorithm = "custom" /\ cpus'[i] # cpus[i] =>
       LET q == cpus'[i].running_pid
       IN \A p \in ToSet(queues'[i]) :
            procs[q].ready_since <= procs[p].ready_since + procs[p].remaining_in_burst + 1]_vars

\* reference definitions, from the recorded timeline alone
Slots(p)  == {tc \in (1 .. Len(timeline)) \X Cpus : timeline[tc[1]][tc[2]] = spec(p).pid}
Moves(p)  == {tc \in Slots(p) :
                \E ud \in Slots(p) : /\ ud[1] < tc[1] /\ ud[2] # tc[2]
                                     /\ \A ve \in Slots(p) : ~ (ud[1] < ve[1] /\ ve[1] < tc[1])}
FirstSlot(p) == Min({tc[1] : tc \in Slots(p)}) - 1
\* a duration that the cast made zero or negative takes one tick
Demand(p, t) == LET bursts == spec(p).bursts IN
  MapThenSumSet(LAMBDA k : Max({bursts[k].duration, 1}), {k \in DOMAIN bursts : bursts[k].type = t})

\* The metrics of a run in which every process completed are those of its recorded
\* timeline: busy ticks, migrations and response times, and each process was given
\* exactly the CPU time it asked for.
MetricsMatchTimeline ==
  phase = "report" /\ AllDone =>
    LET m == CollectMetrics
    IN /\ m.busy_ticks = Cardinality(UNION {Slots(p) : p \in Procs})
       /\ m.migrations = MapThenSumSet(LAMBDA p : Cardinality(Moves(p)), Procs)
       /\ m.response = MapThenSumSet(LAMBDA p : FirstSlot(p) - spec(p).arrival, Procs)
       /\ \A p \in Procs : Cardinality(Slots(p)) = Demand(p, "C")

\* Nothing but running, waiting and I/O makes up a turnaround: an I/O burst of d ticks
\* takes d - 1 of them, and a waiting tick is counted for every dispatch on top of the
\* ticks really spent waiting (under EDF, for every tick of CPU time).
TurnaroundAccounted ==
  phase = "report" =>
    \A p \in {p \in Procs : procs[p].state = "DONE"} :
      LET turnaround == procs[p].completion_tick - spec(p).arrival
          io == Demand(p, "I") - Cardinality({k \in DOMAIN spec(p).bursts : spec(p).bursts[k].type = "I"})
          counted == procs[p].total_waiting + io
      IN /\ turnaround \in counted .. counted + procs[p].runtime_ticks - 1
         /\ algorithm = "edf" => turnaround = counted

=============================================================================
