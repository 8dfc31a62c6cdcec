------------------------------- MODULE MCSim --------------------------------
EXTENDS Sim

C(n) == [type |-> "C", duration |-> n]
D(n) == [type |-> "I", duration |-> n]

Row(pid, arrival, bursts, tickets, deadline, affinity) ==
  [fields |-> 7, pid |-> pid, arrival |-> arrival, bursts |-> bursts,
   tickets |-> tickets, deadline |-> deadline, affinity |-> affinity]

\* rows of short processes; pids are given against the order of the file
Kinds == {Row(0, 0, <<C(1)>>, 0, -1, -1),
          Row(0, 1, <<C(2), D(1), C(3)>>, 2, 6, 0),
          Row(0, 0, <<C(3), D(2)>>, 1, 4, 0),
          Row(0, 2, <<C(6)>>, 1, 9, 1)}
Short == {[k \in 1 .. 3 |-> [f[k] EXCEPT !.pid = 4 - k]] : f \in [1 .. 3 -> Kinds]}

\* the draws of the lottery multiply the runs: fewer workloads for --algo all
Few == {w \in Short : w[1].arrival = 0 /\ w[2].arrival = 1 /\ w[3].arrival # 1}

\* an interactive process keeps a CPU-bound one at level 1 until the boost, and one
\* alone uses up the slice of the last level
Hog    == [k \in 1 .. 25 |-> IF k % 2 = 1 THEN C(2) ELSE D(1)]
Boost  == {<<Row(1, 0, Hog, 1, -1, -1), Row(2, 0, <<C(5)>>, 1, -1, -1)>>,
           <<Row(1, 0, <<C(16)>>, 1, -1, -1)>>,
           <<Row(1, 0, Hog, 1, -1, -1), Row(2, 0, <<C(5)>>, 1, -1, -1),
             Row(3, 0, <<C(12)>>, 1, -1, -1)>>}

\* two processes that prefer CPU 0 arrive together while both CPUs are busy
Steal  == {<<Row(1, 0, <<C(9)>>, 1, -1, 0), Row(2, 0, <<C(9)>>, 1, -1, 1),
             Row(3, 5, <<C(3), D(4), C(3)>>, 1, -1, 0), Row(4, b, <<C(2), D(2), C(3)>>, 1, -1, 0)>>
            : b \in 4 .. 6}

\* a late arrival competes with one that has aged
Aging  == {<<Row(1, 0, <<C(9)>>, 1, -1, -1), Row(2, 1, <<C(5)>>, 1, -1, -1),
             Row(3, 8, <<C(1), D(1), C(1), D(1), C(1)>>, 1, -1, -1), Row(4, 9, <<C(1)>>, 1, -1, -1)>>}

\* numbers too wide for an int: ticket totals that overflow, to a negative and to a
\* positive number, and durations that become 0, 2 and negative
Wide   == {[k \in 1 .. n |-> Row(k, 0, <<C(2)>>, 100, -1, -1)] : n \in 2 .. 3}
          \cup {<<Row(257, 0, <<C(256), D(258), C(200)>>, 1, -1, -1), Row(2, 0, <<C(2)>>, 1, -1, -1)>>}

\* files the parser refuses
Bad    == {<<>>, <<[Row(1, 0, <<C(1)>>, 1, -1, -1) EXCEPT !.fields = 6]>>,
           <<Row(1, 0, <<C(1), C(1)>>, 1, -1, -1)>>, <<Row(1, 0, <<C(0)>>, 1, -1, -1)>>,
           <<Row(0, 0, <<C(1)>>, 1, -1, -1)>>, <<Row(1, -1, <<C(1)>>, 1, -1, -1)>>}

Input(rows, cpu_count, max_ticks, algos) ==
  [rows |-> rows, cpu_count |-> cpu_count, max_ticks |-> max_ticks, todo |-> algos]

All == <<"mlfq", "lottery", "edf", "custom">>

MCInputs ==
  {Input(w, n, 30, <<a>>) : w \in Short, n \in 1 .. 2, a \in Algorithms}
  \cup {Input(w, 1, 40, <<"mlfq">>) : w \in Boost}
  \cup {Input(w, n, 40, <<"custom">>) : w \in Steal \cup Aging, n \in 1 .. 2}
  \cup {Input(w, 2, m, All) : w \in Few, m \in {0, 4, 30}}
  \cup {Input(w, 1, 8, <<"edf">>) : w \in Bad}
  \cup {Input(w, n, 8, <<a>>) : w \in Wide, n \in 1 .. 2, a \in Algorithms}
  \cup {Input(w, n, 8, <<"edf">>) : w \in Aging, n \in {0, 3}}
=============================================================================
