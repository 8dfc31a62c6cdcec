\* the processes may all be killed: the system can stop
SPECIFICATION FairSpec
CONSTANTS
  Procs = {p1, p2, p3}
  Sems = {s1, s2}
  NoSem = NoSem
  MaxValue = 2
INVARIANT SleepsOnlyAtZero
PROPERTY ImplementsSemaphore
CHECK_DEADLOCK FALSE
