\* three slots: init, its shell and one more; two CPUs
SPECIFICATION Spec
CONSTANTS
  NPROC = 3
  NCPU = 2
  MaxPid = 4
  KillPids = {0, 2, 3}
  Calls = {"fork", "clone", "wait", "join", "kill", "sigsend", "exit", "fault"}
INVARIANTS
  OneCpuPerProcess
  StackNotFreed
  ParentAlive
  NoMissedExit
PROPERTIES
  ZombieLeavesByParent
