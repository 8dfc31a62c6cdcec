\* two CPUs, and pids for init's shell and one child of it
SPECIFICATION FairSpec
CONSTANTS
  NPROC = 3
  NCPU = 2
  MaxPid = 3
  KillPids = {}
  Calls = {"fork", "clone", "wait", "join", "exit"}
PROPERTIES
  WaitReturns
  OrphanProcessReaped
