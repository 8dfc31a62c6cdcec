\* two processes, two files, one pipe of two bytes
SPECIFICATION Spec
CONSTANTS
  Procs = {p1, p2}
  First = p1
  Nofiles = {1, 2}
  Files = {1, 2}
  Pages = {g1}
  PIPESIZE = 2
  Wrap = 4
  MaxWrite = 2
  None = None
INVARIANTS FileRefsExact PipeFreedOnce PipeSleepersHaveCause
PROPERTIES ReadersWoken PipeIsFifo
CHECK_DEADLOCK FALSE
