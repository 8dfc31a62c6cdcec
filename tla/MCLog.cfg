\* two of three system calls at a time fit into a log of four blocks
SPECIFICATION FairSpec
CONSTANTS
  Procs = {p1, p2, p3}
  Blocks = {b1, b2, b3, b4}
  Vals = {v0, v1}
  Zero = v0
  LOGBLOCKS = 4
  MAXOPBLOCKS = 2
  OpBlocks = 1
INVARIANT NoPanic
PROPERTIES WaiterRetries ImplementsAtomicDisk
