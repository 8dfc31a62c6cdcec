\* two processes, three inodes, two blocks
SPECIFICATION Spec
CONSTANTS
  Procs = {1, 2}
  NINODES = 3
  Blocks = {b1, b2, b3}
  RootBlock = b1
  Names = {"a", "b"}
  Calls <- NestedCalls
  Crashes = FALSE
  None = None
INVARIANTS NoPanic
