\* two processes, three inodes, two blocks
SPECIFICATION Spec
CONSTANTS
  Procs = {1, 2}
  NINODES = 3
  Blocks = {b1, b2}
  RootBlock = b1
  Names = {"a", "b"}
  Calls <- FlatCalls
  Crashes = TRUE
  None = None
INVARIANTS InodeRefsExact NamesKeepInodes BlocksOwnedOnce NoLockCycle OrphansAccounted
