\* two processes, in memory for one and up to that for two
SPECIFICATION Spec
CONSTANTS
  Procs = {p0, p1}
  First = p0
  Memories = {13, 14, 15, 16, 17, 20}
  PGSIZE = 2
  TRAPFRAME = 11
  USERSTACK = 1
  Programs <- TextAndBss
  MaxArgs = 1
  Sizes <- ByThree
  Addrs = {5, 7, 9}
  Vals = {"a"}
  NoSpace = NoSpace
INVARIANTS PagesAccounted
PROPERTIES ImplementsAddressSpaces
