\* descriptors for one request at a time or for two, and one buffer that the log may pin
SPECIFICATION Spec
CONSTANTS
  Procs = {p1, p2}
  NBUF = 2
  Blocks = {k1, k2, k3}
  Vals = {v0, v1}
  Zero = v0
  Nums = {4, 7}
  MaxPins = 1
  NoBlock = NoBlock
  NoProc = NoProc
INVARIANTS RefsExact SleepersHaveCause
PROPERTIES ImplementsBlockStore
SYMMETRY Symmetry
