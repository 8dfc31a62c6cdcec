\* registers of 12 bits, ints of 6 bits; of the values in a0 the first fits an int,
\* the second changes its sign and the third loses its upper half
SPECIFICATION FairSpec
CONSTANTS
  Procs = {p1}
  WordMod = 4096
  IntMod = 64
  Regs = {5, 40, 70}
  Ticks = {1, 2, 3}
  Handlers = {100, 104}
  Main = 200
INVARIANTS PendingRegistered AlarmInTime
PROPERTIES ContextRestored AcceptedNotLost SignalDelivered
\* the process may have been killed
CHECK_DEADLOCK FALSE
