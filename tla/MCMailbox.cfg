\* every process may be waiting for a message nobody will send
SPECIFICATION FairSpec
CONSTANTS
  NPROC = 2
  Msgs = {m1, m2}
  Empty = Empty
  Torn = Torn
  MaxPid = 3
INVARIANT NoMissedMessage
PROPERTY ImplementsChannel
CHECK_DEADLOCK FALSE
