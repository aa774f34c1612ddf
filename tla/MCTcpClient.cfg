SPECIFICATION FairSpec
CONSTANTS
  PCB = {p1, p2, p3, p4, p5}
  NULL = NULL
  RETRY = 9
  SYN_TICKS = 7
  LAST_ACK_TICKS = 3
  KEEP_TICKS = 7
  MaxConnectFailures = 1
INVARIANTS LinkFlagExact WpcbIsConnection PoolServes
PROPERTY KeepsConnectingWithMemory
