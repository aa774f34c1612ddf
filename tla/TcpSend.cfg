SPECIFICATION SendFairSpec
CONSTANTS
  MSS = 2
  TCP_SND_BUF = 3
  TCP_MAXRTX = 2
  DupThresh = 2
  SOF_KEEPALIVE = TRUE
  KEEP_CNT = 2
  PeerBuf = 2
  MaxBytes = 3
  MaxFaults = 2
INVARIANTS NothingLost QueuesSorted InWindow GivenUpForCause
PROPERTY AllAcked
CHECK_DEADLOCK FALSE
