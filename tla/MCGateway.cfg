SPECIFICATION FairSpec
CONSTANTS
  Frames <- SomeFrames
  Lists <- SomeLists
  Other = Other
  Cells = 3
  Cleared = 2
  MB_PDU_SIZE_MAX = 1
  MaxDev = 4
  Second = 2
  MaxWait = 2
  MaxSent = 3
  MaxHeard = 2
PROPERTIES Relayed EveryEntryPolled
