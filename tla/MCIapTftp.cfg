SPECIFICATION FairSpec
CONSTANTS
  a = a
  b = b
  None = None
  Uploads = {a, b}
  ImageLen <- Lengths
  BlockWords = 2
  ErrorWords = 1
  AreaWords = 4
  PageWords = 2
  NPcb = 2
  MaxWrq = 2
  MaxErrors = 1
  MaxPowerOff = 1
INVARIANTS StartsWholeImage AckedIsWritten AcksOnlySent
PROPERTY TransferEnds
CHECK_DEADLOCK FALSE
