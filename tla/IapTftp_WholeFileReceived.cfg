SPECIFICATION Spec
CONSTANTS
  a = a
  b = b
  None = None
  Uploads = {a}
  ImageLen <- OneLength
  BlockWords = 2
  ErrorWords = 1
  AreaWords = 4
  PageWords = 2
  NPcb = 2
  MaxWrq = 2
  MaxErrors = 0
  MaxPowerOff = 0
INVARIANT WholeFileReceived
CHECK_DEADLOCK FALSE
