SPECIFICATION Spec
CONSTANTS
  MB_SER_PDU_SIZE_MIN = 2
  MB_SER_PDU_SIZE_MAX = 3
  MB_PDU_SIZE_MAX = 2
  MB2TCP_SIZE = 3
  MB2TCP_OVERHEAD = 1
  Bytes <- MCBytes
  MB_ADDRESS_BROADCAST = 0
  Frames <- MCFrames
  MaxBusFrames = 2
INVARIANTS
  TypeOK
  HalfDuplex
  AnswerTimed
  WholeFrameSent
  UplinkReceived
  UplinkSlotFree
