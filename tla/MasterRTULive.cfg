SPECIFICATION FairSpec
CONSTANTS
  MB_SER_PDU_SIZE_MIN = 1
  MB_SER_PDU_SIZE_MAX = 1
  MB_PDU_SIZE_MAX = 1
  MB2TCP_SIZE = 2
  MB2TCP_OVERHEAD = 1
  Bytes <- MCBytes
  MB_ADDRESS_BROADCAST = 0
  Frames <- MCShortFrames
  MaxBusFrames = 1
PROPERTIES
  AnswerEnds
  TransmissionEnds
  StartupEnds
  EventHandled
