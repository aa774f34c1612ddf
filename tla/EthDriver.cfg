SPECIFICATION FairSpec
CONSTANTS
  NRx = 3
  NTx = 2
  Kinds = {"normal", "span"}
  MaxRx = 5
  MaxTx = 4
INVARIANTS ReceivedInOrder SentInOrder RingSplit
PROPERTIES QueuedIsSent ReceivedIsRead
CHECK_DEADLOCK FALSE
