SPECIFICATION Spec
CONSTANTS
  U32 = 16
  Blocks = 2
  MAX_PAYLOAD_SIZE = 2
  StreamLen = 3
  SendCapacity = 3
  Timeout = 1
  Isn = 14
  Networks <- ReorderingNetwork
  MaxAcks = 2
  MaxTime = 4
INVARIANT WindowRespected
