SPECIFICATION Spec
CONSTANTS
  U32 = 16
  Blocks = 2
  MAX_PAYLOAD_SIZE = 2
  StreamLen = 2
  SendCapacity = 3
  Timeout = 1
  Isn = 14
  Networks <- BothNetworks
  MaxAcks = 2
  MaxTime = 3
INVARIANTS CacheCoversFlight AckedWasTaken BytesAreInPlace WindowRespectedInOrder
PROPERTY ClockResendsOldest
