SPECIFICATION FairSpec
CONSTANTS
  U32 = 16
  Blocks = 2
  MAX_PAYLOAD_SIZE = 2
  Scenarios <- TimedScenarios
PROPERTY BothFinish
