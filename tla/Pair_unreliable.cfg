SPECIFICATION Spec
CONSTANTS
  U32 = 16
  Blocks = 2
  MAX_PAYLOAD_SIZE = 2
  Scenarios <- UnreliableScenarios
INVARIANTS TypeOK StreamsArePrefixes AckedIsAssembled CleanCloseIsComplete SomeoneLingers
PROPERTY StatesAdvance
CHECK_DEADLOCK FALSE
