SPECIFICATION FairSpec
CONSTANTS
  Capacity = 2
  PipeSize = 1
  BufferSize = 2
  MaxCopy = 2
  Plans <- AllPlans
INVARIANTS CopiesFaithfully DiesOfResetOnly
PROPERTY ProcessEnds
CHECK_DEADLOCK FALSE
