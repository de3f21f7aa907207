SPECIFICATION FairSpec
CONSTANTS
  U32 = 32
  Blocks = 2
  StreamLen = 8
  Capacity = 5
  Isns = {0, 26, 29, 31}
  Plans <- AllPlans
INVARIANTS TypeOK AcknoIsFirstMissing CountsEachByteOnce WindowIsExact
PROPERTIES WindowNeverShrinks ImplementsDelivery StreamCompletes
