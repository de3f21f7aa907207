SPECIFICATION FairSpec
CONSTANTS
  ARP_CACHE_TIMEOUT = 3
  ARP_REQUEST_LIMIT = 1
  Networks <- AllNetworks
  MaxTime = 3
  Rounds = 8
INVARIANTS FindsLongestPrefix EachHopAges InTouchMeansDelivered SimulationSucceeds
PROPERTY ComesToRest
CHECK_DEADLOCK FALSE
