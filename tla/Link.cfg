SPECIFICATION FairSpec
CONSTANTS
  ARP_CACHE_TIMEOUT = 3
  ARP_REQUEST_LIMIT = 2
  Hosts = {1, 2, 3}
  Settings <- CleanAndFaulty
  MaxTime = 4
INVARIANTS NothingLostOrOvertaken ArrivesOnceAtItsHop RequestsAreSpaced StaleAddressExpires
PROPERTY EveryDatagramArrives
CHECK_DEADLOCK FALSE
