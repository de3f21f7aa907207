SPECIFICATION FairSpec
CONSTANTS
  ARP_CACHE_TIMEOUT = 30
  ARP_REQUEST_LIMIT = 5
  Server = "s"
  Ip <- HostIp
  Port <- HostPort
  Segments <- ThreeSegments
  Settings <- AllSettings
  MaxWrites = 3
  MaxTime = 30
INVARIANT ReadWasWritten
PROPERTY WrittenIsRead
CHECK_DEADLOCK FALSE
