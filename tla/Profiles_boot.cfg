SPECIFICATION FairSpec
CONSTANTS
  Byte = 8
  Bits = 6
  HostBitsLimit = 5
  Names <- MCNames
  Parseable <- MCParseable
  Startups <- MCStartups
  Shape <- MCShape
  ListedPorts <- MCListedPorts
  HostTTL = 2
CHECK_DEADLOCK FALSE
INVARIANTS InnermostWins EveryHostOnce GuardedRequests TypeOfLastSweep RowsTellSweeps
PROPERTIES SameHostSameType Settles
