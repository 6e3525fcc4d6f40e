SPECIFICATION Spec
CONSTANTS
  BITS = 4
  LONG_BITS = 2
  INT_BITS = 2
  length_bucket = 2
  KADEM_ALPHA = 2
  KADEM_TIMEOUT_REFRESH_DATA = 2
  KADEM_TIMEOUT_REFRESH_QUERY = 2
  KADEM_TIMEOUT_PING = 1
  PingPeriod = 1
  NoClient = noclient
  Self <- self
  Neighbour <- TwoBuckets
  MaxTime = 4
  MaxPings = 5
INVARIANTS
  TypeOK
  WaitersAreJustified
  Placement
PROPERTIES
  NoContactLeavesEarly
CHECK_DEADLOCK FALSE
