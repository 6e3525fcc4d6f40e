SPECIFICATION Spec
CONSTANTS
  BITS = 4
  LONG_BITS = 2
  INT_BITS = 2
  length_bucket = 3
  KADEM_ALPHA = 2
  KADEM_TIMEOUT_REFRESH_DATA = 10
  KADEM_TIMEOUT_REFRESH_QUERY = 1
  KADEM_TIMEOUT_PING = 1
  PingPeriod = 1
  NoClient = noclient
  NoPeer = nopeer
  Node <- Couple
  Contacts <- Joining
  Peer <- JoinPair
  Requests <- Holders
  UninitialisedCounts = {0, 5}
  Wild = {TRUE, FALSE}
  MaxTime = 0
  MaxLost = 0
  MaxDuplicated = 0
  MaxDeaths = 0
PROPERTIES
  
  ImplementsDhtService
CHECK_DEADLOCK FALSE
