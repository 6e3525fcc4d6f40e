SPECIFICATION Spec
CONSTANTS
  BITS = 4
  LONG_BITS = 2
  INT_BITS = 2
  length_bucket = 3
  KADEM_ALPHA = 2
  KADEM_TIMEOUT_REFRESH_DATA = 10
  KADEM_TIMEOUT_REFRESH_QUERY = 1
  KADEM_TIMEOUT_PING = 1
  PingPeriod = 1
  NoClient = noclient
  NoPeer = nopeer
  Node <- Trio
  Contacts <- Chain
  Peer <- NoPeers
  Requests <- PutsAndKill
  UninitialisedCounts = {0, 5}
  Wild = {TRUE, FALSE}
  MaxTime = 0
  MaxLost = 1
  MaxDuplicated = 0
  MaxDeaths = 0
INVARIANTS
  TypeOK
  DataIntegrity
  StoresAreGranted
PROPERTIES
  DeathsExplained
  ImplementsDhtService
CHECK_DEADLOCK FALSE
