SPECIFICATION Spec
CONSTANTS
  BITS = 4
  LONG_BITS = 2
  INT_BITS = 2
  length_bucket = 3
  KADEM_ALPHA = 2
  KADEM_TIMEOUT_REFRESH_DATA = 10
  KADEM_TIMEOUT_REFRESH_QUERY = 1
  KADEM_TIMEOUT_PING = 1
  PingPeriod = 1
  NoClient = noclient
  NoPeer = nopeer
  Node <- Trio
  Contacts <- Meeting
  Peer <- JoinLast
  Requests <- OnePut
  UninitialisedCounts = {0}
  Wild = {TRUE, FALSE}
  MaxTime = 3
  MaxLost = 0
  MaxDuplicated = 0
  MaxDeaths = 1
INVARIANTS
  StoresGoToAnswerers
  AnswersComeLast
PROPERTIES
  FreshAnswersOnly
  StoreOnce
CHECK_DEADLOCK FALSE
