SPECIFICATION Spec
CONSTANTS
  BITS = 4
  LONG_BITS = 3
  INT_BITS = 2
  length_bucket = 3
  KADEM_ALPHA = 2
  KADEM_TIMEOUT_REFRESH_DATA = 10
  KADEM_TIMEOUT_REFRESH_QUERY = 1
  KADEM_TIMEOUT_PING = 1
  PingPeriod = 1
  NoClient = noclient
  Self <- self
  Id <- Peers
  Met <- Greetings
  Request <- Asked
  Named <- Answers
  UninitialisedCounts = {0, 3}
  MaxTime = 3
  MaxAnswers = 4
INVARIANTS
  TypeOK
  AnswersOrdered
  AtMostTwice
PROPERTIES
  OthersStay
CHECK_DEADLOCK FALSE
