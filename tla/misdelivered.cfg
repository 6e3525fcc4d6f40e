SPECIFICATION Spec
CONSTANTS
  joe = joe
  jack = jack
  n1 = n1
  n2 = n2
  Login <- Pair
  Node = {n1, n2}
  Dht <- OneEach
  Nobody = nobody
  None = none
  Line <- Talk
  Wait = 1
  MaxLines <- TwoAndOne
  MaxDeaths = 1
INVARIANTS
  MessagesReachAddressee
CHECK_DEADLOCK FALSE
