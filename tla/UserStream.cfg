SPECIFICATION FairSpec
CONSTANTS
  PingInterval = 4
  ReadTimeout = 1
  Pause = 1
  HttpTime = 1
  ConnectTime = 1
  ReadTime = 2
  MaxBack = 2
INVARIANTS
  KeyFresh
PROPERTIES
  Reconnects
CHECK_DEADLOCK FALSE
