SPECIFICATION FeedSpec
CONSTANTS
  Role = "Client"
  WriteLen = 1
  MaxMessage = 2
  Modes = {FALSE}
  PeerShapes <- FeedShapes
  MaxArrivals = 3
  MaxWrites = 0
  MaxConns = 2
INVARIANTS
  UpdatesInOrder
  PairedPongs
  LeavesAfterReply
  NeverAborts
  MessagesWhole
  NothingSwallowed
PROPERTIES
  Replaced
CHECK_DEADLOCK FALSE
