SPECIFICATION Spec
CONSTANTS
  Role = "Client"
  WriteLen = 1
  MaxMessage = 2
  Modes = {FALSE, TRUE}
  PeerShapes <- ControlShapes
  MaxArrivals = 3
  MaxWrites = 1
INVARIANTS
  NothingAfterClose
  HandshakeState
  ClosedMeansDone
  NoReplyWaits
  PongsMatchPings
CHECK_DEADLOCK FALSE
