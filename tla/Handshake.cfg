SPECIFICATION FairSpec
CONSTANTS
  ChunkSize = 8
  Entries = {"connect", "client", "accept"}
  OutLen = 2
  InLen = 5
  MaxBehind = 2
  Answers = {"accept", "bad", "mismatch", "refuse", "redirect"}
  MaxRead = 4
  MaxBytes = 6
  MaxPackets = 4
  MinPacketSize = 2
  PacketCheckThreshold = 2
  MaxRedirects = 1
INVARIANTS
  NothingMislaid
  Handover
  FailsForCause
PROPERTIES
  HandshakeEnds
CHECK_DEADLOCK FALSE
