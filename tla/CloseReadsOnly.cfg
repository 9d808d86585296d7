SPECIFICATION FairSpec
CONSTANTS
  WriteLen = 1
  Closes = {"bare"}
  ServerFlushes = FALSE
  MaxWrites = 2
PROPERTIES
  ServerToldWhenFinished
CHECK_DEADLOCK FALSE
