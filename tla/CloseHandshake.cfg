SPECIFICATION FairSpec
CONSTANTS
  WriteLen = 1
  Closes = {"bare"}
  ServerFlushes = TRUE
  MaxWrites = 2
PROPERTIES
  PromiseKept
  Finishes
INVARIANTS
  OrderlyClose
CHECK_DEADLOCK FALSE
