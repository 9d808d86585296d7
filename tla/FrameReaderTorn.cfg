SPECIFICATION Spec
CONSTANTS
  ChunkSize = 24
  MaxRead = 2
  Shapes <- RetryShapes
  MaxFrames = 3
  MaxSize = 12
  Junk = 2
  Modes = {"nonblocking"}
INVARIANTS
  NothingInvented
CHECK_DEADLOCK FALSE
