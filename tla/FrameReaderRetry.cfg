SPECIFICATION Spec
CONSTANTS
  ChunkSize = 16
  MaxRead = 3
  Shapes <- AllShapes
  MaxFrames = 3
  MaxSize = 5
  Junk = 2
  Modes = {"blocking", "nonblocking"}
INVARIANTS
  WholeFramesIntact
CHECK_DEADLOCK FALSE
