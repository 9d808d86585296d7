SPECIFICATION FairSpec
CONSTANTS
  ChunkSize = 22
  MaxRead = 4
  Shapes <- PlainShapes
  MaxFrames = 5
  MaxSize = 9
  Junk = 4
  Modes = {"blocking"}
INVARIANTS
  DeliveredIntact
  NeverBreaks
  DrainedBeforeWaiting
  IInv
PROPERTIES
  StreamSpec
  
CHECK_DEADLOCK FALSE
