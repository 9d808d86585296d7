SPECIFICATION Spec
CONSTANTS
  ShortRun = 123
  LongRun = 65533
  MaxSize = 65535
  MaxText = 4
  Payloads <- MCPayloads
  Codes <- MCCodes
INVARIANTS
  FramesArrive
  TextWhole
  RefusedRightly
  CloseAnswered
CHECK_DEADLOCK FALSE
