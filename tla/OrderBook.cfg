SPECIFICATION BookSpec
CONSTANTS
  DEPTH = 2
  Messages <- MCMessages
INVARIANTS
  WrittenInOrder
  SameBook
