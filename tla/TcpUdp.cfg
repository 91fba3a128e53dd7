CONSTANTS
  Base = 2
  LenBytes = 2
  NumMod = 6
  Messages <- SmallMessages
  MaxMsgs = 3
  MaxNum = 7
  MaxBatch = 1
SPECIFICATION FairSpec
CHECK_DEADLOCK FALSE
INVARIANTS TypeOK
PROPERTIES ImplementsStream NewestOnly
