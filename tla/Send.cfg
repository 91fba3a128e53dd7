CONSTANTS
  IndexMod = 2
  SplitMod = 2
  Messages <- EdgeMessages
  MaxMessages = 3
  MaxItem = 3
  Numbers = {0, 1, 3}
SPECIFICATION Spec
CHECK_DEADLOCK FALSE
INVARIANTS TypeOK Numbered Rejoins AcksOnce Sized
