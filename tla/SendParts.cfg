CONSTANTS
  IndexMod = 100000
  SplitMod = 65536
  Messages <- LongMessages
  MaxMessages = 1
  MaxItem = 0
  Numbers = {0}
SPECIFICATION Spec
CHECK_DEADLOCK FALSE
INVARIANT Rejoins
