CONSTANTS
  IndexMod = 8
  SplitMod = 1
  Kinds <- SplitKinds
  MaxNum = 5
SPECIFICATION Spec
CHECK_DEADLOCK FALSE
INVARIANT OrderedExact
