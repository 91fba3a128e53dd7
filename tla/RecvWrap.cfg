CONSTANTS
  IndexMod = 5
  SplitMod = 1
  Kinds <- WrapKinds
  MaxNum = 6
SPECIFICATION Spec
CHECK_DEADLOCK FALSE
INVARIANTS TypeOK ExactUntilReuse SequencedNewest EarlyAhead
