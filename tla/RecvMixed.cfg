CONSTANTS
  IndexMod = 8
  SplitMod = 4
  Kinds <- MixedKinds
  MaxNum = 4
SPECIFICATION FairSpec
CHECK_DEADLOCK FALSE
INVARIANTS OrderedExact UnmixedLoose AckedHeld
PROPERTIES OrderedDelivered EventuallyAcked
