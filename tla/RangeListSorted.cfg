CONSTANTS
  MaxItem = 5
  CountMod = 3
SPECIFICATION Spec
INVARIANT Sorted
