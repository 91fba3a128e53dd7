CONSTANTS
  MaxItem = 5
  CountMod = 3
SPECIFICATION Spec
INVARIANTS TypeOK NothingInvented WireSound FreshSorted NothingLost WireExact
