SPECIFICATION Spec
CONSTANTS
  WeightSeqs <- SomePowers
  MaxUint64 = 15
CHECK_DEADLOCK FALSE
INVARIANTS
  ChosenOnce
  SliceInBounds
  PanicsOnlyOnOverflow
  ProportionalInRound
