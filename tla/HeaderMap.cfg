SPECIFICATION Spec
CONSTANTS
  WordSpan = 64
  Counts <- MCCounts
  Sizes <- MCSizes
INVARIANTS
  TypeOK
  SlicesInBounds
  RefusedDoesNotFit
CHECK_DEADLOCK FALSE
