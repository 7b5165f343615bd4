CONSTANTS
  Sources <- MCSources
SPECIFICATION Spec
CHECK_DEADLOCK FALSE
INVARIANTS
  SubtractsFromLeft
