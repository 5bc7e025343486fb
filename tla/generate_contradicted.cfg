CONSTANTS
  Names <- GenNames
  Analyzed <- Contradicting
SPECIFICATION Spec
INVARIANTS
  OperandsPresent
  TakenForGranted
CHECK_DEADLOCK FALSE
