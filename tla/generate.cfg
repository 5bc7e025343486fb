CONSTANTS
  Names <- GenNames
  Analyzed <- GenUnits
SPECIFICATION Spec
INVARIANTS
  TypeOK
  BackendAssumption
  BlocksClosed
CHECK_DEADLOCK FALSE
