CONSTANTS
  Names <- SemaNames
  Programs <- SemaPrograms
SPECIFICATION Spec
INVARIANTS
  ParametersInScope
  VoidMayReturn
  OuterTypeKept
CHECK_DEADLOCK FALSE
