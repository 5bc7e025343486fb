CONSTANTS
  Names <- SemaNames
  Programs <- SemaPrograms
SPECIFICATION Spec
INVARIANTS
  TypeOK
  ScopesBalanced
  Diagnosed
  FieldsResolved
CHECK_DEADLOCK FALSE
