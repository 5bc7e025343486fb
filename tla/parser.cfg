CONSTANT Inputs <- ParserInputs
SPECIFICATION FairSpec
INVARIANTS
  TypeOK
  LanguageAccepted
  PrecedenceKept
  NothingLost
PROPERTY Parses
CHECK_DEADLOCK FALSE
