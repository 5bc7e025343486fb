CONSTANTS
  FileNames <- AllNames
  Readable <- OnDisk
  BadTokens <- LexFault
  BadSyntax <- SyntaxFault
  BadMeaning <- MeaningFault
  Unfoldable <- LargeInSum
  Unlowerable <- LargeConstant
  Unwritable <- ReadOnly
  CommandLines <- AllLines
SPECIFICATION Spec
INVARIANTS
  LinkedComplete
  ExitTells
  HaltsWhereAsked
CHECK_DEADLOCK FALSE
