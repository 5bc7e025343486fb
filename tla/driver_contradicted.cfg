CONSTANTS
  FileNames <- AllNames
  Readable <- OnDisk
  BadTokens <- LexFault
  BadSyntax <- SyntaxFault
  BadMeaning <- MeaningFault
  Unfoldable <- LargeInSum
  Unlowerable <- LargeConstant
  Unwritable <- ReadOnly
  CommandLines <- Contradicted
SPECIFICATION Spec
INVARIANTS
  FilesIndependent
  IrUnoptimized
CHECK_DEADLOCK FALSE
