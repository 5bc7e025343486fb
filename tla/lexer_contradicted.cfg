CONSTANTS
  Sources <- Contradicted
  Letters <- MCLetters
  Digits <- MCDigits
  Spaces <- MCSpaces
  Keywords <- MCKeywords
SPECIFICATION Spec
INVARIANTS
  LiteralsWhole
  CaretsAlwaysPoint
  CaretsUnderFaults
CHECK_DEADLOCK FALSE
