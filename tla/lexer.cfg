CONSTANTS
  Sources <- AllFiles
  Letters <- MCLetters
  Digits <- MCDigits
  Spaces <- MCSpaces
  Keywords <- MCKeywords
SPECIFICATION Spec
INVARIANTS
  MaximalMunch
  CaretsPoint
  ReportedOnce
PROPERTIES
  StreamKept
CHECK_DEADLOCK FALSE
