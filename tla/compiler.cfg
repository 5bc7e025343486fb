CONSTANTS
  Names <- MCNames
  Programs <- AllPrograms
  WordBits = 4
  Fuel = 120
  Values <- MCValues
  RegisterPool <- CodePool
  NoReg = NoReg
SPECIFICATION CompilerSpec
INVARIANTS
  SourceKept
  MeaningDelivered
  AbortsOnLiterals
PROPERTIES
  Delivers
CHECK_DEADLOCK FALSE
