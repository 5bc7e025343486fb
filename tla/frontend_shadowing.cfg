CONSTANTS
  Names <- MCNames
  Programs <- Shadowing
  WordBits = 4
  Fuel = 120
  Values <- MCValues
  RegisterPool <- CodePool
  NoReg = NoReg
SPECIFICATION CompilerSpec
INVARIANTS
  SourceKept
CHECK_DEADLOCK FALSE
