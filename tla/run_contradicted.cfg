CONSTANTS
  NVars = 7
  NTemps = 16
  NoReg = NoReg
  WordBits = 5
  Fuel = 40
  Values <- AllValues
  RegisterPool <- CodePool
  Ints <- MCInts
  Modules <- Contradicting
SPECIFICATION RunSpec
INVARIANTS
  CalleeSavedKept
  Assembles
CHECK_DEADLOCK FALSE
