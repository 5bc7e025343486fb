CONSTANTS
  NVars = 3
  NTemps = 16
  NoReg = NoReg
  WordBits = 5
  Fuel = 120
  Values <- AllValues
  RegisterPool <- CodePool
  Ints <- MCInts
  Modules <- TestCtrl
SPECIFICATION RunSpec
PROPERTIES
  TranslationCorrect
CHECK_DEADLOCK FALSE
