CONSTANTS
  NVars = 3
  NTemps = 16
  NoReg = NoReg
  WordBits = 5
  Fuel = 40
  Values <- AllValues
  RegisterPool <- ThreeRegisters
  Ints <- MCInts
  Modules <- Tame
SPECIFICATION RunSpec
PROPERTIES
  TranslationCorrect
CHECK_DEADLOCK FALSE
