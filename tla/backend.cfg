CONSTANTS
  NVars = 3
  NTemps = 24
  NoReg = NoReg
  WordBits = 5
  Fuel = 40
  Values <- AllValues
  RegisterPool <- TwoRegisters
  Ints <- MCInts
  Modules <- Wild
SPECIFICATION RunSpec
INVARIANTS
  TypeOK
  RegistersConserved
  SlotsDisjoint
  HeldForUse
  EncodableCode
  FrameRestored
PROPERTIES
  NoEarlyRelease
  StoresInFrame
CHECK_DEADLOCK FALSE
