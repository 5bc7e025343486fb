CONSTANTS
  NVars = 2
  NTemps = 16
  WordBits = 4
  Fuel = 40
  Values <- AllValues
  Modules <- OptModules
SPECIFICATION FairSpec
INVARIANTS
  TypeOK
  NoDangling
  Fixpoint
PROPERTIES
  MeaningKept
  Terminates
CHECK_DEADLOCK FALSE
