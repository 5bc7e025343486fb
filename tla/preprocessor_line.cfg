CONSTANTS
  Files <- MCFiles
SPECIFICATION Spec
INVARIANTS
  EveryFilePreprocessed
