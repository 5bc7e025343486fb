CONSTANTS
  Files <- MCFiles
SPECIFICATION Spec
INVARIANTS
  DirectivesReported
PROPERTIES
  StreamPreprocessed
  Responds
