CONSTANT Inputs <- Contradicted
SPECIFICATION FairSpec
INVARIANTS
  ReportedOnce
  WholeLanguageAccepted
CHECK_DEADLOCK FALSE
