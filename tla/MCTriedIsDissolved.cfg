SPECIFICATION Spec
CONSTANTS
  Records = {rec1, rec2}
  Workers = {wk1, wk2}
  PromptLookup = TRUE
  LateReads = FALSE
  None = None
CONSTRAINT OneGroup
PROPERTIES
  TriedStays
CHECK_DEADLOCK FALSE
