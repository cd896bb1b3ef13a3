SPECIFICATION Spec
CONSTANTS
  Records = {rec1, rec2}
  Workers = {wk1, wk2}
  PromptLookup = TRUE
  LateReads = TRUE
  None = None
CONSTRAINT OneGroup
INVARIANTS
  LeaderInPlace
CHECK_DEADLOCK FALSE
