SPECIFICATION Spec
CONSTANTS
    Records = {rec1, rec2}
    Workers = {wk1, wk2}
    PromptLookup = FALSE
    LateReads = FALSE
    None = None
CONSTRAINT OneGroup
SYMMETRY Symmetric
INVARIANTS
    TypeOK
    LeaderMirrorsGroup
    GroupInstanceReal
    LeaderInPlace
PROPERTIES
    ClicksRespectWork
    GroupInstanceKept
CHECK_DEADLOCK FALSE
