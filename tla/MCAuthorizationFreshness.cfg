SPECIFICATION Spec
CONSTANTS
    k1 = k1
    k2 = k2
    o1 = o1
    o2 = o2
    Gone = Gone
    Checks = {k1, k2}
    Workers = {}
    TTL = 2
    BatchSize = 2
    MaxVersion = 2
    MaxNow = 3
    MaxFaults = 0
SYMMETRY Symmetric
INVARIANTS
    TypeOK
    BudgetNotRenewed
PROPERTIES
    FreshAcceptance
    StaleIsStale
    RevokedIsRefused
