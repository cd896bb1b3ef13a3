SPECIFICATION Spec
CONSTANTS
    r1 = r1
    r2 = r2
    s1 = s1
    s2 = s2
    t1 = t1
    t2 = t2
    t3 = t3
    c1 = c1
    None = None
    Requests = {r1, r2}
    Sessions = {s1, s2}
    Tokens = {t1, t2, t3}
    Codes = {c1}
    Resets = {x1}
    x1 = x1
    MaxVersion = 2
SYMMETRY Symmetric
INVARIANTS
    TypeOK
    RefreshOnce
    RecoveryCodeOnce
PROPERTIES
    KeepsPromise
CONSTRAINT Small
CHECK_DEADLOCK FALSE
