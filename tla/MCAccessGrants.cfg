SPECIFICATION Spec
CONSTANTS
    a = a
    u = u
    p = p
    q = q
    Users = {a, u}
    Perms = {p, q}
    Guarded = {q}
    Groups = {g}
    Admins = {a}
    Txns = {t1, t2}
    Workers = {w1, w2}
    None = None
    Never = Never
    BatchSize = 1
    SweepSize = 1
    LateJoins = FALSE
    Subjects = {u}
    MaxChanges = 3
    MaxNow = 1
SYMMETRY Symmetric
INVARIANTS
    TypeOK
    TokensAreTrue
PROPERTIES
    PassedOn
    BumpHasCause
CHECK_DEADLOCK FALSE
