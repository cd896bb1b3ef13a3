SPECIFICATION Spec
CONSTANTS
    Users = {1, 2}
    Txns = {t1, t2, t3}
    None = None
SYMMETRY Symmetric
INVARIANTS
    AdminRemains
CHECK_DEADLOCK FALSE
