SPECIFICATION Spec
CONSTANTS
    Users = {1, 2, 3}
    Txns = {t1, t2}
    None = None
SYMMETRY Symmetric
INVARIANTS
    TypeOK
PROPERTIES
    ActAtOnce
    OnlyMembersChange
    LockedUsersStay
CHECK_DEADLOCK FALSE
