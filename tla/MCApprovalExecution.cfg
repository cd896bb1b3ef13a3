SPECIFICATION FairSpec
CONSTANTS
    r1 = r1
    r2 = r2
    w1 = w1
    w2 = w2
    ana = ana
    bo = bo
    Requests = {r1}
    Workers = {w1}
    Users = {ana}
    NoUser = NoUser
    Nobody = Nobody
    AttemptLimit = 2
    MaxClicks = 2
INVARIANTS
    TypeOK
    NoForgottenInstance
    InstanceTruthful
    DoneMeansRecorded
    RetryBudget
PROPERTIES
    OrphanIsReported
    PendingIsTakenUp
    ReviewIsQuarantine
    OnlyHolderWrites
    InstanceKept
    KeepsPromise
CHECK_DEADLOCK FALSE
