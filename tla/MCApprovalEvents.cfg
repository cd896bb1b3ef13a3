SPECIFICATION FairSpec
CONSTANTS
    i1 = i1
    r1 = r1
    r2 = r2
    i2 = i2
    Records = {r1, r2}
    Instances = {i1, i2}
    MaxVersion = 2
    MaxRetries = 2
    Batch = 1
    MaxEvents = 2
    MaxFaults = 1
    None = None
CONSTRAINT InOrder
INVARIANTS
    TypeOK
    ProcessedIsRecorded
PROPERTIES
    StatusNeverGoesBack
    EventLeavesQueue
CHECK_DEADLOCK FALSE
