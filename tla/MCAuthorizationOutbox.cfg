SPECIFICATION FairSpec
CONSTANTS
    k1 = k1
    k2 = k2
    o1 = o1
    o2 = o2
    Gone = Gone
    Checks = {}
    Workers = {o1, o2}
    TTL = 2
    BatchSize = 2
    MaxVersion = 4
    MaxNow = 0
    MaxFaults = 1
INVARIANTS
    PublishedIsCleared
PROPERTIES
    AllPublished
CHECK_DEADLOCK FALSE
