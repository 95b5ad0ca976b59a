SPECIFICATION FairSpec
CONSTANTS
    Objects = {o1, o2}
    Clients = {c1}
    MaxVersion = 3
    MaxFaults = 1
    QueueSize = 1
    None = None
INVARIANTS StreamIsComplete VersionsAreOrdered
PROPERTIES CatchesUp
CHECK_DEADLOCK FALSE
