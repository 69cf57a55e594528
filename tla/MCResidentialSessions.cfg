SPECIFICATION Spec
CONSTANTS
    n1 = n1
    n2 = n2
    h1 = h1
    h2 = h2
    None = None
    Sessions = {1, 2}
    Nodes = {n1, n2}
    Holders = {h1, h2}
    Watched = {1}
    PoolSize = 2
    MaxEvents = 2
    MaxLeases = 1
    MaxFaults = 1
INVARIANTS
    TypeOK
    AllocationsBacked
    ServedAsRecorded
PROPERTIES
    LeaseRespected
    VersionDetectsMoves
CHECK_DEADLOCK FALSE
SYMMETRY Symmetry
