SPECIFICATION Spec
CONSTANTS
    n1 = n1
    n2 = n2
    h1 = h1
    h2 = h2
    None = None
    Sessions = {1}
    Nodes = {n1, n2}
    Holders = {h1}
    Watched = {1}
    PoolSize = 1
    MaxEvents = 2
    MaxLeases = 1
    MaxFaults = 0
PROPERTIES
    RepairSparesUsable
CHECK_DEADLOCK FALSE
