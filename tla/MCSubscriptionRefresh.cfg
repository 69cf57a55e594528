SPECIFICATION FairSpec
CONSTANTS
    n1 = n1
    n2 = n2
    s1 = s1
    w1 = w1
    w2 = w2
    c1 = c1
    None = None
    NoSub = NoSub
    Subs = {s1}
    Nodes = {n1, n2}
    Residential = {}
    Contents <- MCContents
    MaxChecks = 0
    Pool = {w1, w2}
    Callers = {c1}
    QueueSize = 1
    MaxFailures = 2
    MaxCrashes = 1
INVARIANTS
    TypeOK
    RecordIsCurrent
    SnapshotsHaveFiles
PROPERTIES
    KeepsRefreshing
CHECK_DEADLOCK FALSE
