SPECIFICATION InventorySpec
CONSTANTS
    s1 = s1
    s2 = s2
    n1 = n1
    n2 = n2
    r1 = r1
    None = None
    Subs = {s1, s2}
    Nodes = {n1, n2, r1}
    Residential = {r1}
    Contents <- MCContents
    MaxChecks = 1
SYMMETRY Symmetry
INVARIANTS
    InventoryTypeOK
    ActiveIsLastSuccess
    ListedNodesSurvive
    VerdictMatchesHistory
PROPERTIES
    DisabledSticks
    RevivedUnverified
