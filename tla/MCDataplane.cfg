SPECIFICATION Spec
CONSTANTS
    A = A
    B = B
    Bad = Bad
    Empty = Empty
    Bootstrap = Bootstrap
    None = None
    Configs = {A, B, Bad, Empty, Bootstrap}
    Valid = {A, B, Empty, Bootstrap}
    Modes = {TRUE, FALSE}
    MaxWaiting = 1
    Faults = {"cancel", "io", "refuse", "late", "planecrash", "crash"}
INVARIANTS
    TypeOK
    OnlyValidated
    MemoryAgrees
    FailedApplyRestores
    NoLostEdit
PROPERTIES
    PublicationSpec
CHECK_DEADLOCK FALSE
