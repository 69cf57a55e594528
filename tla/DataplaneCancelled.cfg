SPECIFICATION Spec
CONSTANTS
    A = A
    B = B
    Bad = Bad
    Empty = Empty
    Bootstrap = Bootstrap
    None = None
    Configs = {A, B, Bad, Empty, Bootstrap}
    Valid = {A, B, Empty, Bootstrap}
    Modes = {TRUE}
    MaxWaiting = 1
    Faults = {"cancel"}
INVARIANTS
    SuccessServes
CHECK_DEADLOCK FALSE
