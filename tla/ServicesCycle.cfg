SPECIFICATION Spec
CONSTANTS
    o1 = o1
    o2 = o2
    g1 = g1
    g2 = g2
    l1 = l1
    Initial = Initial
    None = None
    Ops = {o1, o2}
    Groups = {g1, g2}
    Listeners = {l1}
    Verbs = {"updateGroup"}
    Faults = {}
SYMMETRY Symmetry
INVARIANTS
    NoGroupCycle
CHECK_DEADLOCK FALSE
