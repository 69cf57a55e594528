SPECIFICATION Spec
CONSTANTS
    o1 = o1
    o2 = o2
    g1 = g1
    g2 = g2
    l1 = l1
    Initial = Initial
    None = None
    Ops = {o1, o2}
    Groups = {g1, g2}
    Listeners = {l1}
    Verbs = {"createGroup", "createListener", "createService", "updateGroup", "updateListener", "updateService", "deleteGroup", "deleteListener", "rotate", "settings"}
    Faults = {"apply", "call"}
SYMMETRY Symmetry
INVARIANTS
    ServicesTypeOK
    ServedIsCurrent
    RejectedEditsVanish
PROPERTIES
    NoLostUpdate
CHECK_DEADLOCK FALSE
