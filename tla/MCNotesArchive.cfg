SPECIFICATION Spec
CONSTANTS
    Notes = {"a"}
    Lifecycles = {"proposed", "implemented"}
    Cited = {"a"}
    t1 = t1
    t2 = t2
    Tools = {t1, t2}
    d1 = d1
    d2 = d2
    Dates = {d1, d2}
    MaxText = 1
    None = None
SYMMETRY Symmetry
INVARIANTS
    NotesTypeOK
    TextsKept
