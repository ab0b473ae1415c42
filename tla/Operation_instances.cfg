SPECIFICATION Spec
CONSTANTS
    Procs = {p1, p2}
    Ops = {o1, o2}
    Paths = {x1, x2, x3}
    Files = {f1, f2}
    NoFile = NoFile
    Torn = Torn
    NoPath = NoPath
    NoOp = NoOp
    CheckedPlanner = FALSE
    Faults = TRUE
    Interference = TRUE
    MaxEdits = 0
    MaxUndo = 1
SYMMETRY Symmetry
INVARIANTS
    Accounted
    AtMostOnce
