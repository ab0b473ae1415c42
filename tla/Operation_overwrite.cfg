SPECIFICATION Spec
CONSTANTS
    Procs = {p1, p2}
    Ops = {o1, o2}
    Paths = {x1, x2, x3}
    Files = {f1, f2}
    NoFile = NoFile
    Torn = Torn
    NoPath = NoPath
    NoOp = NoOp
    CheckedPlanner = TRUE
    Faults = FALSE
    Interference = FALSE
    MaxEdits = 0
    MaxUndo = 1
SYMMETRY Symmetry
PROPERTIES
    NoOverwrite
