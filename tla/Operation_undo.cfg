SPECIFICATION Spec
CONSTANTS
    Procs = {p1}
    Ops = {o1, o2, o3}
    Paths = {x1, x2, x3, x4}
    Files = {f1, f2, f3}
    NoFile = NoFile
    Torn = Torn
    NoPath = NoPath
    NoOp = NoOp
    CheckedPlanner = FALSE
    Faults = FALSE
    Interference = FALSE
    MaxEdits = 0
    MaxUndo = 2
SYMMETRY Symmetry
INVARIANTS
    UndoReady
