SPECIFICATION Spec
CONSTANTS
    Procs = {p1}
    Ops = {o1, o2}
    Paths = {x1, x2, x3}
    Files = {f1, f2, f3}
    NoFile = NoFile
    Torn = Torn
    NoPath = NoPath
    NoOp = NoOp
    CheckedPlanner = FALSE
    Faults = TRUE
    Interference = FALSE
    MaxEdits = 2
    MaxUndo = 2
SYMMETRY Symmetry
INVARIANTS
    TypeOK
    NoLoss
PROPERTIES
    ImplementsStore
