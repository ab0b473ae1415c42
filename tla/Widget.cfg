SPECIFICATION Spec
CONSTANTS
    MaxScans = 2
    PlanSize = 1
    MaxRequests = 1
    NoPlan = none
    Hidden = hidden
INVARIANTS TypeOK ShownIsPending NotOfferedAgain
PROPERTIES ButtonsRecover StatusSettles
