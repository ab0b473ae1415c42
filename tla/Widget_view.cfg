SPECIFICATION Spec
CONSTANTS
    MaxScans = 1
    PlanSize = 1
    MaxRequests = 1
    NoPlan = none
    Hidden = hidden
INVARIANT ViewIsShown
