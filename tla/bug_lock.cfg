SPECIFICATION Spec
CONSTANTS
    Procs = {p1, p2}
    Missing = Missing
    Torn = Torn
    Overlap = TRUE
    MaxVanish = 0
INVARIANTS Exclusion
CHECK_DEADLOCK FALSE
