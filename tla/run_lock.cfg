SPECIFICATION FairSpec
CONSTANTS
    Procs = {p1, p2, p3}
    Missing = Missing
    Torn = Torn
    Overlap = FALSE
    MaxVanish = 1
INVARIANT Exclusion
PROPERTIES StaleLockNeverBlocks LockIsRestored
CHECK_DEADLOCK FALSE
