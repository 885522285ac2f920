SPECIFICATION Spec
CONSTANTS
    MaxJobs = 1
    MaxLoops = 1
    MaxCalls = 3
    MaxDue = 1
    MaxFaults = 0
    MaxCrashes = 1
INVARIANT OneRunPerDueTime
CHECK_DEADLOCK FALSE
