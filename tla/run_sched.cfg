SPECIFICATION FairSpec
CONSTANTS
    MaxJobs = 2
    MaxLoops = 2
    MaxCalls = 4
    MaxDue = 1
    MaxFaults = 1
    MaxCrashes = 1
INVARIANTS SurplusNeedsCause DeletedStaysGone OneTimer
PROPERTIES DueIsRun
CHECK_DEADLOCK FALSE
